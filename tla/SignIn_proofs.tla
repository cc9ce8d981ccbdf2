---------------------------- MODULE SignIn_proofs ----------------------------
(***************************************************************************)
(* Theorems about signing in: sessions and OIDC logins, for any number of  *)
(* browsers, tabs, sessions, flows and restarts, and the bound on the      *)
(* passwords looked at, for any limit, any window and any number of        *)
(* addresses and concurrent requests.                                      *)
(***************************************************************************)
EXTENDS Sessions, LoginLimit, FiniteSetTheorems, TLAPS

----------------------------------------------------------------------------
(* Sessions *)


Ops == {"idle", "post", "logout", "start", "callback", "exchange", "provider",
        "answer", "handled"}
Tab == [op : Ops, sid : Nat, state : Nat, flow : Nat, page : Nat]
Flow == [code : {"none", "issued", "used"}, who : Person]

\* A callback is that of a flow that was begun.
Linked(tb, begun) == tb.op \in {"callback", "exchange"} => tb.flow \in 1..begun

SessTypeOK ==
    /\ issued \in 0..MaxSessions /\ flows \in 0..MaxFlows
    /\ horizon \in Nat /\ restarts \in Nat
    /\ person \in [1..MaxSessions -> Person]
    /\ flow \in [1..MaxFlows -> Flow]
    /\ jar \in [Browsers -> [sid : Nat, state : Nat]]
    /\ tab \in [Tabs -> Tab] /\ \A t \in Tabs : Linked(tab[t], flows)

\* Tokens are given once: a session that was logged out is not in the map, and its
\* token is not one still to come.
Retired ==
    /\ sessions \subseteq 1..issued /\ ended \subseteq 1..issued
    /\ sessions \cap ended = {}

LEMMA KeepType == Keep \in Nat
BY SessionsAssumption DEF Keep

LEMMA QuietType == \A p \in Nat : Quiet(p) \in Tab /\ Quiet(p).op = "idle" /\ Linked(Quiet(p), flows)
BY DEF Quiet, Tab, Ops, Linked

LEMMA SentType ==
    ASSUME SessTypeOK, NEW t \in Tabs, NEW f \in Nat,
           NEW op \in {"post", "logout", "start", "callback"}
    PROVE  /\ Sent(t, op, f) \in Tab
           /\ op # "callback" \/ f \in 1..flows => Linked(Sent(t, op, f), flows)
<1>1. tab[t] \in Tab /\ jar[BrowserOf[t]] \in [sid : Nat, state : Nat]
  BY SessionsAssumption DEF SessTypeOK
<1>2. QED
  BY <1>1 DEF Sent, Tab, Ops, Linked

LEMMA AnswerType ==
    ASSUME SessTypeOK, NEW t \in Tabs, NEW sid \in Nat, NEW state \in Nat, NEW f \in Nat
    PROVE  Answer(t, sid, state, f) \in Tab /\ \A n : Linked(Answer(t, sid, state, f), n)
<1>1. tab[t] \in Tab
  BY DEF SessTypeOK
<1>2. QED
  BY <1>1 DEF Answer, Tab, Ops, Linked

\* A step of one tab that is nothing to the sessions.
LEMMA TabType ==
    ASSUME SessTypeOK, NEW t \in Tabs, NEW new \in Tab, Linked(new, flows),
           tab' = [tab EXCEPT ![t] = new],
           UNCHANGED <<issued, horizon, person, flow, flows, restarts, jar>>
    PROVE  SessTypeOK'
BY DEF SessTypeOK

LEMMA CreateType ==
    ASSUME SessTypeOK, Retired, NEW t \in Tabs, NEW who \in Person, NEW state \in Nat,
           CreateSession(t, who, state), UNCHANGED <<horizon, flows, restarts, jar, ended>>,
           flow' \in [1..MaxFlows -> Flow]
    PROVE  SessTypeOK' /\ Retired'
<1>1. issued' = issued + 1 /\ issued' \in 0..MaxSessions /\ issued + 1 \in Nat
  BY SessionsAssumption DEF SessTypeOK, CreateSession
<1>2. tab' = [tab EXCEPT ![t] = Answer(t, issued + 1, state, 0)]
  BY DEF CreateSession
<1>3. tab' \in [Tabs -> Tab]
  BY <1>1, <1>2, AnswerType DEF SessTypeOK
<1>3a. \A u \in Tabs : Linked(tab'[u], flows')
  BY <1>1, <1>2, AnswerType DEF SessTypeOK
<1>4. person' \in [1..MaxSessions -> Person]
  BY DEF SessTypeOK, CreateSession
<1>5. Retired'
  <2>1. sessions' = Purged \cup {issued + 1} /\ ended' = ended /\ Purged \subseteq sessions
    BY DEF CreateSession, Purged
  <2>2. 1..issued \subseteq 1..issued' /\ issued + 1 \in 1..issued' /\ issued + 1 \notin 1..issued
    BY <1>1 DEF SessTypeOK
  <2>3. QED
    BY <2>1, <2>2 DEF Retired
<1>6. QED
  BY <1>1, <1>3, <1>3a, <1>4, <1>5 DEF SessTypeOK

LEMMA TypeStep == SessTypeOK /\ Retired /\ [SessNext]_sessVars => SessTypeOK' /\ Retired'
<1> SUFFICES ASSUME SessTypeOK, Retired, [SessNext]_sessVars PROVE SessTypeOK' /\ Retired'
  OBVIOUS
<1>t. \A t \in Tabs : tab[t] \in Tab /\ tab[t].page \in Nat /\ tab[t].flow \in Nat
                      /\ Linked(tab[t], flows)
  BY DEF SessTypeOK, Tab
<1>j. \A t \in Tabs : jar[BrowserOf[t]] \in [sid : Nat, state : Nat]
  BY SessionsAssumption DEF SessTypeOK
<1>1. ASSUME NEW t \in Tabs, Send(t) PROVE SessTypeOK' /\ Retired'
  <2>1. PICK op \in {"post", "logout", "start"} : tab' = [tab EXCEPT ![t] = Sent(t, op, 0)]
    BY <1>1 DEF Send
  <2>2. QED
    BY <1>1, <2>1, SentType, TabType DEF Send, Retired
<1>2. ASSUME NEW t \in Tabs, OpenCallback(t) PROVE SessTypeOK' /\ Retired'
  <2>1. PICK f \in 1..flows : tab' = [tab EXCEPT ![t] = Sent(t, "callback", f)]
    BY <1>2 DEF OpenCallback
  <2>2. f \in Nat
    BY DEF SessTypeOK
  <2>3. QED
    BY <1>2, <2>1, <2>2, SentType, TabType DEF OpenCallback, Retired
<1>3. ASSUME NEW t \in Tabs, Arrive(t) PROVE SessTypeOK' /\ Retired'
  <2> DEFINE cookies == [sid   |-> Set(jar[BrowserOf[t]].sid, tab[t].sid),
                         state |-> Set(jar[BrowserOf[t]].state, tab[t].state)]
             on == [Quiet(tab[t].page) EXCEPT !.op = "provider", !.flow = tab[t].flow]
             new == IF tab[t].flow # 0 THEN on ELSE Quiet(tab[t].page)
  <2>1. cookies \in [sid : Nat, state : Nat]
    BY <1>t, <1>j DEF Set, Tab
  <2>2. /\ on \in Tab /\ Quiet(tab[t].page) \in Tab
        /\ Linked(on, flows) /\ Linked(Quiet(tab[t].page), flows)
    BY <1>t DEF Quiet, Tab, Ops, Linked
  <2>3. jar' = [jar EXCEPT ![BrowserOf[t]] = cookies] /\ tab' = [tab EXCEPT ![t] = new]
    BY <1>3 DEF Arrive
  <2> HIDE DEF cookies, on
  <2>4. new \in Tab /\ Linked(new, flows)
    BY <2>2
  <2> HIDE DEF new
  <2>5. QED
    <3>1. jar' \in [Browsers -> [sid : Nat, state : Nat]]
      BY <2>1, <2>3 DEF SessTypeOK
    <3>2. tab' \in [Tabs -> Tab] /\ \A u \in Tabs : Linked(tab'[u], flows)
      BY <1>t, <2>3, <2>4 DEF SessTypeOK
    <3>3. QED
      BY <1>3, <3>1, <3>2 DEF Arrive, SessTypeOK, Retired
<1>4. ASSUME NEW t \in Tabs, Lose(t) \/ HandlerDone(t) PROVE SessTypeOK' /\ Retired'
  BY <1>4, <1>t, QuietType, TabType DEF Lose, HandlerDone, Retired
<1>5. ASSUME NEW t \in Tabs, ProviderLogin(t) PROVE SessTypeOK' /\ Retired'
  <2>1. tab' \in [Tabs -> Tab] /\ \A u \in Tabs : Linked(tab'[u], flows)
    BY <1>5, <1>t, QuietType DEF ProviderLogin, SessTypeOK
  <2>2. [code |-> "issued", who |-> BrowserOf[t]] \in Flow
    BY SessionsAssumption DEF Flow, Person
  <2>3. flow' \in [1..MaxFlows -> Flow]
    BY <1>5, <2>2 DEF ProviderLogin, SessTypeOK
  <2>4. QED
    BY <1>5, <2>1, <2>3 DEF ProviderLogin, SessTypeOK, Retired
<1>6. ASSUME NEW t \in Tabs, ServePage(t) PROVE SessTypeOK' /\ Retired'
  <2>1. jar[BrowserOf[t]].sid \in Nat
    BY <1>j
  <2>2. PICK page \in Nat : tab' = [tab EXCEPT ![t] = Quiet(page)]
    BY <1>6, <2>1 DEF ServePage
  <2>3. Retired'
    BY <1>6 DEF ServePage, Looked, Retired
  <2>4. QED
    BY <1>6, <2>2, <2>3, QuietType, TabType DEF ServePage
<1>7. ASSUME NEW t \in Tabs, ServePost(t) PROVE SessTypeOK' /\ Retired'
  <2>1. [tab[t] EXCEPT !.op = "handled"] \in Tab /\ Linked([tab[t] EXCEPT !.op = "handled"], flows)
    BY <1>t DEF Tab, Ops, Linked
  <2>2. PICK new \in Tab : tab' = [tab EXCEPT ![t] = new] /\ Linked(new, flows)
    BY <1>7, <1>t, <2>1, QuietType DEF ServePost
  <2>3. Retired'
    BY <1>7 DEF ServePost, Looked, Retired
  <2>4. QED
    BY <1>7, <2>2, <2>3, TabType DEF ServePost
<1>8. ASSUME NEW t \in Tabs, ServeLogout(t) PROVE SessTypeOK' /\ Retired'
  <2>1. Answer(t, 0, Keep, 0) \in Tab /\ Linked(Answer(t, 0, Keep, 0), flows)
    BY AnswerType, KeepType
  <2>2. PICK new \in Tab : tab' = [tab EXCEPT ![t] = new] /\ Linked(new, flows)
    BY <1>8, <1>t, <2>1, QuietType DEF ServeLogout
  <2>3. Retired'
    BY <1>8 DEF ServeLogout, Alive, Retired
  <2>4. QED
    BY <1>8, <2>2, <2>3, TabType DEF ServeLogout
<1>9. ASSUME NEW t \in Tabs, ServeLogin(t) PROVE SessTypeOK' /\ Retired'
  <2>1. BrowserOf[t] \in Person
    BY SessionsAssumption DEF Person
  <2>2. flow' \in [1..MaxFlows -> Flow]
    BY <1>9 DEF ServeLogin, SessTypeOK
  <2>3. QED
    BY <1>9, <2>1, <2>2, KeepType, CreateType DEF ServeLogin
<1>10. ASSUME NEW t \in Tabs, ServeStart(t) PROVE SessTypeOK' /\ Retired'
  <2>1. CASE discovery = "failed"
    BY <1>10, <2>1, <1>t, QuietType, TabType DEF ServeStart, Retired
  <2>2. CASE discovery # "failed"
    <3>1. flows' = flows + 1 /\ flows' \in 0..MaxFlows /\ flows + 1 \in Nat
      BY <1>10, <2>2, SessionsAssumption DEF ServeStart, SessTypeOK
    <3>2. tab' = [tab EXCEPT ![t] = Answer(t, Keep, flows + 1, flows + 1)]
      BY <1>10, <2>2 DEF ServeStart
    <3>3. tab' \in [Tabs -> Tab] /\ \A u \in Tabs : Linked(tab'[u], flows')
      <4>1. Answer(t, Keep, flows + 1, flows + 1) \in Tab
        BY <3>1, KeepType, AnswerType
      <4>2. \A n : Linked(Answer(t, Keep, flows + 1, flows + 1), n)
        BY DEF Answer, Linked
      <4>3. \A u \in Tabs : Linked(tab[u], flows')
        BY <3>1 DEF SessTypeOK, Linked
      <4>4. QED
        BY <3>2, <4>1, <4>2, <4>3 DEF SessTypeOK
    <3>4. QED
      BY <1>10, <3>1, <3>3 DEF ServeStart, SessTypeOK, Retired
  <2>3. QED
    BY <2>1, <2>2
<1>11. ASSUME NEW t \in Tabs, ServeCallback(t) PROVE SessTypeOK' /\ Retired'
  <2> DEFINE on == [tab[t] EXCEPT !.op = "exchange", !.state = 0]
  <2>1. on \in Tab /\ (tab[t].op = "callback" => Linked(on, flows))
    BY <1>t DEF Tab, Ops, Linked
  <2>2. PICK new \in Tab : tab' = [tab EXCEPT ![t] = new] /\ Linked(new, flows)
    BY <1>11, <1>t, <2>1, QuietType DEF ServeCallback
  <2>3. QED
    BY <1>11, <2>2, TabType DEF ServeCallback, Retired
<1>12. ASSUME NEW t \in Tabs, Exchange(t) PROVE SessTypeOK' /\ Retired'
  <2> DEFINE f == tab[t].flow
  <2>1. flow' \in [1..MaxFlows -> Flow]
    <3>0. f \in 1..MaxFlows
      BY <1>12, <1>t, SessionsAssumption DEF Exchange, Linked, SessTypeOK
    <3>1. PICK code \in {"used", flow[f].code} : flow' = [flow EXCEPT ![f].code = code]
      BY <1>12 DEF Exchange
    <3>2. [flow[f] EXCEPT !.code = code] \in Flow
      BY <3>0 DEF SessTypeOK, Flow
    <3>3. QED
      BY <3>1, <3>2 DEF SessTypeOK
  <2>2. CASE CreateSession(t, flow[f].who, 0)
    <3>1. f \in 1..MaxFlows
      BY <1>12, <1>t, SessionsAssumption DEF Exchange, Linked, SessTypeOK
    <3>2. flow[f].who \in Person
      BY <3>1 DEF SessTypeOK, Flow
    <3>3. QED
      BY <1>12, <2>1, <2>2, <3>2, CreateType DEF Exchange
  <2>3. CASE tab' = [tab EXCEPT ![t] = Answer(t, Keep, 0, 0)] /\ UNCHANGED <<sessions, person, issued>>
    <3>1. Answer(t, Keep, 0, 0) \in Tab /\ Linked(Answer(t, Keep, 0, 0), flows)
      BY AnswerType, KeepType
    <3>2. tab' \in [Tabs -> Tab] /\ \A u \in Tabs : Linked(tab'[u], flows)
      BY <2>3, <3>1 DEF SessTypeOK
    <3>3. QED
      BY <1>12, <2>1, <2>3, <3>2 DEF Exchange, SessTypeOK, Retired
  <2>4. QED
    BY <1>12, <2>2, <2>3 DEF Exchange
<1>13. ASSUME EndDiscovery \/ Expire \/ \E t \in Tabs : BeginDiscovery(t)
       PROVE  SessTypeOK' /\ Retired'
  <2>1. /\ UNCHANGED <<sessions, person, issued, ended, flow, flows, restarts, jar, tab>>
        /\ horizon' \in {horizon, horizon + 1}
    BY <1>13 DEF EndDiscovery, Expire, BeginDiscovery
  <2>2. horizon' \in Nat
    BY <2>1 DEF SessTypeOK
  <2>3. QED
    BY <2>1, <2>2 DEF SessTypeOK, Retired
<1>14. CASE Restart
  <2>1. tab' \in [Tabs -> Tab] /\ \A u \in Tabs : Linked(tab'[u], flows)
    BY <1>14, <1>t, QuietType DEF Restart, SessTypeOK
  <2>2. QED
    BY <1>14, <2>1 DEF Restart, SessTypeOK, Retired
<1>15. CASE UNCHANGED sessVars
  BY <1>15 DEF sessVars, SessTypeOK, Retired
<1>16. QED
  BY <1>1, <1>2, <1>3, <1>4, <1>5, <1>6, <1>7, <1>8, <1>9, <1>10, <1>11, <1>12, <1>13,
     <1>14, <1>15 DEF SessNext
LEMMA InitType == SessInit => SessTypeOK /\ Retired
<1> SUFFICES ASSUME SessInit PROVE SessTypeOK /\ Retired
  OBVIOUS
<1>1. NoFlow \in Flow /\ Quiet(0) \in Tab /\ \A n : Linked(Quiet(0), n)
  BY QuietType DEF NoFlow, Flow, Person, Quiet, Tab, Ops, Linked
<1>2. QED
  BY <1>1, SessionsAssumption DEF SessInit, SessTypeOK, Retired, Person

----------------------------------------------------------------------------
\* A session that was logged out handles no call any more, whoever still holds its
\* cookie and its token.
THEOREM LogoutFinal == SessSpec => EndedStaysEnded
<1>1. ASSUME SessTypeOK, Retired, [SessNext]_sessVars, NEW t \in Tabs,
             tab[t].op # "handled", tab'[t].op = "handled"
      PROVE  tab[t].sid \notin ended
  <2>t. tab \in [Tabs -> Tab]
    BY <1>1 DEF SessTypeOK
  <2>1. ASSUME NEW u \in Tabs, ServePost(u) PROVE tab[t].sid \notin ended
    <3>1. u = t
      BY <1>1, <2>1, <2>t DEF ServePost
    <3>2. Alive(tab[t].sid)
      BY <1>1, <2>1, <2>t, <3>1 DEF ServePost, Quiet
    <3>3. QED
      BY <1>1, <3>2 DEF Alive, Retired
  <2>2. ASSUME NEW u \in Tabs, NEW new, tab' = [tab EXCEPT ![u] = new], new.op # "handled"
        PROVE  FALSE
    BY <1>1, <2>2, <2>t
  <2>3. ASSUME tab' = tab PROVE FALSE
    BY <1>1, <2>3
  <2>4. ASSUME NEW u \in Tabs, Send(u) \/ OpenCallback(u) PROVE FALSE
    <3>1. PICK op \in {"post", "logout", "start", "callback"}, f \in 0..flows :
             tab' = [tab EXCEPT ![u] = Sent(u, op, f)]
      BY <1>1, <2>4 DEF Send, OpenCallback, SessTypeOK
    <3>2. Sent(u, op, f).op # "handled"
      BY DEF Sent
    <3>3. QED
      BY <2>2, <3>1, <3>2
  <2>5. ASSUME NEW u \in Tabs, Arrive(u) PROVE FALSE
    <3>1. Quiet(tab[u].page).op # "handled"
      BY DEF Quiet
    <3>2. [Quiet(tab[u].page) EXCEPT !.op = "provider", !.flow = tab[u].flow].op # "handled"
      BY DEF Quiet
    <3>3. QED
      BY <2>2, <2>5, <3>1, <3>2 DEF Arrive
  <2>6. ASSUME NEW u \in Tabs, Lose(u) \/ ProviderLogin(u) \/ HandlerDone(u) \/ ServePage(u)
        PROVE  FALSE
    <3>1. \A page : Quiet(page).op # "handled"
      BY DEF Quiet
    <3>2. QED
      BY <2>2, <2>6, <3>1 DEF Lose, ProviderLogin, HandlerDone, ServePage
  <2>7. ASSUME NEW u \in Tabs,
               ServeLogout(u) \/ ServeLogin(u) \/ ServeStart(u) \/ Exchange(u)
        PROVE  FALSE
    <3>1. \A sid, state, f : Answer(u, sid, state, f).op # "handled"
      BY DEF Answer
    <3>2. Quiet(tab[u].page).op # "handled"
      BY DEF Quiet
    <3>3. QED
      BY <2>2, <2>7, <3>1, <3>2 DEF ServeLogout, ServeLogin, ServeStart, Exchange, CreateSession
  <2>8. ASSUME NEW u \in Tabs, ServeCallback(u) PROVE FALSE
    <3>1. [tab[u] EXCEPT !.op = "exchange", !.state = 0].op # "handled"
      BY <2>t DEF Tab
    <3>2. Quiet(tab[u].page).op # "handled"
      BY DEF Quiet
    <3>3. QED
      BY <2>2, <2>8, <3>1, <3>2 DEF ServeCallback
  <2>9. ASSUME Restart PROVE FALSE
    BY <1>1, <2>9 DEF Restart, Quiet
  <2>10. ASSUME EndDiscovery \/ Expire \/ (\E u \in Tabs : BeginDiscovery(u)) \/ UNCHANGED sessVars
         PROVE  FALSE
    BY <2>3, <2>10 DEF EndDiscovery, Expire, BeginDiscovery, sessVars
  <2>11. QED
    BY <1>1, <2>1, <2>4, <2>5, <2>6, <2>7, <2>8, <2>9, <2>10 DEF SessNext
<1>2. SessTypeOK /\ Retired /\ [SessNext]_sessVars
        => [\A t \in Tabs : tab[t].op # "handled" /\ tab'[t].op = "handled"
                              => tab[t].sid \notin ended]_sessVars
  BY <1>1
<1>3. QED
  BY <1>2, InitType, TypeStep, PTL DEF SessSpec, EndedStaysEnded

----------------------------------------------------------------------------
\* A session leaves the map by expiry, its own logout, or the end of the process.
THEOREM LiveSessionsStay == SessSpec => LiveSessionKept
<1>1. ASSUME SessTypeOK, Retired, [SessNext]_sessVars, NEW s \in sessions \ sessions'
      PROVE  s <= horizon \/ s \in ended' \/ restarts' # restarts
  <2>1. s \in Nat /\ horizon \in Nat
    BY <1>1 DEF SessTypeOK, Retired
  <2>2. s > horizon \/ s <= horizon
    BY <2>1
  <2>3. ASSUME NEW t \in Tabs, ServePage(t) \/ ServePost(t)
        PROVE  s <= horizon
    BY <1>1, <2>2, <2>3 DEF ServePage, ServePost, Looked, Alive
  <2>4. ASSUME NEW t \in Tabs, ServeLogout(t)
        PROVE  s <= horizon \/ s \in ended'
    BY <1>1, <2>2, <2>4 DEF ServeLogout, Alive
  <2>5. ASSUME NEW t \in Tabs, ServeLogin(t) \/ Exchange(t) PROVE s <= horizon
    BY <1>1, <2>2, <2>5 DEF ServeLogin, Exchange, CreateSession, Purged
  <2>6. ASSUME Restart PROVE restarts' # restarts
    BY <1>1, <2>6 DEF Restart, SessTypeOK
  <2>7. QED
    BY <1>1, <2>3, <2>4, <2>5, <2>6
       DEF SessNext, Send, OpenCallback, Arrive, Lose, ProviderLogin, HandlerDone,
           BeginDiscovery, ServeStart, ServeCallback, EndDiscovery, Expire, sessVars
<1>2. SessTypeOK /\ Retired /\ [SessNext]_sessVars
        => [\A s \in sessions \ sessions' :
              s <= horizon \/ s \in ended' \/ restarts' # restarts]_sessVars
  BY <1>1
<1>3. QED
  BY <1>2, InitType, TypeStep, PTL DEF SessSpec, LiveSessionKept
----------------------------------------------------------------------------
(* Identity.  by[f] is the browser that flow f was begun in: the state keeps  *)
(* no record of it, but it is the same for as long as the flow lasts.         *)

\* The number s was given out, and what was noted with it is browser b.
Owned(s, b, given, note) == s \in 1..given /\ note[s] = b

\* A browser's cookies are of sessions and flows of its own; so are those that an
\* answer sets in it, and the flow its person is led through; and a request that has
\* passed the look at its state cookie is for the browser that began the flow.
TabOK(tb, b, by, given, note, begun) ==
    /\ tb.op = "answer" =>
          /\ tb.sid \in {0, Keep} \/ Owned(tb.sid, b, given, note)
          /\ tb.state \in {0, Keep} \/ Owned(tb.state, b, begun, by)
    /\ tb.op \in {"answer", "provider"} => tb.flow = 0 \/ Owned(tb.flow, b, begun, by)
    /\ tb.op = "callback" => tb.state = 0 \/ Owned(tb.state, b, begun, by)
    /\ tb.op = "exchange" => Owned(tb.flow, b, begun, by)
JarOK(j, b, by, given, note, begun) ==
    /\ j.sid = 0 \/ Owned(j.sid, b, given, note)
    /\ j.state = 0 \/ Owned(j.state, b, begun, by)
\* A code that is good is that of the person at the browser the flow was begun in.
FlowOK(flw, by, begun) ==
    \A f \in 1..MaxFlows : flw[f].code = "issued" => Owned(f, flw[f].who, begun, by)

Bound(by) ==
    /\ \A t \in Tabs : TabOK(tab[t], BrowserOf[t], by, issued, person, flows)
    /\ \A b \in Browsers : JarOK(jar[b], b, by, issued, person, flows)
    /\ FlowOK(flow, by, flows)
IdInv == \E by \in [1..MaxFlows -> Browsers \cup {"nobody"}] : Bound(by)

LEMMA IdleOK ==
    \A tb, b, by, given, note, begun :
       tb.op \in {"idle", "post", "logout", "start", "handled"}
         => TabOK(tb, b, by, given, note, begun)
BY DEF TabOK

\* More numbers may be given out: what was noted with the earlier ones stays.
LEMMA OwnedStays ==
    ASSUME NEW m \in Nat, NEW n \in Nat, m <= n, NEW old, NEW new,
           \A k \in 1..m : new[k] = old[k]
    PROVE  \A s, b : Owned(s, b, m, old) => Owned(s, b, n, new)
BY DEF Owned

\* A step of one tab that is nothing to cookies, sessions and flows.
LEMMA OneTab ==
    ASSUME SessTypeOK, NEW by, Bound(by), NEW t \in Tabs, NEW new,
           tab' = [tab EXCEPT ![t] = new],
           TabOK(new, BrowserOf[t], by, issued, person, flows),
           UNCHANGED <<jar, person, issued, flow, flows>>
    PROVE  Bound(by)'
BY DEF SessTypeOK, Bound

\* A session is made in the name of the browser that is given its cookie.
LEMMA CreateOK ==
    ASSUME SessTypeOK, NEW by, Bound(by), NEW t \in Tabs, NEW state \in {0, Keep},
           CreateSession(t, BrowserOf[t], state), UNCHANGED <<jar, flows>>,
           FlowOK(flow', by, flows)
    PROVE  Bound(by)'
<1>1. issued' = issued + 1 /\ issued \in Nat /\ issued + 1 \in 1..MaxSessions
  BY SessionsAssumption DEF SessTypeOK, CreateSession
<1>2. person' = [person EXCEPT ![issued + 1] = BrowserOf[t]]
  BY DEF CreateSession
<1>3. \A k \in 1..issued : person'[k] = person[k]
  BY <1>1, <1>2 DEF SessTypeOK
<1>4. \A s, b : Owned(s, b, issued, person) => Owned(s, b, issued', person')
  <2>1. issued' \in Nat /\ issued <= issued'
    BY <1>1
  <2>2. QED
    BY <1>1, <1>3, <2>1, OwnedStays
<1>5. Owned(issued + 1, BrowserOf[t], issued', person')
  BY <1>1, <1>2 DEF Owned, SessTypeOK
<1>6. \A u \in Tabs : TabOK(tab[u], BrowserOf[u], by, issued', person', flows)
  BY <1>4 DEF Bound, TabOK
<1>7. \A b \in Browsers : JarOK(jar[b], b, by, issued', person', flows)
  BY <1>4 DEF Bound, JarOK
<1>8. TabOK(Answer(t, issued + 1, state, 0), BrowserOf[t], by, issued', person', flows)
  BY <1>5 DEF TabOK, Answer
<1>9. tab' = [tab EXCEPT ![t] = Answer(t, issued + 1, state, 0)]
  BY DEF CreateSession
<1>10. \A u \in Tabs : TabOK(tab'[u], BrowserOf[u], by, issued', person', flows)
  BY <1>6, <1>8, <1>9 DEF SessTypeOK
<1>11. QED
  BY <1>7, <1>10 DEF Bound

LEMMA IdStep == SessTypeOK /\ IdInv /\ [SessNext]_sessVars => IdInv'
<1> SUFFICES ASSUME SessTypeOK, [SessNext]_sessVars,
                    NEW by \in [1..MaxFlows -> Browsers \cup {"nobody"}], Bound(by)
             PROVE  \E new \in [1..MaxFlows -> Browsers \cup {"nobody"}] : Bound(new)'
  BY DEF IdInv
<1>q. \A page : Quiet(page).op = "idle"
  BY DEF Quiet
<1>t. /\ \A t \in Tabs : /\ tab[t] \in Tab
                         /\ TabOK(tab[t], BrowserOf[t], by, issued, person, flows)
      /\ \A b \in Browsers : JarOK(jar[b], b, by, issued, person, flows)
      /\ FlowOK(flow, by, flows)
      /\ \A t \in Tabs : BrowserOf[t] \in Browsers
  BY SessionsAssumption DEF Bound, SessTypeOK
<1>1. ASSUME NEW t \in Tabs, Send(t) PROVE Bound(by)'
  <2>1. PICK op \in {"post", "logout", "start"} : tab' = [tab EXCEPT ![t] = Sent(t, op, 0)]
    BY <1>1 DEF Send
  <2>2. Sent(t, op, 0).op \in {"post", "logout", "start"}
    BY DEF Sent
  <2>3. TabOK(Sent(t, op, 0), BrowserOf[t], by, issued, person, flows)
    BY <2>2, IdleOK
  <2>4. QED
    BY <1>1, <2>1, <2>3, OneTab DEF Send
<1>2. ASSUME NEW t \in Tabs, OpenCallback(t) PROVE Bound(by)'
  <2>1. PICK f \in 1..flows : tab' = [tab EXCEPT ![t] = Sent(t, "callback", f)]
    BY <1>2 DEF OpenCallback
  <2>2. /\ Sent(t, "callback", f).op = "callback"
        /\ Sent(t, "callback", f).state = jar[BrowserOf[t]].state
    BY DEF Sent
  <2>3. TabOK(Sent(t, "callback", f), BrowserOf[t], by, issued, person, flows)
    BY <1>t, <2>2 DEF TabOK, JarOK
  <2>4. QED
    BY <1>2, <2>1, <2>3, OneTab DEF OpenCallback
<1>3. ASSUME NEW t \in Tabs, Arrive(t) PROVE Bound(by)'
  <2> DEFINE b == BrowserOf[t]
             cookies == [sid   |-> Set(jar[b].sid, tab[t].sid),
                         state |-> Set(jar[b].state, tab[t].state)]
             on == [Quiet(tab[t].page) EXCEPT !.op = "provider", !.flow = tab[t].flow]
             new == IF tab[t].flow # 0 THEN on ELSE Quiet(tab[t].page)
  <2>1. JarOK(cookies, b, by, issued, person, flows)
    BY <1>3, <1>t DEF Arrive, JarOK, TabOK, Set
  <2>2. on.op = "provider" /\ on.flow = tab[t].flow
    BY DEF Quiet
  <2>3. TabOK(new, b, by, issued, person, flows)
    BY <1>3, <1>t, <1>q, <2>2, IdleOK DEF Arrive, TabOK
  <2>4. /\ jar' = [jar EXCEPT ![b] = cookies] /\ tab' = [tab EXCEPT ![t] = new]
        /\ UNCHANGED <<person, issued, flow, flows>>
    BY <1>3 DEF Arrive
  <2> HIDE DEF cookies, new
  <2>5. \A u \in Tabs : TabOK(tab'[u], BrowserOf[u], by, issued, person, flows)
    BY <1>t, <2>3, <2>4 DEF SessTypeOK
  <2>6. \A c \in Browsers : JarOK(jar'[c], c, by, issued, person, flows)
    BY <1>t, <2>1, <2>4 DEF SessTypeOK
  <2>7. QED
    BY <1>t, <2>4, <2>5, <2>6 DEF Bound
<1>4. ASSUME NEW t \in Tabs, Lose(t) \/ HandlerDone(t) PROVE Bound(by)'
  BY <1>4, <1>q, IdleOK, OneTab DEF Lose, HandlerDone
<1>5. ASSUME NEW t \in Tabs, ProviderLogin(t) PROVE Bound(by)'
  <2>1. /\ tab' = [tab EXCEPT ![t] = Quiet(tab[t].page)]
        /\ flow' = [flow EXCEPT ![tab[t].flow] = [code |-> "issued", who |-> BrowserOf[t]]]
        /\ tab[t].op = "provider" /\ UNCHANGED <<jar, person, issued, flows>>
    BY <1>5 DEF ProviderLogin
  <2>2. tab[t].flow = 0 \/ Owned(tab[t].flow, BrowserOf[t], flows, by)
    BY <1>t, <2>1 DEF TabOK
  <2>3. FlowOK(flow', by, flows)
    BY <1>t, <2>1, <2>2 DEF FlowOK, SessTypeOK
  <2>4. \A u \in Tabs : TabOK(tab'[u], BrowserOf[u], by, issued, person, flows)
    BY <1>t, <1>q, <2>1, IdleOK DEF SessTypeOK
  <2>5. QED
    BY <1>t, <2>1, <2>3, <2>4 DEF Bound
<1>6. ASSUME NEW t \in Tabs, ServePage(t) PROVE Bound(by)'
  <2>1. PICK page : tab' = [tab EXCEPT ![t] = Quiet(page)]
    BY <1>6 DEF ServePage
  <2>2. TabOK(Quiet(page), BrowserOf[t], by, issued, person, flows)
    BY <1>q, IdleOK
  <2>3. QED
    BY <1>6, <2>1, <2>2, OneTab DEF ServePage
<1>7. ASSUME NEW t \in Tabs, ServePost(t) PROVE Bound(by)'
  <2>1. [tab[t] EXCEPT !.op = "handled"].op = "handled"
    BY <1>t DEF Tab
  <2>2. PICK new : tab' = [tab EXCEPT ![t] = new] /\ new.op \in {"idle", "handled"}
    BY <1>7, <1>q, <2>1 DEF ServePost
  <2>3. TabOK(new, BrowserOf[t], by, issued, person, flows)
    BY <2>2, IdleOK
  <2>4. QED
    BY <1>7, <2>2, <2>3, OneTab DEF ServePost
<1>8. ASSUME NEW t \in Tabs, ServeLogout(t) PROVE Bound(by)'
  <2>1. TabOK(Answer(t, 0, Keep, 0), BrowserOf[t], by, issued, person, flows)
    BY DEF TabOK, Answer
  <2>2. TabOK(Quiet(tab[t].page), BrowserOf[t], by, issued, person, flows)
    BY <1>q, IdleOK
  <2>3. QED
    BY <1>8, <2>1, <2>2, OneTab DEF ServeLogout
<1>9. ASSUME NEW t \in Tabs, ServeLogin(t) PROVE Bound(by)'
  BY <1>9, <1>t, CreateOK DEF ServeLogin
<1>10. ASSUME NEW t \in Tabs, ServeStart(t)
       PROVE  \E new \in [1..MaxFlows -> Browsers \cup {"nobody"}] : Bound(new)'
  <2>1. CASE discovery = "failed"
    <3>1. Bound(by)'
      BY <1>10, <1>q, <2>1, IdleOK, OneTab DEF ServeStart
    <3>2. QED
      BY <3>1
  <2>2. CASE discovery # "failed"
    <3> DEFINE ans == Answer(t, Keep, flows + 1, flows + 1)
    <3>1. /\ flows' = flows + 1 /\ tab' = [tab EXCEPT ![t] = ans]
          /\ UNCHANGED <<person, issued, flow, jar>> /\ flows < MaxFlows
      BY <1>10, <2>2 DEF ServeStart
    <3>2. flows \in Nat /\ flows + 1 \in 1..MaxFlows
      BY <3>1, SessionsAssumption DEF SessTypeOK
    <3>3. PICK new \in [1..MaxFlows -> Browsers \cup {"nobody"}] :
             new = [by EXCEPT ![flows + 1] = BrowserOf[t]]
      BY <1>t
    <3>4. new[flows + 1] = BrowserOf[t] /\ \A k \in 1..flows : new[k] = by[k]
      BY <3>2, <3>3
    <3>5. \A s, b : Owned(s, b, flows, by) => Owned(s, b, flows', new)
      <4>1. flows' \in Nat /\ flows <= flows'
        BY <3>1, <3>2
      <4>2. QED
        BY <3>2, <3>4, <4>1, OwnedStays
    <3>6. Owned(flows + 1, BrowserOf[t], flows', new)
      BY <3>1, <3>2, <3>4 DEF Owned
    <3>7. TabOK(ans, BrowserOf[t], new, issued, person, flows')
      BY <3>6 DEF TabOK, Answer
    <3>8. \A u \in Tabs : TabOK(tab[u], BrowserOf[u], new, issued, person, flows')
      BY <1>t, <3>5 DEF TabOK
    <3>9. \A u \in Tabs : TabOK(tab'[u], BrowserOf[u], new, issued, person, flows')
      BY <3>1, <3>7, <3>8 DEF SessTypeOK
    <3>10. \A b \in Browsers : JarOK(jar[b], b, new, issued, person, flows')
      BY <1>t, <3>5 DEF JarOK
    <3>11. FlowOK(flow, new, flows')
      BY <1>t, <3>5 DEF FlowOK
    <3>12. Bound(new)'
      BY <3>1, <3>9, <3>10, <3>11 DEF Bound
    <3>13. QED
      BY <3>12
  <2>3. QED
    BY <2>1, <2>2
<1>11. ASSUME NEW t \in Tabs, ServeCallback(t) PROVE Bound(by)'
  <2> DEFINE on == [tab[t] EXCEPT !.op = "exchange", !.state = 0]
  <2>1. on.op = "exchange" /\ on.flow = tab[t].flow
    BY <1>t DEF Tab
  <2> HIDE DEF on
  <2>2. CASE tab[t].state # 0 /\ tab[t].state = tab[t].flow
    <3>1. TabOK(on, BrowserOf[t], by, issued, person, flows)
      BY <1>11, <1>t, <2>1, <2>2 DEF ServeCallback, TabOK
    <3>2. tab' = [tab EXCEPT ![t] = on]
      BY <1>11, <2>2 DEF ServeCallback, on
    <3>3. QED
      BY <1>11, <3>1, <3>2, OneTab DEF ServeCallback
  <2>3. CASE ~(tab[t].state # 0 /\ tab[t].state = tab[t].flow)
    <3>1. TabOK(Quiet(tab[t].page), BrowserOf[t], by, issued, person, flows)
      BY <1>q, IdleOK
    <3>2. tab' = [tab EXCEPT ![t] = Quiet(tab[t].page)]
      BY <1>11, <2>3 DEF ServeCallback
    <3>3. QED
      BY <1>11, <3>1, <3>2, OneTab DEF ServeCallback
  <2>4. QED
    BY <2>2, <2>3
<1>12. ASSUME NEW t \in Tabs, Exchange(t) PROVE Bound(by)'
  <2> DEFINE f == tab[t].flow
  <2>1. Owned(f, BrowserOf[t], flows, by) /\ f \in 1..MaxFlows
    BY <1>12, <1>t, SessionsAssumption DEF Exchange, TabOK, Owned, SessTypeOK
  <2>2. FlowOK(flow', by, flows)
    <3>1. PICK code \in {"used", flow[f].code} : flow' = [flow EXCEPT ![f].code = code]
      BY <1>12 DEF Exchange
    <3>2. \A g \in 1..MaxFlows : /\ flow'[g].who = flow[g].who
                                 /\ flow'[g].code \in {"used", flow[g].code}
      BY <2>1, <3>1 DEF SessTypeOK, Flow
    <3>3. QED
      BY <1>t, <3>2 DEF FlowOK
  <2>3. CASE flow[f].code = "issued" /\ CreateSession(t, flow[f].who, 0)
    <3>1. flow[f].who = BrowserOf[t]
      BY <1>t, <2>1, <2>3 DEF FlowOK, Owned
    <3>2. QED
      BY <1>12, <2>2, <2>3, <3>1, CreateOK DEF Exchange
  <2>4. CASE /\ tab' = [tab EXCEPT ![t] = Answer(t, Keep, 0, 0)]
             /\ UNCHANGED <<sessions, person, issued>>
    <3>1. TabOK(Answer(t, Keep, 0, 0), BrowserOf[t], by, issued, person, flows)
      BY DEF TabOK, Answer
    <3>2. \A u \in Tabs : TabOK(tab'[u], BrowserOf[u], by, issued, person, flows)
      BY <1>t, <2>4, <3>1 DEF SessTypeOK
    <3>3. QED
      BY <1>12, <1>t, <2>2, <2>4, <3>2 DEF Exchange, Bound
  <2>5. QED
    BY <1>12, <2>3, <2>4 DEF Exchange
<1>13. ASSUME EndDiscovery \/ Expire \/ (\E t \in Tabs : BeginDiscovery(t)) \/ UNCHANGED sessVars
       PROVE  Bound(by)'
  BY <1>13 DEF EndDiscovery, Expire, BeginDiscovery, sessVars, Bound
<1>14. ASSUME Restart PROVE Bound(by)'
  <2>1. \A u \in Tabs : tab'[u] = tab[u] \/ tab'[u].op = "idle"
    BY <1>14, <1>q DEF Restart
  <2>2. \A u \in Tabs : TabOK(tab'[u], BrowserOf[u], by, issued, person, flows)
    BY <1>t, <2>1, IdleOK
  <2>3. QED
    BY <1>14, <1>t, <2>2 DEF Restart, Bound
<1>15. QED
  BY <1>1, <1>2, <1>3, <1>4, <1>5, <1>6, <1>7, <1>8, <1>9, <1>10, <1>11, <1>12, <1>13,
     <1>14 DEF SessNext

\* A browser is logged in as the person who logged in there, for any number of browsers
\* and tabs, and however callback links are passed around, lost and repeated.
THEOREM IdentityOwn == SessSpec => []OwnIdentity
<1>1. SessInit => IdInv
  <2> SUFFICES ASSUME SessInit PROVE IdInv
    OBVIOUS
  <2> DEFINE by == [f \in 1..MaxFlows |-> "nobody"]
  <2>1. Bound(by)
    <3>1. \A t \in Tabs : tab[t].op = "idle"
      BY DEF SessInit, Quiet
    <3>2. QED
      BY <3>1, IdleOK DEF SessInit, Bound, JarOK, FlowOK, NoFlow
  <2>2. QED
    BY <2>1 DEF IdInv
<1>2. IdInv => OwnIdentity
  BY DEF IdInv, Bound, JarOK, Owned, OwnIdentity
<1>3. QED
  BY <1>1, <1>2, InitType, TypeStep, IdStep, PTL DEF SessSpec

----------------------------------------------------------------------------
(* The login limit *)


USE AttemptsAssumption, LimitsAssumption

LEMMA OlderType == \A n \in 0 .. Window + 1 : Older(n) \in 0 .. Window + 1
BY DEF Older

\* Every variable stays in its range.
THEOREM LoginTypeOK == Spec => []TypeOK
<1>1. Init => TypeOK
  BY DEF Init, TypeOK
<1>2. TypeOK /\ [Next]_vars => TypeOK'
  <2> SUFFICES ASSUME TypeOK, [Next]_vars PROVE TypeOK'
    OBVIOUS
  <2>1. ASSUME NEW t \in Attempts, NEW a \in Addresses, Admit(t, a) PROVE TypeOK'
    <3>1. Current(a) \in Nat
      BY DEF TypeOK, Current
    <3>2. QED
      BY <2>1, <3>1 DEF TypeOK, Admit
  <2>2. ASSUME NEW t \in Attempts, NEW a \in Addresses, Refuse(t, a) PROVE TypeOK'
    BY <2>2 DEF TypeOK, Refuse, vars
  <2>3. ASSUME NEW t \in Attempts, Succeed(t) PROVE TypeOK'
    BY <2>3 DEF TypeOK, Succeed
  <2>4. ASSUME NEW t \in Attempts, Fail(t) PROVE TypeOK'
    BY <2>4 DEF TypeOK, Fail
  <2>5. CASE Tick
    <3>1. age' \in [Addresses -> 0 .. Window + 1]
      BY <2>5, OlderType DEF TypeOK, Tick
    <3>2. QED
      BY <2>5, <3>1 DEF TypeOK, Tick
  <2>6. CASE UNCHANGED vars
    BY <2>6 DEF TypeOK, vars
  <2>7. QED
    BY <2>1, <2>2, <2>3, <2>4, <2>5, <2>6 DEF Next
<1>3. QED
  BY <1>1, <1>2, PTL DEF Spec

LEMMA VerifyingFinite ==
    ASSUME NEW a
    PROVE  IsFiniteSet(Verifying(a)) /\ Cardinality(Verifying(a)) \in Nat
<1>1. Verifying(a) \subseteq Attempts
  BY DEF Verifying
<1>2. QED
  BY <1>1, FS_Subset, FS_CardinalityType

\* An attempt that is not being verified leaves room for one more.
LEMMA RoomForOne ==
    ASSUME NEW a, NEW t \in Attempts, pc[t] # "verify"
    PROVE  /\ Cardinality(Verifying(a)) <= Cardinality(Attempts) - 1
           /\ Cardinality(Attempts) \in Nat
<1>1. Verifying(a) \subseteq Attempts \ {t}
  BY DEF Verifying
<1>2. IsFiniteSet(Attempts \ {t}) /\ Cardinality(Attempts \ {t}) = Cardinality(Attempts) - 1
  BY FS_RemoveElement
<1>3. Cardinality(Verifying(a)) <= Cardinality(Attempts \ {t})
  BY <1>1, <1>2, FS_Subset
<1>4. QED
  BY <1>2, <1>3, FS_CardinalityType

\* What one step does to the attempts of an address under way.
LEMMA OneMore ==
    ASSUME TypeOK, NEW t \in Attempts, NEW a \in Addresses, Admit(t, a)
    PROVE  /\ Verifying(a)' = Verifying(a) \cup {t} /\ t \notin Verifying(a)
           /\ \A b \in Addresses \ {a} : Verifying(b)' = Verifying(b)
BY DEF TypeOK, Admit, Verifying

LEMMA OneLess ==
    ASSUME TypeOK, NEW t \in Attempts, pc[t] = "verify",
           pc' = [pc EXCEPT ![t] = "idle"], from' = from
    PROVE  /\ t \in Verifying(from[t]) /\ Verifying(from[t])' = Verifying(from[t]) \ {t}
           /\ \A b \in Addresses \ {from[t]} : Verifying(b)' = Verifying(b)
BY DEF TypeOK, Verifying

LEMMA OverrunStep ==
    ASSUME TypeOK, OverrunBounded, [Next]_vars
    PROVE  OverrunBounded'
<1> USE VerifyingFinite
<1>a. \A b \in Addresses : count[b] \in Nat
  BY DEF TypeOK
<1>b. Cardinality(Attempts) \in Nat
  BY FS_CardinalityType
<1>1. ASSUME NEW t \in Attempts, NEW a \in Addresses, Admit(t, a) PROVE OverrunBounded'
  <2>1. Current(a) \in Nat /\ Current(a) <= MaxFails - 1
    BY <1>1 DEF TypeOK, Current, Admit
  <2>2. Cardinality(Verifying(a)) <= Cardinality(Attempts) - 1
    BY <1>1, RoomForOne DEF Admit
  <2>3. Cardinality(Verifying(a)') = Cardinality(Verifying(a)) + 1
    BY <1>1, OneMore, FS_AddElement
  <2>4. count'[a] = Current(a) /\ \A b \in Addresses \ {a} : count'[b] = count[b]
    BY <1>1 DEF TypeOK, Admit
  <2>5. count'[a] + Cardinality(Verifying(a)') <= MaxFails + Cardinality(Attempts) - 1
    BY <2>1, <2>2, <2>3, <2>4, <1>b
  <2>6. \A b \in Addresses \ {a} : Verifying(b)' = Verifying(b)
    BY <1>1, OneMore
  <2>7. QED
    BY <2>4, <2>5, <2>6 DEF OverrunBounded
<1>2. ASSUME NEW t \in Attempts, pc[t] = "verify", pc' = [pc EXCEPT ![t] = "idle"],
             from' = from, count'[from[t]] <= count[from[t]] + 1, count'[from[t]] \in Nat,
             \A b \in Addresses \ {from[t]} : count'[b] = count[b]
      PROVE  OverrunBounded'
  <2>1. from[t] \in Addresses
    BY DEF TypeOK
  <2>2. t \in Verifying(from[t]) /\ Verifying(from[t])' = Verifying(from[t]) \ {t}
    BY <1>2, OneLess
  <2>3. \A b \in Addresses \ {from[t]} : Verifying(b)' = Verifying(b)
    BY <1>2, OneLess
  <2>4. Cardinality(Verifying(from[t]) \ {t}) = Cardinality(Verifying(from[t])) - 1
    BY <2>2, FS_RemoveElement
  <2>5. count'[from[t]] + Cardinality(Verifying(from[t]) \ {t})
            <= MaxFails + Cardinality(Attempts) - 1
    BY <1>2, <1>a, <1>b, <2>1, <2>4 DEF OverrunBounded
  <2>6. ASSUME NEW b \in Addresses
        PROVE  count'[b] + Cardinality(Verifying(b)') <= MaxFails + Cardinality(Attempts) - 1
    <3>1. CASE b = from[t]
      <4>1. Verifying(b)' = Verifying(from[t]) \ {t}
        BY <1>2, <2>2, <3>1 DEF Verifying
      <4>2. QED
        BY <2>5, <3>1, <4>1
    <3>2. CASE b # from[t]
      BY <1>2, <2>3, <3>2 DEF OverrunBounded
    <3>3. QED
      BY <3>1, <3>2
  <2>7. QED
    BY <2>6 DEF OverrunBounded
<1>3. ASSUME NEW t \in Attempts, Succeed(t) PROVE OverrunBounded'
  <2>1. /\ count'[from[t]] = 0 /\ count[from[t]] \in Nat
        /\ \A b \in Addresses \ {from[t]} : count'[b] = count[b]
    BY <1>3 DEF TypeOK, Succeed
  <2>2. count'[from[t]] <= count[from[t]] + 1 /\ count'[from[t]] \in Nat
    BY <2>1
  <2>3. pc[t] = "verify" /\ pc' = [pc EXCEPT ![t] = "idle"] /\ from' = from
    BY <1>3 DEF Succeed
  <2>4. QED
    BY <1>2, <2>1, <2>2, <2>3
<1>4. ASSUME NEW t \in Attempts, Fail(t) PROVE OverrunBounded'
  <2>1. /\ count'[from[t]] = count[from[t]] + 1 /\ count[from[t]] \in Nat
        /\ \A b \in Addresses \ {from[t]} : count'[b] = count[b]
    BY <1>4 DEF TypeOK, Fail
  <2>2. count'[from[t]] <= count[from[t]] + 1 /\ count'[from[t]] \in Nat
    BY <2>1
  <2>3. pc[t] = "verify" /\ pc' = [pc EXCEPT ![t] = "idle"] /\ from' = from
    BY <1>4 DEF Fail
  <2>4. QED
    BY <1>2, <2>1, <2>2, <2>3
<1>5. ASSUME UNCHANGED <<count, pc, from>> PROVE OverrunBounded'
  BY <1>5 DEF OverrunBounded, Verifying
<1>6. QED
  BY <1>1, <1>3, <1>4, <1>5 DEF Next, Refuse, Tick, vars

LEMMA OverrunInit ==
    ASSUME Init
    PROVE  OverrunBounded
<1>1. \A a \in Addresses : Verifying(a) = {}
  BY DEF Init, Verifying
<1>2. Cardinality({}) = 0 /\ Cardinality(Attempts) \in Nat
  BY FS_EmptySet, FS_CardinalityType
<1>3. QED
  BY <1>1, <1>2 DEF Init, OverrunBounded

\* An address never gets more failures counted than the limit plus the requests
\* it may have under way beside the one let in last (checkLocal).
THEOREM OverrunSafe == Spec => []OverrunBounded
<1>1. Init => OverrunBounded
  BY OverrunInit
<1>2. TypeOK /\ OverrunBounded /\ [Next]_vars => OverrunBounded'
  BY OverrunStep
<1>3. QED
  BY <1>1, <1>2, LoginTypeOK, PTL DEF Spec
=============================================================================
