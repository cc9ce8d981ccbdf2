------------------------------ MODULE Sessions ------------------------------
(***************************************************************************)
(* Who is logged in to the panel: webauth.go's sessions, the OIDC flow and *)
(* the handlers of web.go around them.  Everything is in the memory of one *)
(* process; the browsers keep two cookies (the session and the state of an *)
(* OIDC flow) and their tabs the CSRF token of the page they show.  Each   *)
(* tab has one request under way: it is sent with the cookies of that      *)
(* moment, served later, and its answer, which may set cookies, arrives    *)
(* later still or never.  (Of a page load and of a password login nothing  *)
(* is read before it is served: those are sent and served in one step.)    *)
(*                                                                         *)
(* randomToken is the next number: tokens are never used twice.  A session *)
(* is its token; its csrf and its user are not told apart from it, except  *)
(* that person[s] says whose identity it carries.  Sessions all live for   *)
(* sessionTTL, so they expire in the order they were made: those up to     *)
(* horizon have expired.  checkLocal is module LoginLimit's.               *)
(***************************************************************************)
EXTENDS Naturals

CONSTANTS Browsers, Tabs, BrowserOf, \* BrowserOf[t]: the browser of a tab
          MaxSessions,               \* bound: tokens handed out as sessions
          MaxFlows,                  \* bound: OIDC flows begun
          MaxRestarts                \* bound: restarts of the panel

ASSUME SessionsAssumption ==
    /\ BrowserOf \in [Tabs -> Browsers]
    /\ MaxSessions \in Nat /\ MaxFlows \in Nat /\ MaxRestarts \in Nat

VARIABLES sessions,  \* tokens in webAuth.sessions
          person,    \* person[s]: whose identity session s was made for
          issued,    \* session tokens handed out so far
          horizon,   \* sessions 1..horizon have expired
          ended,     \* history: sessions logged out, as served
          discovery, \* oidcProvider.once: "new", "running", "ok", "failed"
          flow,      \* flow[f]: the code of an OIDC flow and who logged in
          flows,     \* state tokens handed out so far
          restarts,
          jar,       \* jar[b]: the cookies of a browser, 0 for none
          tab        \* tab[t]: what a tab has under way, and its page

sessVars == <<sessions, person, issued, horizon, ended, discovery, flow, flows,
              restarts, jar, tab>>

Person == Browsers \cup {"nobody"}
NoFlow == [code |-> "none", who |-> "nobody"]
Asking == {"post", "logout", "start", "callback", "exchange"}

\* op: how far the request is; sid, state: the cookies sent with it that its
\* handler looks at, or, in an answer, the cookies it sets (Keep: it sets none);
\* flow: the state parameter of the link; page: the session whose token the page
\* on the screen holds and puts in the header of its calls.
Keep == MaxSessions + MaxFlows + 1
Quiet(page) == [op |-> "idle", sid |-> 0, state |-> 0, flow |-> 0, page |-> page]
Answer(t, sid, state, f) ==
    [op |-> "answer", sid |-> sid, state |-> state, flow |-> f, page |-> tab[t].page]

SessInit ==
    /\ sessions = {} /\ issued = 0 /\ horizon = 0 /\ ended = {}
    /\ person = [s \in 1..MaxSessions |-> "nobody"]
    /\ discovery = "new" /\ flows = 0 /\ restarts = 0
    /\ flow = [f \in 1..MaxFlows |-> NoFlow]
    /\ jar = [b \in Browsers |-> [sid |-> 0, state |-> 0]]
    /\ tab = [t \in Tabs |-> Quiet(0)]

----------------------------------------------------------------------------
(* The browser's side.                                                      *)

Sent(t, op, f) ==
    [op |-> op, flow |-> f, page |-> tab[t].page,
     sid   |-> IF op \in {"post", "logout"} THEN jar[BrowserOf[t]].sid ELSE 0,
     state |-> IF op = "callback" THEN jar[BrowserOf[t]].state ELSE 0]

\* A tab sends an API call with the token of the page it shows, logs out, or
\* starts an OIDC login.
Send(t) ==
    /\ tab[t].op = "idle"
    /\ \E op \in {"post", "logout", "start"} :
          /\ op = "start" => flows < MaxFlows
          /\ tab' = [tab EXCEPT ![t] = Sent(t, op, 0)]
    /\ UNCHANGED <<sessions, person, issued, horizon, ended, discovery, flow, flows,
                   restarts, jar>>

\* The provider has sent a browser back with a code; that link may be opened
\* in any tab of any browser, and again (reload, back button, copied address).
OpenCallback(t) ==
    /\ tab[t].op = "idle"
    /\ \E f \in 1..flows : /\ flow[f].code # "none"
                           /\ tab' = [tab EXCEPT ![t] = Sent(t, "callback", f)]
    /\ UNCHANGED <<sessions, person, issued, horizon, ended, discovery, flow, flows,
                   restarts, jar>>

Set(old, new) == IF new = Keep THEN old ELSE new

\* The answer arrives and its cookies are kept; after a start the browser goes
\* on to the provider.
Arrive(t) ==
    /\ tab[t].op = "answer"
    /\ jar' = [jar EXCEPT ![BrowserOf[t]] = [sid   |-> Set(@.sid, tab[t].sid),
                                             state |-> Set(@.state, tab[t].state)]]
    /\ tab' = [tab EXCEPT ![t] =
                 IF @.flow # 0 THEN [Quiet(@.page) EXCEPT !.op = "provider", !.flow = tab[t].flow]
                               ELSE Quiet(@.page)]
    /\ UNCHANGED <<sessions, person, issued, horizon, ended, discovery, flow, flows,
                   restarts>>

\* The connection breaks before the answer arrives.
Lose(t) ==
    /\ tab[t].op = "answer"
    /\ tab' = [tab EXCEPT ![t] = Quiet(@.page)]
    /\ UNCHANGED <<sessions, person, issued, horizon, ended, discovery, flow, flows,
                   restarts, jar>>

\* The person at the browser proves who they are to the provider.
ProviderLogin(t) ==
    /\ tab[t].op = "provider"
    /\ flow' = [flow EXCEPT ![tab[t].flow] = [code |-> "issued", who |-> BrowserOf[t]]]
    /\ tab' = [tab EXCEPT ![t] = Quiet(@.page)]
    /\ UNCHANGED <<sessions, person, issued, horizon, ended, discovery, flows,
                   restarts, jar>>

----------------------------------------------------------------------------
(* The server's side: webauth.go 118-195, web.go 156-199.                   *)

Alive(s) == s \in sessions /\ s > horizon

\* session: the lookup of every request; an expired session is dropped.
Looked(s) == IF Alive(s) THEN sessions ELSE sessions \ {s}

\* createSession, which also drops the sessions that have expired, and the
\* answer that hands the token out.  state: what the answer does to the other
\* cookie.
Purged == {s \in sessions : s > horizon}
\* Variant of the next definition: the sweep that forgets the sessions in use.
CreateSessionSweep(t, who, state) ==
    /\ issued < MaxSessions
    /\ issued' = issued + 1
    /\ sessions' = (sessions \ Purged) \cup {issued + 1}
    /\ person' = [person EXCEPT ![issued + 1] = who]
    /\ tab' = [tab EXCEPT ![t] = Answer(t, issued + 1, state, 0)]
CreateSession(t, who, state) ==
    /\ issued < MaxSessions
    /\ issued' = issued + 1
    /\ sessions' = Purged \cup {issued + 1}
    /\ person' = [person EXCEPT ![issued + 1] = who]
    /\ tab' = [tab EXCEPT ![t] = Answer(t, issued + 1, state, 0)]

\* handleIndex and handleState: the page gets the session's token, or none.
ServePage(t) ==
    LET s == jar[BrowserOf[t]].sid
    IN  /\ tab[t].op = "idle"
        /\ sessions' = Looked(s)
        /\ tab' = [tab EXCEPT ![t] = Quiet(IF Alive(s) THEN s ELSE 0)]
        /\ UNCHANGED <<person, issued, horizon, ended, discovery, flow, flows, restarts, jar>>

\* requireSession for a call that changes something: 401, 403, or handled.
ServePost(t) ==
    /\ tab[t].op = "post"
    /\ sessions' = Looked(tab[t].sid)
    /\ tab' = [tab EXCEPT ![t] =
                 IF Alive(@.sid) /\ @.page = @.sid THEN [@ EXCEPT !.op = "handled"]
                                                   ELSE Quiet(@.page)]
    /\ UNCHANGED <<person, issued, horizon, ended, discovery, flow, flows, restarts, jar>>

HandlerDone(t) ==
    /\ tab[t].op = "handled"
    /\ tab' = [tab EXCEPT ![t] = Quiet(@.page)]
    /\ UNCHANGED <<sessions, person, issued, horizon, ended, discovery, flow, flows,
                   restarts, jar>>

\* Variant of the next definition: a logout that clears the cookie alone.
ServeLogoutCookie(t) ==
    /\ tab[t].op = "logout"
    /\ sessions' = Looked(tab[t].sid)
    /\ ended' = IF Alive(tab[t].sid) THEN ended \cup {tab[t].sid} ELSE ended
    /\ tab' = [tab EXCEPT ![t] = IF Alive(@.sid) THEN Answer(t, 0, Keep, 0)
                                                 ELSE Quiet(@.page)]
    /\ UNCHANGED <<person, issued, horizon, discovery, flow, flows, restarts, jar>>
\* POST /logout, behind requireSession: its path is not under /api/, so no
\* token is asked for.
ServeLogout(t) ==
    /\ tab[t].op = "logout"
    /\ sessions' = sessions \ {tab[t].sid}
    /\ ended' = IF Alive(tab[t].sid) THEN ended \cup {tab[t].sid} ELSE ended
    /\ tab' = [tab EXCEPT ![t] = IF Alive(@.sid) THEN Answer(t, 0, Keep, 0)
                                                 ELSE Quiet(@.page)]
    /\ UNCHANGED <<person, issued, horizon, discovery, flow, flows, restarts, jar>>

\* handleLoginPost with the right password (a wrong one changes nothing here).
ServeLogin(t) ==
    /\ tab[t].op = "idle"
    /\ CreateSession(t, BrowserOf[t], Keep)
    /\ UNCHANGED <<horizon, ended, discovery, flow, flows, restarts, jar>>

----------------------------------------------------------------------------
(* OIDC: webauth.go 241-407, web.go 207-258.                              *)

\* The first caller of discover runs once.Do; the others wait for it.
BeginDiscovery(t) ==
    /\ tab[t].op \in {"start", "exchange"}
    /\ discovery = "new"
    /\ discovery' = "running"
    /\ UNCHANGED <<sessions, person, issued, horizon, ended, flow, flows, restarts, jar, tab>>

\* The provider's metadata comes, or an error that is remembered for good.
EndDiscovery ==
    /\ discovery = "running"
    /\ discovery' \in {"ok", "failed"}
    /\ UNCHANGED <<sessions, person, issued, horizon, ended, flow, flows, restarts, jar, tab>>

\* once.Do returns to every caller when the first one's call has ended.
Discovered == discovery \in {"ok", "failed"}

\* handleOIDCStart: a state cookie and the way to the provider, or /login.
ServeStart(t) ==
    /\ tab[t].op = "start"
    /\ Discovered
    /\ IF discovery = "failed"
       THEN /\ tab' = [tab EXCEPT ![t] = Quiet(@.page)]
            /\ UNCHANGED flows
       ELSE /\ flows < MaxFlows /\ flows' = flows + 1
            /\ tab' = [tab EXCEPT ![t] = Answer(t, Keep, flows + 1, flows + 1)]
    /\ UNCHANGED <<sessions, person, issued, horizon, ended, discovery, flow, restarts, jar>>

\* Variant of the next definition: the link alone is looked at.
ServeCallbackAnyState(t) ==
    /\ tab[t].op = "callback"
    /\ tab' = [tab EXCEPT ![t] = [@ EXCEPT !.op = "exchange", !.state = 0]]
    /\ UNCHANGED <<sessions, person, issued, horizon, ended, discovery, flow, flows,
                   restarts, jar>>
\* handleOIDCCallback: the state of the link must be the one in the cookie.
ServeCallback(t) ==
    /\ tab[t].op = "callback"
    /\ tab' = [tab EXCEPT ![t] = IF @.state # 0 /\ @.state = @.flow
                                 THEN [@ EXCEPT !.op = "exchange", !.state = 0] ELSE Quiet(@.page)]
    /\ UNCHANGED <<sessions, person, issued, horizon, ended, discovery, flow, flows,
                   restarts, jar>>

\* exchange and identity: the provider takes a code once; its claims are the
\* person's, for this client, not expired and on the allow-list, or refused.
\* Whatever comes of it, the answer drops the state cookie.
Exchange(t) ==
    LET f == tab[t].flow
    IN  /\ tab[t].op = "exchange"
        /\ Discovered
        /\ \/ /\ discovery = "ok" /\ flow[f].code = "issued"
              /\ CreateSession(t, flow[f].who, 0)
              /\ flow' = [flow EXCEPT ![f].code = "used"]
           \/ /\ tab' = [tab EXCEPT ![t] = Answer(t, Keep, 0, 0)]
              /\ flow' = [flow EXCEPT ![f].code =
                             IF discovery = "ok" THEN "used" ELSE @]
              /\ UNCHANGED <<sessions, person, issued>>
        /\ UNCHANGED <<horizon, ended, discovery, flows, restarts, jar>>

----------------------------------------------------------------------------
\* Time passes: the oldest session that has not expired does.
Expire ==
    /\ horizon < issued
    /\ horizon' = horizon + 1
    /\ UNCHANGED <<sessions, person, issued, ended, discovery, flow, flows, restarts, jar, tab>>

\* The panel is restarted: its memory is gone, and so is what it had under way.
Restart ==
    /\ restarts < MaxRestarts
    /\ restarts' = restarts + 1
    /\ sessions' = {} /\ discovery' = "new"
    /\ tab' = [t \in Tabs |-> IF tab[t].op \in Asking \cup {"handled"}
                              THEN Quiet(tab[t].page) ELSE tab[t]]
    /\ UNCHANGED <<person, issued, horizon, ended, flow, flows, jar>>

SessNext ==
    \/ \E t \in Tabs : \/ Send(t) \/ OpenCallback(t) \/ Arrive(t) \/ Lose(t)
                       \/ ProviderLogin(t)
                       \/ ServePage(t) \/ ServePost(t) \/ HandlerDone(t)
                       \/ ServeLogout(t) \/ ServeLogin(t)
                       \/ BeginDiscovery(t) \/ ServeStart(t) \/ ServeCallback(t)
                       \/ Exchange(t)
    \/ EndDiscovery \/ Expire \/ Restart

SessSpec == SessInit /\ [][SessNext]_sessVars

----------------------------------------------------------------------------
\* A browser is logged in as the person who logged in there, by password or at
\* the provider, whichever tab or browser opened the callback's link
\* (web.go 229-258, webauth.go 316-407).
OwnIdentity ==
    \A b \in Browsers :
        LET s == jar[b].sid IN s # 0 => person[s] = b

\* A session that was logged out never handles a call again, although tabs and
\* requests still carry its cookie and its token (webauth.go 146-171).
EndedStaysEnded ==
    [][\A t \in Tabs : tab[t].op # "handled" /\ tab'[t].op = "handled"
                          => tab[t].sid \notin ended]_sessVars

\* A session leaves the map when it has expired, by its own logout, or with the
\* process: other logins and lookups never take it (webauth.go 128-144).
LiveSessionKept ==
    [][\A s \in sessions \ sessions' :
          s <= horizon \/ s \in ended' \/ restarts' # restarts]_sessVars
============================================================================
