---------------------------- MODULE Panel_proofs ----------------------------
(***************************************************************************)
(* Theorems about what the panel starts and keeps: the streamed commands   *)
(* (Streams), the cache of locations (GeoCache), the guard (Guard) and the *)
(* setup of fail2ban (Jails).  No constant is bounded: any number of       *)
(* requests, pages, scans and setups at once.                              *)
(***************************************************************************)
EXTENDS Streams, GeoCache, Guard, Jails, TLAPS

----------------------------------------------------------------------------
(* Jails *)

SetupTypeOK == setup \in [Setups -> [at : {"idle", "install", "read", "truncate",
                                           "fill", "restart"},
                                     host : SUBSET Hosts]]

\* Half an invariant on its own: between the write of jail.local and the restart
\* there is always someone to make it, or the record that one was cut short.
JailInv == SetupTypeOK /\ errorHost \in SUBSET Hosts /\ JailsApplied

\* A step of one setup keeps the invariant.
LEMMA JailStep == JailInv /\ [JailNext]_jailVars => JailInv'
<1> SUFFICES ASSUME JailInv, [JailNext]_jailVars PROVE JailInv'
  OBVIOUS
<1> USE DEF JailInv, SetupTypeOK, JailsApplied, SetupAt, SetupTo, NoSetup
<1>1. CASE SaveErrorHost
  BY <1>1 DEF SaveErrorHost
<1>2. CASE ServiceRestart
  BY <1>2 DEF ServiceRestart
<1>3. ASSUME NEW p \in Setups, BeginSetup(p) PROVE JailInv'
  <2>1. SetupTypeOK' BY <1>3 DEF BeginSetup
  <2>2. \A q \in Setups : setup[q].at \in {"fill", "restart"} => setup'[q].at = setup[q].at
    BY <1>3 DEF BeginSetup
  <2> QED BY <2>1, <2>2, <1>3 DEF BeginSetup
<1>4. ASSUME NEW p \in Setups, Install(p) PROVE JailInv'
  <2>1. SetupTypeOK' BY <1>4 DEF Install
  <2>2. \A q \in Setups : setup[q].at \in {"fill", "restart"} => setup'[q].at = setup[q].at
    BY <1>4 DEF Install
  <2> QED BY <2>1, <2>2, <1>4 DEF Install
<1>5. ASSUME NEW p \in Setups, ReadErrorHost(p) PROVE JailInv'
  <2>1. SetupTypeOK' BY <1>5 DEF ReadErrorHost
  <2>2. \A q \in Setups : setup[q].at \in {"fill", "restart"} => setup'[q].at = setup[q].at
    BY <1>5 DEF ReadErrorHost
  <2> QED BY <2>1, <2>2, <1>5 DEF ReadErrorHost
<1>6. ASSUME NEW p \in Setups, TruncateJails(p) PROVE JailInv'
  <2>1. SetupTypeOK' /\ setup'[p].at = "fill" BY <1>6 DEF TruncateJails
  <2> QED BY <2>1, <1>6 DEF TruncateJails
<1>7. ASSUME NEW p \in Setups, FillJails(p) PROVE JailInv'
  <2>1. SetupTypeOK' /\ setup'[p].at = "restart" BY <1>7 DEF FillJails
  <2> QED BY <2>1, <1>7 DEF FillJails
<1>8. ASSUME NEW p \in Setups, RestartJails(p) PROVE JailInv'
  <2>1. SetupTypeOK' BY <1>8 DEF RestartJails
  <2> QED BY <2>1, <1>8 DEF RestartJails
<1>9. ASSUME NEW p \in Setups, SetupEnds(p) PROVE JailInv'
  <2>1. SetupTypeOK' BY <1>9 DEF SetupEnds
  <2>2. \A q \in Setups \ {p} : setup'[q] = setup[q]
    BY <1>9 DEF SetupEnds
  <2> QED BY <2>1, <2>2, <1>9 DEF SetupEnds
<1>10. CASE UNCHANGED jailVars
  BY <1>10 DEF jailVars
<1> QED BY <1>1, <1>2, <1>3, <1>4, <1>5, <1>6, <1>7, <1>8, <1>9, <1>10 DEF JailNext

\* fail2ban runs with what jail.local says, unless a setup is on its way to the
\* restart or was cut short before it, with any number of setups at once.
THEOREM SetupApplied == JailSpec => []JailsApplied
<1>1. JailInit => JailInv
  BY DEF JailInit, JailInv, SetupTypeOK, JailsApplied, NoSetup
<1>2. JailInv => JailsApplied
  BY DEF JailInv
<1> QED BY <1>1, <1>2, JailStep, PTL DEF JailSpec

----------------------------------------------------------------------------
(* GeoCache *)

Ages == {"none", "fresh", "expired"}
Page == [at : {"idle", "rows", "fill"}, rows : SUBSET Addrs, cache : [Addrs -> Ages],
         live : Nat, calls : Nat, dirty : BOOLEAN]
GeoTypeOK == geo \in [Addrs -> Ages] /\ page \in [Pages -> Page]

\* Every lookup was counted, and one is begun only below the limit.
Counted(pg) == pg.calls <= pg.live /\ pg.live <= MaxLive
GeoInv == GeoTypeOK /\ \A p \in Pages : Counted(page[p])

LEMMA NoPageCounted == NoGeo \in [Addrs -> Ages] /\ NoPage \in Page /\ Counted(NoPage)
BY GeoAssumption DEF NoGeo, NoPage, Page, Ages, Counted

\* A step that changes the file and one page keeps the invariant if they are right.
LEMMA OnePage ==
    ASSUME GeoInv, NEW p \in Pages, NEW new \in Page, Counted(new),
           page' = [page EXCEPT ![p] = new], geo' \in [Addrs -> Ages]
    PROVE  GeoInv'
BY DEF GeoInv, GeoTypeOK, Counted

\* Each step leaves the counters of all pages but one, and those of that one are
\* reset, kept, or both raised.
LEMMA GeoStep == GeoInv /\ [GeoNext]_geoVars => GeoInv'
<1> SUFFICES ASSUME GeoInv, [GeoNext]_geoVars PROVE GeoInv'
  OBVIOUS
<1>0. geo \in [Addrs -> Ages] /\ \A p \in Pages : page[p] \in Page /\ Counted(page[p])
  BY DEF GeoInv, GeoTypeOK
<1> USE DEF PageAt
<1>1. ASSUME NEW p \in Pages, OpenPage(p) PROVE GeoInv'
  <2>1. PICK rows \in SUBSET Addrs :
           page' = [page EXCEPT ![p] = [NoPage EXCEPT !.at = "rows", !.rows = rows,
                                                      !.cache = geo]]
    BY <1>1 DEF OpenPage
  <2> DEFINE new == [NoPage EXCEPT !.at = "rows", !.rows = rows, !.cache = geo]
  <2>2. new \in Page /\ Counted(new)
    BY <1>0, NoPageCounted DEF Page, Counted
  <2>3. geo' = geo
    BY <1>1 DEF OpenPage
  <2> QED BY <1>0, <2>1, <2>2, <2>3, OnePage
<1>2. ASSUME NEW p \in Pages, ClosePage(p) PROVE GeoInv'
  <2>1. CASE page[p].dirty
    <3>1. [page[p] EXCEPT !.at = "fill"] \in Page /\ Counted([page[p] EXCEPT !.at = "fill"])
      BY <1>0 DEF Page, Counted
    <3>2. geo' = NoGeo /\ page' = [page EXCEPT ![p] = [page[p] EXCEPT !.at = "fill"]]
      BY <1>2, <2>1 DEF ClosePage
    <3> QED BY <3>1, <3>2, NoPageCounted, OnePage
  <2>2. CASE ~page[p].dirty
    BY <1>0, <1>2, <2>2, NoPageCounted, OnePage DEF ClosePage
  <2> QED BY <2>1, <2>2
<1>3. ASSUME NEW p \in Pages, FillGeo(p) PROVE GeoInv'
  <2>1. page[p].cache \in [Addrs -> Ages]
    BY <1>0 DEF Page
  <2> QED BY <1>3, <2>1, NoPageCounted, OnePage DEF FillGeo
<1>4. ASSUME NEW p \in Pages, PruneGeo(p) PROVE GeoInv'
  <2> DEFINE kept == [a \in Addrs |-> IF geo[a] = "fresh" THEN "fresh" ELSE "none"]
             new == [NoPage EXCEPT !.at = "rows", !.dirty = TRUE, !.cache = kept]
  <2>1. kept \in [Addrs -> Ages]
    BY DEF Ages
  <2>2. page' = [page EXCEPT ![p] = new] /\ geo' = geo
    BY <1>4 DEF PruneGeo
  <2> HIDE DEF kept
  <2>3. new \in Page /\ Counted(new)
    BY <2>1, NoPageCounted DEF Page, Counted
  <2> QED BY <1>0, <2>2, <2>3, OnePage
<1>5. ASSUME NEW p \in Pages, NEW a \in Addrs, ShowCached(p, a) PROVE GeoInv'
  <2> DEFINE new == [page[p] EXCEPT !.rows = @ \ {a}]
  <2>1. new \in Page /\ Counted(new)
    BY <1>0 DEF Page, Counted
  <2>2. page' = [page EXCEPT ![p] = new] /\ geo' = geo
    BY <1>5 DEF ShowCached
  <2> QED BY <1>0, <2>1, <2>2, OnePage
<1>6. ASSUME NEW p \in Pages, NEW a \in Addrs, Lookup(p, a) PROVE GeoInv'
  <2>1. PICK found \in BOOLEAN : page' = [page EXCEPT ![p] = Located(p, a, found)]
    BY <1>6 DEF Lookup
  <2>2. geo' = geo
    BY <1>6 DEF Lookup
  <2>3. /\ page[p] \in Page
        /\ page[p].live \in Nat /\ page[p].calls \in Nat /\ page[p].calls <= page[p].live
        /\ page[p].live < MaxLive
    BY <1>0, <1>6 DEF Page, Counted, Lookup
  <2> DEFINE rows  == page[p].rows \ {a}
             live  == page[p].live + 1
             calls == IF a \in Local THEN page[p].calls ELSE page[p].calls + 1
             cache == IF found THEN [page[p].cache EXCEPT ![a] = "fresh"] ELSE page[p].cache
             dirty == page[p].dirty \/ found
  <2>4. /\ rows \in SUBSET Addrs /\ cache \in [Addrs -> Ages] /\ dirty \in BOOLEAN
    BY <2>3 DEF Page, Ages
  <2>5. live \in Nat /\ calls \in Nat /\ calls <= live /\ live <= MaxLive
    BY <2>3, GeoAssumption
  <2>6. Located(p, a, found) =
          [page[p] EXCEPT !.rows = rows, !.live = live, !.calls = calls,
                          !.cache = cache, !.dirty = dirty]
    BY DEF Located
  <2> HIDE DEF rows, live, calls, cache, dirty
  <2>7. Located(p, a, found) \in Page /\ Counted(Located(p, a, found))
    BY <2>3, <2>4, <2>5, <2>6 DEF Page, Counted
  <2> QED BY <1>0, <2>1, <2>2, <2>7, OnePage
<1>7. CASE Month
  <2>1. \A c \in [Addrs -> Ages] : Outdated(c) \in [Addrs -> Ages]
    BY DEF Outdated, Ages
  <2>2. \A p \in Pages : /\ [page[p] EXCEPT !.cache = Outdated(@)] \in Page
                         /\ Counted([page[p] EXCEPT !.cache = Outdated(@)])
    BY <1>0, <2>1 DEF Page, Counted
  <2>3. page' = [p \in Pages |-> [page[p] EXCEPT !.cache = Outdated(@)]] /\ geo' = Outdated(geo)
    BY <1>7 DEF Month
  <2> QED BY <1>0, <2>1, <2>2, <2>3 DEF GeoInv, GeoTypeOK
<1>8. CASE UNCHANGED geoVars
  BY <1>8 DEF geoVars, GeoInv, GeoTypeOK
<1> QED BY <1>1, <1>2, <1>3, <1>4, <1>5, <1>6, <1>7, <1>8 DEF GeoNext

\* A page waits for at most MaxLive lookups, for any number of pages and addresses.
THEOREM LookupsLimited == GeoSpec => []LookupsBounded
<1>1. GeoInit => GeoInv
  BY NoPageCounted DEF GeoInit, GeoInv, GeoTypeOK
<1>2. GeoInv => LookupsBounded
  BY GeoAssumption DEF GeoInv, GeoTypeOK, Page, Counted, LookupsBounded
<1> QED BY <1>1, <1>2, GeoStep, PTL DEF GeoSpec
----------------------------------------------------------------------------
(* Streams *)

Action == [at : {"idle", "asked", "running", "over"}, kind : Kinds,
           child : {"none", "alive", "ended", "killed"},
           sub : {"none", "alive", "ended"}, end : {"open", "left", "timeout"}]

\* A child lives in a request that runs and is open; a command without its child
\* is that of a request that is not open any more; and what is left of a request
\* that is over was cut off.
Sane(a) ==
    /\ a.at \in {"idle", "asked"} => a.sub # "alive" /\ a.end = "open"
    /\ a.child = "alive" => a.at = "running" /\ a.end = "open"
    /\ a.sub = "alive" /\ a.child # "alive" => a.end # "open"
    /\ a.sub = "alive" /\ a.at # "running"
         => a.end = "left" \/ (a.end = "timeout" /\ a.kind = "captures")

\* The mutex is held by the one request that runs.
StreamInv ==
    /\ action \in [Requests -> Action]
    /\ \A r \in Requests : Sane(action[r]) /\ (action[r].at = "running" <=> r \in mutex)
    /\ \A r, s \in mutex : r = s

LEMMA NoActionSane == NoAction \in Action /\ Sane(NoAction)
BY DEF NoAction, Action, Kinds, Sane

\* A step of request r that leaves the mutex as it was.
LEMMA OneAction ==
    ASSUME StreamInv, NEW r \in Requests, NEW new \in Action, Sane(new),
           action' = [action EXCEPT ![r] = new], mutex' = mutex,
           new.at = "running" <=> action[r].at = "running"
    PROVE  StreamInv'
BY DEF StreamInv

LEMMA StreamStep == StreamInv /\ [StreamNext]_streamVars => StreamInv'
<1> SUFFICES ASSUME StreamInv, [StreamNext]_streamVars PROVE StreamInv'
  OBVIOUS
<1> USE DEF Lives
<1>0. \A r \in Requests : action[r] \in Action /\ Sane(action[r])
  BY DEF StreamInv
<1>1. ASSUME NEW r \in Requests, Ask(r) PROVE StreamInv'
  <2>1. PICK k \in Kinds :
           action' = [action EXCEPT ![r] = [NoAction EXCEPT !.at = "asked", !.kind = k]]
    BY <1>1 DEF Ask
  <2> DEFINE new == [NoAction EXCEPT !.at = "asked", !.kind = k]
  <2>2. new \in Action /\ Sane(new) /\ new.at = "asked"
    BY DEF NoAction, Action, Sane
  <2> QED BY <1>1, <2>1, <2>2, OneAction DEF Ask
<1>2. ASSUME NEW r \in Requests, Admit(r) PROVE StreamInv'
  <2> DEFINE new == [action[r] EXCEPT !.at = "running", !.child = "alive"]
  <2>1. action[r].sub # "alive" /\ action[r].end = "open" /\ action[r].at = "asked"
    BY <1>0, <1>2 DEF Admit, Sane
  <2>2. new \in Action /\ Sane(new) /\ new.at = "running"
    BY <1>0, <2>1 DEF Action, Sane
  <2>3. action' = [action EXCEPT ![r] = new] /\ mutex = {} /\ mutex' = {r}
    BY <1>2 DEF Admit
  <2> QED BY <2>2, <2>3 DEF StreamInv
<1>3. ASSUME NEW r \in Requests, Refuse(r) PROVE StreamInv'
  BY <1>3, NoActionSane, OneAction DEF Refuse, NoAction
<1>4. ASSUME NEW r \in Requests, StartSub(r) PROVE StreamInv'
  <2> DEFINE new == [action[r] EXCEPT !.sub = "alive"]
  <2>1. new \in Action /\ Sane(new) /\ new.at = action[r].at
    BY <1>0, <1>4 DEF StartSub, Action, Sane
  <2>2. action' = [action EXCEPT ![r] = new] /\ mutex' = mutex
    BY <1>4 DEF StartSub
  <2> QED BY <2>1, <2>2, OneAction
<1>5. ASSUME NEW r \in Requests, SubEnds(r) PROVE StreamInv'
  <2> DEFINE new == [action[r] EXCEPT !.sub = "ended"]
  <2>1. new \in Action /\ Sane(new) /\ new.at = action[r].at
    BY <1>0, <1>5 DEF SubEnds, Action, Sane
  <2>2. action' = [action EXCEPT ![r] = new] /\ mutex' = mutex
    BY <1>5 DEF SubEnds
  <2> QED BY <2>1, <2>2, OneAction
<1>6. ASSUME NEW r \in Requests, ChildEnds(r) PROVE StreamInv'
  <2> DEFINE new == [action[r] EXCEPT !.child = "ended"]
  <2>1. new \in Action /\ Sane(new) /\ new.at = action[r].at
    BY <1>0, <1>6 DEF ChildEnds, Action, Sane
  <2>2. action' = [action EXCEPT ![r] = new] /\ mutex' = mutex
    BY <1>6 DEF ChildEnds
  <2> QED BY <2>1, <2>2, OneAction
<1>7. ASSUME NEW r \in Requests, NEW why \in {"left", "timeout"}, Done(r, why)
      PROVE  StreamInv'
  <2> DEFINE child == IF action[r].child = "alive" THEN "killed" ELSE action[r].child
             new == [action[r] EXCEPT !.end = why, !.child = child]
  <2>1. child \in {"none", "ended", "killed"}
    BY <1>0 DEF Action
  <2> HIDE DEF child
  <2>2. new \in Action /\ Sane(new) /\ new.at = action[r].at
    BY <1>0, <1>7, <2>1 DEF Done, Action, Sane
  <2>3. action' = [action EXCEPT ![r] = new] /\ mutex' = mutex
    BY <1>7 DEF Done, child
  <2> QED BY <2>2, <2>3, OneAction
<1>8. ASSUME NEW r \in Requests, Finish(r) PROVE StreamInv'
  <2> DEFINE new == [action[r] EXCEPT !.at = "over"]
  <2>1. new \in Action /\ Sane(new) /\ new.at = "over"
    BY <1>0, <1>8 DEF Finish, Returned, Action, Sane
  <2>2. action' = [action EXCEPT ![r] = new] /\ mutex' = mutex \ {r}
    BY <1>8 DEF Finish
  <2> QED BY <2>1, <2>2 DEF StreamInv
<1>9. ASSUME NEW r \in Requests, Forget(r) PROVE StreamInv'
  BY <1>9, NoActionSane, OneAction DEF Forget, NoAction
<1>10. CASE UNCHANGED streamVars
  BY <1>10 DEF streamVars, StreamInv
<1> QED
  BY <1>1, <1>2, <1>3, <1>4, <1>5, <1>6, <1>7, <1>8, <1>9, <1>10
     DEF StreamNext, Leave, Timeout

\* Two actions are alive at once only if one of them was cut off, for any number
\* of requests.
THEOREM OverlapOnlyCutOff == StreamSpec => []OverlapsCutOff
<1>1. StreamInit => StreamInv
  BY NoActionSane DEF StreamInit, StreamInv, NoAction
<1>2. StreamInv => OverlapsCutOff
  BY DEF StreamInv, Sane, Action, OverlapsCutOff, Lives
<1> QED BY <1>1, <1>2, StreamStep, PTL DEF StreamSpec
----------------------------------------------------------------------------
(* Guard *)

Rating == [rating : Ratings, age : 0 .. 3]
Scan == [at : {"idle", "scan", "fill"}, todo : SUBSET IPs, banned : SUBSET IPs,
         cache : [IPs -> Rating]]
GuardTypeOK ==
    /\ manual \subseteq IPs /\ abuse \in [IPs -> Rating]
    /\ scan \in [Jobs -> Scan] /\ lastBad \in [IPs -> 0 .. 3]

\* No rating against an address, in no copy of the cache, looks younger than
\* AbuseIPDB's last answer against it is.
Honest(cache, bad) == \A i \in IPs : cache[i].rating = "bad" => bad[i] <= cache[i].age
GuardInv ==
    GuardTypeOK /\ Honest(abuse, lastBad) /\ \A j \in Jobs : Honest(scan[j].cache, lastBad)

LEMMA NoAbuseType == NoAbuse \in [IPs -> Rating] /\ Honest(NoAbuse, lastBad)
BY DEF NoAbuse, NoRating, Rating, Ratings, Never, Honest

LEMMA NoScanType == NoScan \in Scan
BY NoAbuseType DEF NoScan, Scan

LEMMA AgedHonest ==
    ASSUME NEW c \in [IPs -> Rating], lastBad \in [IPs -> 0 .. 3], Honest(c, lastBad),
           lastBad' = [i \in IPs |-> Older(lastBad[i])]
    PROVE  Aged(c) \in [IPs -> Rating] /\ Honest(Aged(c), lastBad')
<1>1. ASSUME NEW i \in IPs
      PROVE  /\ Aged(c)[i] \in Rating
             /\ Aged(c)[i].rating = "bad" => Older(lastBad[i]) <= Aged(c)[i].age
  <2>1. c[i] \in Rating /\ lastBad[i] \in 0 .. 3
    OBVIOUS
  <2>2. CASE c[i].age = Never
    BY <2>1, <2>2, NoAbuseType DEF Aged, NoRating, NoAbuse, Rating, Ratings, Never
  <2>3. CASE c[i].age # Never
    <3>1. Aged(c)[i] = [c[i] EXCEPT !.age = Older(@)]
      BY <2>3 DEF Aged
    <3>2. Older(c[i].age) \in 0 .. 3
      BY <2>1, <2>3 DEF Older, Expired, Never, Rating
    <3>3. c[i].rating = "bad" => Older(lastBad[i]) <= Older(c[i].age)
      BY <2>1, <2>3 DEF Honest, Older, Expired, Never, Rating
    <3> QED BY <2>1, <3>1, <3>2, <3>3 DEF Rating
  <2> QED BY <2>2, <2>3
<1>2. Aged(c) \in [IPs -> Rating]
  BY <1>1 DEF Aged
<1> QED BY <1>1, <1>2 DEF Honest

\* A step of one job that asks nobody.
LEMMA OneJob ==
    ASSUME GuardInv, NEW j \in Jobs, NEW new \in Scan, Honest(new.cache, lastBad),
           scan' = [scan EXCEPT ![j] = new], lastBad' = lastBad,
           abuse' \in [IPs -> Rating], Honest(abuse', lastBad'), manual' \subseteq IPs
    PROVE  GuardInv'
<1>1. GuardTypeOK'
  BY DEF GuardInv, GuardTypeOK
<1>2. ASSUME NEW k \in Jobs PROVE Honest(scan'[k].cache, lastBad')
  <2>1. scan'[k] = IF k = j THEN new ELSE scan[k]
    BY DEF GuardInv, GuardTypeOK
  <2> QED BY <2>1 DEF GuardInv, Honest
<1> QED BY <1>1, <1>2 DEF GuardInv

LEMMA GuardStep == GuardInv /\ [GuardNext]_guardVars => GuardInv'
<1> SUFFICES ASSUME GuardInv, [GuardNext]_guardVars PROVE GuardInv'
  OBVIOUS
<1> USE DEF ScanAt
<1>0. /\ manual \subseteq IPs /\ abuse \in [IPs -> Rating] /\ Honest(abuse, lastBad)
      /\ \A j \in Jobs : scan[j] \in Scan /\ Honest(scan[j].cache, lastBad)
  BY DEF GuardInv, GuardTypeOK
<1>a. lastBad' = lastBad /\ abuse' = abuse
        => abuse' \in [IPs -> Rating] /\ Honest(abuse', lastBad')
  BY <1>0 DEF Honest
<1>1. ASSUME NEW j \in Jobs, BeginScan(j) PROVE GuardInv'
  <2>1. PICK seen \in SUBSET IPs, jails \in {{}, manual} :
           scan' = [scan EXCEPT ![j] = [NoScan EXCEPT !.at = "scan", !.todo = seen,
                                          !.banned = jails, !.cache = abuse]]
    BY <1>1 DEF BeginScan, BeginJob
  <2> DEFINE new == [NoScan EXCEPT !.at = "scan", !.todo = seen, !.banned = jails,
                                   !.cache = abuse]
  <2>2. new \in Scan /\ new.cache = abuse
    BY <1>0, NoScanType DEF Scan, NoScan
  <2> QED BY <1>0, <1>a, <1>1, <2>1, <2>2, OneJob DEF BeginScan
<1>2. ASSUME NEW j \in Jobs, PruneAbuse(j) PROVE GuardInv'
  <2> DEFINE kept == [i \in IPs |-> IF abuse[i].age = Expired THEN NoRating ELSE abuse[i]]
             new == [NoScan EXCEPT !.at = "scan", !.cache = kept]
  <2>1. kept \in [IPs -> Rating] /\ Honest(kept, lastBad)
    BY <1>0 DEF NoRating, Rating, Ratings, Never, Honest
  <2>2. scan' = [scan EXCEPT ![j] = new] /\ UNCHANGED <<manual, abuse, lastBad>>
    BY <1>2 DEF PruneAbuse, BeginJob
  <2> HIDE DEF kept
  <2>3. new \in Scan /\ new.cache = kept
    BY <2>1, NoScanType DEF Scan, NoScan
  <2> QED BY <1>0, <1>a, <2>1, <2>2, <2>3, OneJob
<1>3. ASSUME NEW j \in Jobs, NEW i \in IPs,
             ScanSkip(j, i) \/ ScanCached(j, i) \/ ScanError(j, i)
      PROVE  GuardInv'
  <2> DEFINE new == [scan[j] EXCEPT !.todo = @ \ {i}]
  <2>1. new \in Scan /\ new.cache = scan[j].cache
    BY <1>0 DEF Scan
  <2>2. scan' = [scan EXCEPT ![j] = new] /\ UNCHANGED <<abuse, lastBad>>
    BY <1>3 DEF ScanSkip, ScanCached, ScanError
  <2>3. manual' \in {manual, manual \cup {i}}
    BY <1>3 DEF ScanSkip, ScanCached, ScanError, Ban
  <2> QED BY <1>0, <1>a, <2>1, <2>2, <2>3, OneJob
<1>4. ASSUME NEW j \in Jobs, NEW i \in IPs, ScanAsk(j, i) PROVE GuardInv'
  <2>1. PICK r \in Ratings :
          /\ scan' = [scan EXCEPT ![j].todo = @ \ {i},
                                  ![j].cache[i] = [rating |-> r, age |-> Fresh]]
          /\ lastBad' = [lastBad EXCEPT ![i] = IF r = "bad" THEN Fresh ELSE @]
          /\ manual' \in {manual, manual \cup {i}}
    BY <1>4 DEF ScanAsk, Ban
  <2> DEFINE copy == [scan[j].cache EXCEPT ![i] = [rating |-> r, age |-> Fresh]]
             new == [scan[j] EXCEPT !.todo = @ \ {i}, !.cache = copy]
  <2>2. abuse' = abuse
    BY <1>4 DEF ScanAsk
  <2>3. lastBad' \in [IPs -> 0 .. 3] /\ \A k \in IPs : lastBad'[k] <= lastBad[k]
    BY <2>1 DEF GuardInv, GuardTypeOK, Fresh
  <2>4. \A c \in [IPs -> Rating] : Honest(c, lastBad) => Honest(c, lastBad')
    <3> SUFFICES ASSUME NEW c \in [IPs -> Rating], Honest(c, lastBad), NEW k \in IPs,
                        c[k].rating = "bad"
                 PROVE  lastBad'[k] <= c[k].age
      BY DEF Honest
    <3>1. lastBad[k] <= c[k].age
      BY DEF Honest
    <3>2. c[k].age \in 0 .. 3
      BY DEF Rating
    <3>3. lastBad[k] \in 0 .. 3 /\ lastBad'[k] \in 0 .. 3
      BY <2>3 DEF GuardInv, GuardTypeOK
    <3> QED BY <2>3, <3>1, <3>2, <3>3
  <2>5. copy \in [IPs -> Rating]
    BY <1>0 DEF Scan, Rating, Fresh
  <2>6. Honest(copy, lastBad')
    <3>1. Honest(scan[j].cache, lastBad') /\ scan[j].cache \in [IPs -> Rating]
      BY <1>0, <2>4 DEF Scan
    <3>2. r = "bad" => lastBad'[i] = Fresh
      BY <2>1 DEF GuardInv, GuardTypeOK
    <3> QED BY <3>1, <3>2 DEF Honest, Fresh
  <2>7. scan' = [scan EXCEPT ![j] = new]
    BY <2>1, <1>0 DEF Scan, GuardInv, GuardTypeOK
  <2> HIDE DEF copy
  <2>8. new \in Scan /\ new.cache = copy
    BY <1>0, <2>5 DEF Scan
  <2>9. GuardTypeOK'
    <3>1. manual' \subseteq IPs
      BY <1>0, <2>1
    <3>2. scan' \in [Jobs -> Scan]
      BY <2>7, <2>8 DEF GuardInv, GuardTypeOK
    <3> QED BY <1>0, <2>2, <2>3, <3>1, <3>2 DEF GuardTypeOK
  <2>10. ASSUME NEW k \in Jobs PROVE Honest(scan'[k].cache, lastBad')
    <3>1. scan'[k] = IF k = j THEN new ELSE scan[k]
      BY <2>7 DEF GuardInv, GuardTypeOK
    <3>2. scan[k].cache \in [IPs -> Rating] /\ Honest(scan[k].cache, lastBad)
      BY <1>0 DEF Scan
    <3> QED BY <2>4, <2>6, <2>8, <3>1, <3>2 DEF Honest
  <2> QED BY <1>0, <2>2, <2>4, <2>9, <2>10 DEF GuardInv, Honest
<1>5. ASSUME NEW j \in Jobs, ScanDone(j) PROVE GuardInv'
  <2> DEFINE new == [scan[j] EXCEPT !.at = "fill"]
  <2>1. new \in Scan /\ new.cache = scan[j].cache
    BY <1>0 DEF Scan
  <2>2. /\ scan' = [scan EXCEPT ![j] = new] /\ abuse' = NoAbuse
        /\ UNCHANGED <<manual, lastBad>>
    BY <1>5 DEF ScanDone
  <2>3. Honest(abuse', lastBad')
    BY <2>2, NoAbuseType DEF Honest
  <2> QED BY <1>0, <2>1, <2>2, <2>3, NoAbuseType, OneJob
<1>6. ASSUME NEW j \in Jobs, FillAbuse(j) PROVE GuardInv'
  <2>1. scan[j].cache \in [IPs -> Rating]
    BY <1>0 DEF Scan
  <2>2. /\ scan' = [scan EXCEPT ![j] = NoScan] /\ abuse' = scan[j].cache
        /\ UNCHANGED <<manual, lastBad>>
    BY <1>6 DEF FillAbuse
  <2>3. Honest(abuse', lastBad')
    BY <1>0, <2>2 DEF Honest
  <2>4. Honest(NoScan.cache, lastBad)
    BY NoAbuseType DEF NoScan
  <2> QED BY <1>0, <2>1, <2>2, <2>3, <2>4, NoScanType, OneJob
<1>7. ASSUME NEW j \in Jobs, KillJob(j) PROVE GuardInv'
  <2>1. Honest(NoScan.cache, lastBad)
    BY NoAbuseType DEF NoScan
  <2> QED BY <1>0, <1>a, <1>7, <2>1, NoScanType, OneJob DEF KillJob
<1>8. ASSUME NEW i \in IPs, BanByHand(i) PROVE GuardInv'
  BY <1>0, <1>8 DEF BanByHand, GuardInv, GuardTypeOK, Honest
<1>9. CASE AgePassed
  <2>1. /\ abuse' = Aged(abuse) /\ lastBad' = [i \in IPs |-> Older(lastBad[i])]
        /\ scan' = [j \in Jobs |-> [scan[j] EXCEPT !.cache = Aged(@)]] /\ manual' = manual
    BY <1>9 DEF AgePassed
  <2>2. lastBad \in [IPs -> 0 .. 3]
    BY DEF GuardInv, GuardTypeOK
  <2>3. lastBad' \in [IPs -> 0 .. 3]
    BY <2>1, <2>2 DEF Older, Expired
  <2>4. Aged(abuse) \in [IPs -> Rating] /\ Honest(Aged(abuse), lastBad')
    BY <1>0, <2>1, <2>2, AgedHonest
  <2>5. \A j \in Jobs : /\ Aged(scan[j].cache) \in [IPs -> Rating]
                        /\ Honest(Aged(scan[j].cache), lastBad')
    BY <1>0, <2>1, <2>2, AgedHonest DEF Scan
  <2>6. \A j \in Jobs : [scan[j] EXCEPT !.cache = Aged(@)] \in Scan
    BY <1>0, <2>5 DEF Scan
  <2>7. GuardTypeOK'
    BY <1>0, <2>1, <2>3, <2>4, <2>6 DEF GuardTypeOK
  <2>8. ASSUME NEW j \in Jobs PROVE Honest(scan'[j].cache, lastBad')
    <3>1. scan'[j].cache = Aged(scan[j].cache)
      BY <1>0, <2>1 DEF Scan
    <3> QED BY <2>5, <3>1 DEF Honest
  <2>9. Honest(abuse', lastBad')
    BY <2>1, <2>4 DEF Honest
  <2> QED BY <2>7, <2>8, <2>9 DEF GuardInv
<1>10. CASE UNCHANGED guardVars
  BY <1>10 DEF guardVars, GuardInv, GuardTypeOK, Honest
<1> QED BY <1>1, <1>2, <1>3, <1>4, <1>5, <1>6, <1>7, <1>8, <1>9, <1>10 DEF GuardNext

\* A scan bans an address only when AbuseIPDB has called it bad within the last day
\* and never a private one, for any number of scans and prunes, killed at any point.
THEOREM BansFounded == GuardSpec => BansAreFounded
<1>1. GuardInit => GuardInv
  BY NoAbuseType, NoScanType DEF GuardInit, GuardInv, GuardTypeOK, NoScan, Never, Honest
<1>2. ASSUME GuardInv, [GuardNext]_guardVars, NEW i \in IPs, NEW j \in Jobs,
             ScanAt(j, "scan"), i \in scan[j].todo \ scan'[j].todo, i \in manual' \ manual
      PROVE  lastBad'[i] = Fresh /\ i \notin Private
  <2>1. PICK k \in Jobs, h \in IPs : ScanCached(k, h) \/ ScanAsk(k, h)
    BY <1>2 DEF GuardNext, BeginScan, BeginJob, PruneAbuse, ScanDone, FillAbuse, KillJob,
                ScanSkip, ScanError, BanByHand, AgePassed, guardVars
  <2>2. i = h /\ ~Skipped(k, h)
    BY <1>2, <2>1 DEF ScanCached, ScanAsk, Ban
  <2>3. CASE ScanCached(k, h)
    <3>1. scan[k].cache[i].rating = "bad" /\ scan[k].cache[i].age = Fresh
      BY <1>2, <2>2, <2>3 DEF ScanCached, CachedRating
    <3>2. lastBad[i] <= 0 /\ lastBad[i] \in 0 .. 3
      BY <1>2, <3>1 DEF GuardInv, GuardTypeOK, Honest, Fresh
    <3> QED BY <2>2, <2>3, <3>2 DEF ScanCached, Skipped, Fresh
  <2>4. CASE ScanAsk(k, h)
    <3>1. lastBad'[i] = Fresh
      BY <1>2, <2>2, <2>4 DEF ScanAsk, GuardInv, GuardTypeOK
    <3> QED BY <2>2, <3>1 DEF Skipped
  <2> QED BY <2>1, <2>3, <2>4
<1>3. GuardInv /\ [GuardNext]_guardVars
        => [\A i \in IPs :
             (\E j \in Jobs : ScanAt(j, "scan") /\ i \in scan[j].todo \ scan'[j].todo)
                /\ i \in manual' \ manual
             => lastBad'[i] = Fresh /\ i \notin Private]_guardVars
  BY <1>2
<1> QED BY <1>1, <1>3, GuardStep, PTL DEF GuardSpec, BansAreFounded
=============================================================================
