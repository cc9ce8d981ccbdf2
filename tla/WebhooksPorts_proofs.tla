------------------------ MODULE WebhooksPorts_proofs ------------------------
(***************************************************************************)
(* Theorems about two services of the panel: the audit log and the rate    *)
(* limits of the webhooks (Webhooks), for any number of processes, threads *)
(* and hooks, killed anywhere; and the port that is suggested for a        *)
(* machine (Ports), for any number of askers while others edit sites.conf  *)
(* and machines.conf.                                                      *)
(***************************************************************************)
EXTENDS Webhooks, Ports, FiniteSetTheorems, TLAPS

\* A set of natural numbers that is not empty has a least element.
LEMMA Least ==
    ASSUME NEW S \in SUBSET Nat, S # {}
    PROVE  \E n \in S : \A m \in S : n <= m
<1> DEFINE R == OpToRel(<, Nat)
<1>1. IsWellFoundedOn(R, Nat)
  BY NatLessThanWellFounded
<1> HIDE DEF R
<1>2. PICK n \in S : \A m \in S : ~(<<m, n>> \in R)
  BY <1>1, WFMin
<1>3. ASSUME NEW m \in S PROVE ~(m < n)
  BY <1>2 DEF R, OpToRel
<1>4. QED
  BY <1>3

\* One with a bound has a greatest.
LEMMA Greatest ==
    ASSUME NEW S \in SUBSET Nat, S # {}, NEW b \in Nat, \A m \in S : m <= b
    PROVE  \E n \in S : \A m \in S : m <= n
<1> DEFINE T == {b - m : m \in S}
<1>1. T \in SUBSET Nat /\ T # {}
  <2>1. \A m \in S : m \in Nat /\ b - m \in Nat
    OBVIOUS
  <2>2. QED BY <2>1
<1> HIDE DEF T
<1>2. PICK d \in T : \A e \in T : d <= e
  BY <1>1, Least
<1>3. PICK n \in S : d = b - n
  BY <1>2 DEF T
<1>4. ASSUME NEW m \in S PROVE m <= n
  <2>1. b - m \in T
    BY DEF T
  <2>2. b - n <= b - m
    BY <1>2, <1>3, <2>1
  <2>3. QED BY <2>2
<1>5. QED BY <1>4

----------------------------------------------------------------------------
(* Webhooks *)

HookLabels == {"idle", "stat", "tail", "truncate", "fill", "load", "deliver", "waiting",
               "truncatehooks", "fillhooks"}
Firing == [at : HookLabels, text : Nat, todo : SUBSET Hooks, list : SUBSET Hooks]

\* The shape of the state; a compaction holds no more lines than tailLines reads,
\* and a thread that waits for an answer waits for one hook's.
HookTypeOK ==
    /\ log \in Nat /\ kills \in Nat /\ hooks \subseteq Hooks
    /\ backoff \in [Procs -> SUBSET Hooks]
    /\ refused \in [Procs -> [Hooks -> Nat]]
    /\ firing \in [Threads -> Firing]
    /\ \A t \in Threads : /\ firing[t].text <= TailLines
                          /\ HookAt(t, "waiting") => \E h \in Hooks : firing[t].list = {h}

\* A thread's record after a step of its compaction, and after an answer.
Compacted(x, l, n) == [x EXCEPT !.at = l, !.text = n]
Delivered(x, a) == [x EXCEPT !.at = "deliver", !.todo = a, !.list = {}]

\* A compacting thread stays well typed.
LEMMA CompactedFiring ==
    ASSUME NEW x \in Firing, NEW l \in HookLabels, NEW n \in Nat
    PROVE  /\ Compacted(x, l, n) \in Firing
           /\ Compacted(x, l, n).at = l /\ Compacted(x, l, n).text = n
<1>1. Compacted(x, l, n) \in Firing
  BY DEF Firing, Compacted
<1>2. Compacted(x, l, n).at = l
  BY DEF Firing, Compacted
<1>3. Compacted(x, l, n).text = n
  BY DEF Firing, Compacted
<1>4. QED BY <1>1, <1>2, <1>3

\* So does one that delivers an event.
LEMMA DeliveredFiring ==
    ASSUME NEW x \in Firing, NEW a \in SUBSET Hooks
    PROVE  /\ Delivered(x, a) \in Firing
           /\ Delivered(x, a).at = "deliver" /\ Delivered(x, a).text = x.text
           /\ Delivered(x, a).list = {}
<1>0. "deliver" \in HookLabels
  BY DEF HookLabels
<1>1. Delivered(x, a) \in Firing
  BY <1>0 DEF Firing, Delivered
<1>2. Delivered(x, a).at = "deliver"
  BY DEF Firing, Delivered
<1>3. Delivered(x, a).text = x.text
  BY DEF Firing, Delivered
<1>4. Delivered(x, a).list = {}
  BY DEF Firing, Delivered
<1>5. QED BY <1>1, <1>2, <1>3, <1>4

\* A step of a thread that leaves its firing well typed.
LEMMA FiringStep ==
    ASSUME HookTypeOK, NEW t \in Threads, NEW r \in Firing, firing' = [firing EXCEPT ![t] = r],
           r.text <= TailLines, r.at = "waiting" => \E h \in Hooks : r.list = {h}
    PROVE  /\ firing' \in [Threads -> Firing]
           /\ \A u \in Threads : /\ firing'[u].text <= TailLines
                                 /\ firing'[u].at = "waiting" =>
                                        \E h \in Hooks : firing'[u].list = {h}
BY DEF HookTypeOK, HookAt

\* What a step of thread t makes of its record.
LEMMA FiringOf ==
    ASSUME HookTypeOK, NEW t \in Threads
    PROVE  /\ firing[t] \in Firing /\ firing[t].text <= TailLines
           /\ Unfired \in Firing
           /\ \A l \in HookLabels : [firing[t] EXCEPT !.at = l] \in Firing
           /\ HookAt(t, "waiting") => /\ Called(t) \in Hooks /\ firing[t].list = {Called(t)}
<1>1. ASSUME NEW h \in Hooks, firing[t].list = {h}
      PROVE  Called(t) = h
  BY <1>1 DEF Called
<1>2. QED
  BY <1>1 DEF HookTypeOK, Firing, HookLabels, Unfired

\* Every step keeps the types.
LEMMA HookTypeKept ==
    ASSUME HookTypeOK, [HookNext]_hookVars
    PROVE  HookTypeOK'
<1> USE WebhooksAssumption
<1>1. CASE UNCHANGED hookVars
  BY <1>1 DEF hookVars, HookTypeOK, HookAt
<1>2. ASSUME NEW t \in Threads, Fire(t) \/ Stat(t) \/ TruncateLog(t) \/ TruncateHooks(t)
      PROVE  HookTypeOK'
  <2>1. PICK l \in HookLabels \ {"waiting"} : firing' = [firing EXCEPT ![t].at = l]
    BY <1>2 DEF Fire, Stat, TruncateLog, TruncateHooks, HookGoto, HookLabels
  <2> DEFINE r == [firing[t] EXCEPT !.at = l]
  <2>2. r \in Firing /\ r.text <= TailLines /\ r.at = l
    BY FiringOf DEF Firing
  <2>3. firing' = [firing EXCEPT ![t] = r]
    BY <2>1
  <2> HIDE DEF r
  <2>4. /\ firing' \in [Threads -> Firing]
        /\ \A u \in Threads : /\ firing'[u].text <= TailLines
                              /\ firing'[u].at = "waiting" => \E h \in Hooks : firing'[u].list = {h}
    BY <2>1, <2>2, <2>3, FiringStep
  <2>5. log' \in Nat /\ hooks' \subseteq Hooks /\ UNCHANGED <<kills, backoff, refused>>
    BY <1>2 DEF Fire, Stat, TruncateLog, TruncateHooks, HookTypeOK
  <2>6. QED BY <2>4, <2>5 DEF HookTypeOK, HookAt
<1>3. ASSUME NEW t \in Threads, ReadTail(t) \/ FillLog(t) \/ LoadHooks(t) \/ Deliver(t)
      PROVE  HookTypeOK'
  <2>1. firing[t] \in Firing /\ firing[t].text <= TailLines
    BY FiringOf
  <2>2. \E r \in Firing : /\ firing' = [firing EXCEPT ![t] = r] /\ r.text <= TailLines
                          /\ r.at = "waiting" => \E h \in Hooks : r.list = {h}
    <3>0. "truncate" \in HookLabels /\ "load" \in HookLabels
      BY DEF HookLabels
    <3>1. CASE ReadTail(t)
      <4> DEFINE n == IF log < TailLines THEN log ELSE TailLines
                 r == Compacted(firing[t], "truncate", n)
      <4>1. n \in Nat /\ n <= TailLines
        BY DEF HookTypeOK
      <4>2. firing' = [firing EXCEPT ![t] = r]
        BY <3>1 DEF ReadTail, Compacted
      <4> HIDE DEF n
      <4>3. r \in Firing /\ r.at = "truncate" /\ r.text = n
        BY <2>1, <3>0, <4>1, CompactedFiring
      <4> HIDE DEF r
      <4>4. QED BY <4>1, <4>2, <4>3
    <3>2. CASE FillLog(t)
      <4> DEFINE r == Compacted(firing[t], "load", 0)
      <4>1. firing' = [firing EXCEPT ![t] = r]
        BY <3>2 DEF FillLog, Compacted
      <4>2. r \in Firing /\ r.at = "load" /\ r.text = 0
        BY <2>1, <3>0, CompactedFiring
      <4>3. 0 <= TailLines
        OBVIOUS
      <4> HIDE DEF r
      <4>4. QED BY <4>1, <4>2, <4>3
    <3>3. CASE LoadHooks(t)
      <4>1. PICK wanting \in SUBSET hooks :
              firing' = [firing EXCEPT ![t].at = "deliver", ![t].todo = wanting]
        BY <3>3 DEF LoadHooks
      <4> DEFINE r == [firing[t] EXCEPT !.at = "deliver", !.todo = wanting]
      <4>2. r \in Firing /\ r.text <= TailLines /\ r.at = "deliver"
        BY <2>1 DEF Firing, HookLabels, HookTypeOK
      <4>3. firing' = [firing EXCEPT ![t] = r]
        BY <4>1
      <4> HIDE DEF r
      <4>4. QED BY <4>2, <4>3
    <3>4. CASE Deliver(t)
      <4>1. PICK h \in firing[t].todo :
              \/ firing' = [firing EXCEPT ![t].todo = @ \ {h}]
              \/ firing' = [firing EXCEPT ![t].at = "waiting", ![t].list = {h}]
        BY <3>4 DEF Deliver
      <4>2. h \in Hooks /\ firing[t].at = "deliver"
        BY <2>1, <3>4 DEF Firing, Deliver, HookAt
      <4>3. CASE firing' = [firing EXCEPT ![t].todo = @ \ {h}]
        <5> DEFINE r == [firing[t] EXCEPT !.todo = @ \ {h}]
        <5>1. r \in Firing /\ r.text <= TailLines /\ r.at = "deliver"
          BY <2>1, <4>2 DEF Firing
        <5>2. firing' = [firing EXCEPT ![t] = r]
          BY <4>3
        <5> HIDE DEF r
        <5>3. QED BY <5>1, <5>2
      <4>4. CASE firing' = [firing EXCEPT ![t].at = "waiting", ![t].list = {h}]
        <5> DEFINE r == [firing[t] EXCEPT !.at = "waiting", !.list = {h}]
        <5>1. r \in Firing /\ r.text <= TailLines /\ r.list = {h}
          BY <2>1, <4>2 DEF Firing, HookLabels
        <5>2. firing' = [firing EXCEPT ![t] = r]
          BY <4>4
        <5> HIDE DEF r
        <5>3. QED BY <4>2, <5>1, <5>2
      <4>5. QED BY <4>1, <4>3, <4>4
    <3>5. QED BY <1>3, <3>1, <3>2, <3>3, <3>4
  <2>3. log' \in Nat /\ UNCHANGED <<hooks, kills, backoff, refused>>
    BY <1>3, <2>1 DEF ReadTail, FillLog, LoadHooks, Deliver, HookTypeOK, Firing
  <2>4. QED BY <2>2, <2>3, FiringStep DEF HookTypeOK, HookAt
<1>4. ASSUME NEW t \in Threads, Answered(t) \/ RateLimited(t)
      PROVE  HookTypeOK'
  <2> DEFINE r == Delivered(firing[t], firing[t].todo \ firing[t].list)
  <2>1. r \in Firing /\ r.text <= TailLines /\ r.at = "deliver"
    <3>1. firing[t] \in Firing /\ firing[t].text <= TailLines
      BY FiringOf
    <3>2. firing[t].todo \ firing[t].list \subseteq Hooks
      BY <3>1 DEF Firing
    <3>3. QED BY <3>1, <3>2, DeliveredFiring
  <2>2. firing' = [firing EXCEPT ![t] = r]
    BY <1>4 DEF Answered, RateLimited, Moved, Delivered
  <2> HIDE DEF r
  <2>3. backoff' \in [Procs -> SUBSET Hooks] /\ refused' \in [Procs -> [Hooks -> Nat]]
    <3>1. CASE Answered(t)
      BY <3>1 DEF Answered, HookTypeOK
    <3>2. CASE RateLimited(t)
      <4>1. Called(t) \in Hooks /\ ProcOf[t] \in Procs
        BY <3>2, FiringOf DEF RateLimited
      <4>2. QED BY <3>2, <4>1 DEF RateLimited, HookTypeOK
    <3>3. QED BY <1>4, <3>1, <3>2
  <2>4. UNCHANGED <<log, hooks, kills>>
    BY <1>4 DEF Answered, RateLimited
  <2>5. QED BY <2>1, <2>2, <2>3, <2>4, FiringStep DEF HookTypeOK, HookAt
<1>5. ASSUME NEW t \in Threads, FireDone(t) \/ FillHooks(t) \/ BeginEdit(t)
      PROVE  HookTypeOK'
  <2>1. \E r \in Firing : /\ firing' = [firing EXCEPT ![t] = r] /\ r.text <= TailLines
                          /\ r.at # "waiting"
    <3>1. CASE FireDone(t) \/ FillHooks(t)
      <4>1. Unfired \in Firing /\ Unfired.text <= TailLines /\ Unfired.at # "waiting"
        BY DEF Unfired, Firing, HookLabels
      <4>2. firing' = [firing EXCEPT ![t] = Unfired]
        BY <3>1 DEF FireDone, FillHooks
      <4> HIDE DEF Unfired
      <4>3. QED BY <4>1, <4>2
    <3>2. CASE BeginEdit(t)
      <4>1. PICK list \in SUBSET Hooks :
              firing' = [firing EXCEPT ![t] = [Unfired EXCEPT !.at = "truncatehooks", !.list = list]]
        BY <3>2 DEF BeginEdit, HookTypeOK
      <4> DEFINE r == [Unfired EXCEPT !.at = "truncatehooks", !.list = list]
      <4>2. r \in Firing /\ r.text <= TailLines /\ r.at = "truncatehooks"
        <5>1. Unfired \in Firing /\ "truncatehooks" \in HookLabels
          BY DEF Firing, HookLabels, Unfired
        <5>2. r \in Firing
          BY <5>1 DEF Firing, HookLabels
        <5>3. r.text = 0 /\ r.at = "truncatehooks"
          BY DEF Unfired
        <5>4. QED BY <5>2, <5>3, WebhooksAssumption
      <4> HIDE DEF r
      <4>3. firing' = [firing EXCEPT ![t] = r]
        BY <4>1 DEF r
      <4>4. QED BY <4>2, <4>3
    <3>3. QED BY <1>5, <3>1, <3>2
  <2>2. hooks' \subseteq Hooks /\ UNCHANGED <<log, kills, backoff, refused>>
    BY <1>5, FiringOf DEF FireDone, FillHooks, BeginEdit, HookTypeOK, Firing
  <2>3. QED BY <2>1, <2>2, FiringStep DEF HookTypeOK, HookAt
<1>6. ASSUME NEW p \in Procs, NEW h \in Hooks, BackoffOver(p, h)
      PROVE  HookTypeOK'
  BY <1>6 DEF BackoffOver, HookTypeOK, HookAt
<1>7. ASSUME NEW p \in Procs, KillProc(p)
      PROVE  HookTypeOK'
  <2>1. Unfired \in Firing /\ Unfired.text = 0 /\ Unfired.at = "idle"
    BY DEF Unfired, Firing, HookLabels
  <2> HIDE DEF Unfired
  <2>2. QED BY <1>7, <2>1 DEF KillProc, HookTypeOK, HookAt
<1>8. QED
  BY <1>1, <1>2, <1>3, <1>4, <1>5, <1>6, <1>7 DEF HookNext

\* The types hold at first.
LEMMA HookTypeStarts ==
    ASSUME HookInit
    PROVE  HookTypeOK
BY WebhooksAssumption DEF HookInit, HookTypeOK, HookAt, Unfired, Firing, HookLabels

\* The threads of a process, and those between an append and a truncation.
ThreadsOf(p) == {t \in Threads : ProcOf[t] = p}
Compacting == {t \in Threads : firing[t].at \in {"stat", "tail", "truncate"}}

\* Some process has as many threads as any.
LEMMA LargestProcess ==
    ASSUME IsFiniteSet(Threads), Procs # {}
    PROVE  \E p \in Procs : \A q \in Procs : Cardinality(ThreadsOf(q)) <= Cardinality(ThreadsOf(p))
<1> DEFINE sizes == {Cardinality(ThreadsOf(p)) : p \in Procs}
<1>1. ASSUME NEW p \in Procs
      PROVE  Cardinality(ThreadsOf(p)) \in Nat /\ Cardinality(ThreadsOf(p)) <= Cardinality(Threads)
  <2>1. ThreadsOf(p) \in SUBSET Threads
    BY DEF ThreadsOf
  <2>2. QED BY <2>1, FS_Subset, FS_CardinalityType
<1>2. sizes \in SUBSET Nat /\ sizes # {} /\ \A m \in sizes : m <= Cardinality(Threads)
  BY <1>1
<1>3. \A p \in Procs : Cardinality(ThreadsOf(p)) \in sizes
  OBVIOUS
<1>4. \A m \in sizes : \E p \in Procs : m = Cardinality(ThreadsOf(p))
  OBVIOUS
<1> HIDE DEF sizes
<1>5. Cardinality(Threads) \in Nat
  BY FS_CardinalityType
<1>6. PICK n \in sizes : \A m \in sizes : m <= n
  BY <1>2, <1>5, Greatest
<1>7. QED BY <1>3, <1>4, <1>6

\* The bound of the log that its steps keep: a line for each thread that has
\* appended one and not truncated since, and m for each process killed.
AuditInv(m) == log <= LogLimit + Cardinality(Compacting) + kills * m

\* Every step keeps the bound on the log.
LEMMA AuditKept ==
    ASSUME IsFiniteSet(Threads), NEW m \in Nat,
           \A p \in Procs : Cardinality(ThreadsOf(p)) <= m,
           HookTypeOK, AuditInv(m), [HookNext]_hookVars
    PROVE  AuditInv(m)'
<1> USE WebhooksAssumption
<1> DEFINE c == Cardinality(Compacting)
<1>1. /\ IsFiniteSet(Compacting) /\ IsFiniteSet(Compacting')
      /\ c \in Nat /\ c' \in Nat
  <2>1. Compacting \in SUBSET Threads /\ Compacting' \in SUBSET Threads
    BY DEF Compacting
  <2>2. QED BY <2>1, FS_Subset, FS_CardinalityType
<1>2. log \in Nat /\ kills \in Nat /\ kills * m \in Nat
  BY DEF HookTypeOK
<1>3. \A t \in Threads : firing[t].at \in HookLabels
  BY DEF HookTypeOK, Firing
<1>4. ASSUME NEW t \in Threads, NEW l \in HookLabels,
             \/ firing' = [firing EXCEPT ![t].at = l]
             \/ \E r \in Firing : r.at = l /\ firing' = [firing EXCEPT ![t] = r]
      PROVE  /\ l \in {"stat", "tail", "truncate"} => Compacting' = Compacting \cup {t}
             /\ l \notin {"stat", "tail", "truncate"} => Compacting' = Compacting \ {t}
  <2>1. firing'[t].at = l /\ \A u \in Threads \ {t} : firing'[u] = firing[u]
    BY <1>4 DEF HookTypeOK, Firing
  <2>2. QED BY <2>1 DEF Compacting
<1>5. ASSUME NEW t \in Threads
      PROVE  /\ Compacting' = Compacting \cup {t} => c' = IF t \in Compacting THEN c ELSE c + 1
             /\ Compacting' = Compacting \ {t} => c' = IF t \in Compacting THEN c - 1 ELSE c
  BY <1>1, FS_AddElement, FS_RemoveElement
<1>6. \A t \in Threads : t \in Compacting <=> firing[t].at \in {"stat", "tail", "truncate"}
  BY DEF Compacting
<1>7. AuditInv(m) <=> log <= LogLimit + c + kills * m
  BY DEF AuditInv
<1>8. AuditInv(m)' <=> log' <= LogLimit + c' + kills' * m
  BY DEF AuditInv
<1>9. ASSUME UNCHANGED <<log, kills>>, c' = c PROVE AuditInv(m)'
  BY <1>7, <1>8, <1>9
<1>10. CASE UNCHANGED hookVars
  BY <1>10, <1>9 DEF hookVars, Compacting
<1> HIDE DEF c
\* a line more for a thread more
<1>11. ASSUME NEW t \in Threads, Fire(t) PROVE AuditInv(m)'
  <2>1. CASE log' = log + 1 /\ HookGoto(t, "stat")
    <3>1. Compacting' = Compacting \cup {t}
      BY <1>4, <2>1 DEF HookGoto, HookLabels
    <3>2. c' = c + 1
      BY <1>5, <1>6, <1>11, <3>1 DEF Fire, HookAt
    <3>3. QED BY <1>1, <1>2, <1>7, <1>8, <1>11, <2>1, <3>2 DEF Fire
  <2>2. CASE UNCHANGED log /\ HookGoto(t, "load")
    <3>1. Compacting' = Compacting \ {t}
      BY <1>4, <2>2 DEF HookGoto, HookLabels
    <3>2. c' = c
      BY <1>5, <1>6, <1>11, <3>1 DEF Fire, HookAt
    <3>3. QED BY <1>9, <1>11, <2>2, <3>2 DEF Fire
  <2>3. QED BY <1>11, <2>1, <2>2 DEF Fire
\* a thread stops compacting only if the log is within its limit
<1>12. ASSUME NEW t \in Threads, Stat(t) PROVE AuditInv(m)'
  <2>1. CASE log > LogLimit
    <3>1. Compacting' = Compacting \cup {t}
      BY <1>4, <1>12, <2>1 DEF Stat, HookGoto, HookLabels
    <3>2. c' = c
      BY <1>5, <1>6, <1>12, <3>1 DEF Stat, HookAt
    <3>3. QED BY <1>9, <1>12, <3>2 DEF Stat
  <2>2. CASE ~(log > LogLimit)
    <3>1. log' = log /\ kills' * m = kills * m
      BY <1>12 DEF Stat
    <3>2. QED BY <1>1, <1>2, <1>8, <2>2, <3>1
  <2>3. QED BY <2>1, <2>2
<1>13. ASSUME NEW t \in Threads, ReadTail(t) PROVE AuditInv(m)'
  <2>1. firing'[t].at = "truncate" /\ \A u \in Threads \ {t} : firing'[u] = firing[u]
    BY <1>13 DEF ReadTail, HookTypeOK, Firing
  <2>2. Compacting' = Compacting
    BY <1>13, <2>1 DEF ReadTail, HookAt, Compacting
  <2>3. c' = c
    BY <2>2 DEF c
  <2>4. QED BY <1>9, <1>13, <2>3 DEF ReadTail
<1>14. ASSUME NEW t \in Threads, TruncateLog(t) PROVE AuditInv(m)'
  <2>1. log' = 0 /\ kills' * m = kills * m
    BY <1>14 DEF TruncateLog
  <2>2. QED BY <1>1, <1>2, <1>8, <2>1
\* what is written back was within the limit
<1>15. ASSUME NEW t \in Threads, FillLog(t) PROVE AuditInv(m)'
  <2>1. firing'[t].at = "load" /\ \A u \in Threads \ {t} : firing'[u] = firing[u]
    BY <1>15 DEF FillLog, HookTypeOK, Firing
  <2>2. Compacting' = Compacting
    BY <1>15, <2>1 DEF FillLog, HookAt, Compacting
  <2>3. c' = c
    BY <2>2 DEF c
  <2>4. log' = log \/ log' = firing[t].text
    BY <1>15 DEF FillLog
  <2>5. firing[t].text \in Nat /\ firing[t].text <= LogLimit
    BY DEF HookTypeOK, Firing
  <2>6. QED BY <1>1, <1>2, <1>7, <1>8, <1>15, <2>3, <2>4, <2>5 DEF FillLog
<1>16. ASSUME NEW t \in Threads,
              \/ LoadHooks(t) \/ Deliver(t) \/ Answered(t) \/ RateLimited(t) \/ FireDone(t)
              \/ BeginEdit(t) \/ TruncateHooks(t) \/ FillHooks(t)
       PROVE  AuditInv(m)'
  <2>1. /\ \A u \in Threads \ {t} : firing'[u] = firing[u]
        /\ UNCHANGED <<log, kills>>
    BY <1>16 DEF LoadHooks, Deliver, Answered, RateLimited, FireDone, BeginEdit, TruncateHooks,
                FillHooks, Moved, HookGoto, HookTypeOK
  <2>2. t \notin Compacting
    BY <1>16 DEF LoadHooks, Deliver, Answered, RateLimited, FireDone, BeginEdit, TruncateHooks,
                FillHooks, HookAt, Compacting
  <2>3. t \notin Compacting'
    <3> USE DEF HookTypeOK, Firing, Compacting, Unfired
    <3>1. CASE LoadHooks(t)
      BY <3>1 DEF LoadHooks
    <3>2. CASE Deliver(t)
      BY <3>2 DEF Deliver, HookAt
    <3>3. CASE Answered(t) \/ RateLimited(t)
      BY <3>3 DEF Answered, RateLimited, Moved
    <3>4. CASE FireDone(t) \/ FillHooks(t)
      BY <3>4 DEF FireDone, FillHooks
    <3>5. CASE BeginEdit(t)
      BY <3>5 DEF BeginEdit
    <3>6. CASE TruncateHooks(t)
      BY <3>6 DEF TruncateHooks, HookGoto
    <3>7. QED BY <1>16, <3>1, <3>2, <3>3, <3>4, <3>5, <3>6
  <2>4. Compacting' = Compacting
    BY <2>1, <2>2, <2>3 DEF Compacting
  <2>5. c' = c
    BY <2>4 DEF c
  <2>6. QED BY <1>9, <2>1, <2>5
<1>17. ASSUME NEW p \in Procs, NEW h \in Hooks, BackoffOver(p, h) PROVE AuditInv(m)'
  <2>1. c' = c
    BY <1>17 DEF BackoffOver, c, Compacting
  <2>2. QED BY <1>9, <1>17, <2>1 DEF BackoffOver
\* a kill takes no more threads than its process has
<1>18. ASSUME NEW p \in Procs, KillProc(p) PROVE AuditInv(m)'
  <2>1. Compacting' = Compacting \ ThreadsOf(p)
    BY <1>18 DEF KillProc, Compacting, ThreadsOf, Unfired
  <2>2. c' = c - Cardinality(Compacting \cap ThreadsOf(p))
    BY <1>1, <2>1, FS_Difference DEF c
  <2>3. Cardinality(Compacting \cap ThreadsOf(p)) <= m /\ Cardinality(Compacting \cap ThreadsOf(p)) \in Nat
    <3>1. ThreadsOf(p) \in SUBSET Threads /\ Compacting \cap ThreadsOf(p) \in SUBSET ThreadsOf(p)
      BY DEF ThreadsOf
    <3>2. IsFiniteSet(ThreadsOf(p)) /\ Cardinality(ThreadsOf(p)) \in Nat
      BY <3>1, FS_Subset, FS_CardinalityType
    <3>3. /\ Cardinality(Compacting \cap ThreadsOf(p)) <= Cardinality(ThreadsOf(p))
          /\ IsFiniteSet(Compacting \cap ThreadsOf(p))
      BY <3>1, <3>2, FS_Subset
    <3>4. Cardinality(Compacting \cap ThreadsOf(p)) \in Nat
      BY <3>3, FS_CardinalityType
    <3>5. QED BY <3>2, <3>3, <3>4
  <2>4. kills' = kills + 1 /\ log' = log
    BY <1>18 DEF KillProc
  <2>5. kills' * m = kills * m + m
    BY <1>2, <2>4
  <2>6. QED BY <1>1, <1>2, <1>7, <1>8, <2>2, <2>3, <2>4, <2>5
<1>19. QED
  BY <1>10, <1>11, <1>12, <1>13, <1>14, <1>15, <1>16, <1>17, <1>18 DEF HookNext

\* Whatever writers append, compact and overwrite in between, the audit log holds
\* no more than its limit, a line for each thread, and a line for each thread of
\* the largest process for each kill, for any number of processes and events.
THEOREM AuditLogBounded ==
    ASSUME IsFiniteSet(Threads), Procs # {}
    PROVE  HookSpec => []AuditBounded
<1>1. PICK p \in Procs : \A q \in Procs : Cardinality(ThreadsOf(q)) <= Cardinality(ThreadsOf(p))
  BY LargestProcess
<1> DEFINE m == Cardinality(ThreadsOf(p))
<1>2. m \in Nat
  <2>1. ThreadsOf(p) \in SUBSET Threads
    BY DEF ThreadsOf
  <2>2. QED BY <2>1, FS_Subset, FS_CardinalityType
<1>3. HookInit => HookTypeOK /\ AuditInv(m)
  <2> SUFFICES ASSUME HookInit PROVE AuditInv(m)
    BY HookTypeStarts
  <2>1. IsFiniteSet(Compacting) /\ Cardinality(Compacting) \in Nat
    <3>1. Compacting \in SUBSET Threads
      BY DEF Compacting
    <3>2. QED BY <3>1, FS_Subset, FS_CardinalityType
  <2> HIDE DEF m
  <2>2. 0 * m = 0
    BY <1>2
  <2>3. QED BY <1>2, <2>1, <2>2, WebhooksAssumption DEF HookInit, AuditInv
<1>4. HookTypeOK /\ AuditInv(m) /\ [HookNext]_hookVars => HookTypeOK' /\ AuditInv(m)'
  BY <1>1, <1>2, HookTypeKept, AuditKept
<1>5. HookTypeOK /\ AuditInv(m) => AuditBounded
  <2> SUFFICES ASSUME HookTypeOK, AuditInv(m) PROVE AuditBounded
    OBVIOUS
  <2>1. Compacting \in SUBSET Threads
    BY DEF Compacting
  <2>2. /\ Cardinality(Compacting) \in Nat /\ Cardinality(Threads) \in Nat
        /\ Cardinality(Compacting) <= Cardinality(Threads)
    BY <2>1, FS_Subset, FS_CardinalityType
  <2>3. log <= LogLimit + Cardinality(Threads) + kills * m
    <3> HIDE DEF m
    <3>1. log \in Nat /\ kills * m \in Nat
      BY <1>2 DEF HookTypeOK
    <3>2. QED BY <2>2, <3>1, WebhooksAssumption DEF AuditInv
  <2>4. QED BY <2>3 DEF AuditBounded, ThreadsOf
<1> HIDE DEF m
<1>6. QED BY <1>3, <1>4, <1>5, PTL DEF HookSpec

\* The threads of a process that wait for a hook's answer.
Asking(p, h) == {t \in ThreadsOf(p) : HookAt(t, "waiting") /\ h \in firing[t].list}

\* While a hook is left alone no thread asks it that did not before, so that the
\* refusals and those who may yet be refused are at most the threads.
RefusedInv ==
    \A p \in Procs : \A h \in Hooks :
        IF h \in backoff[p]
        THEN refused[p][h] + Cardinality(Asking(p, h)) <= Cardinality(ThreadsOf(p))
        ELSE refused[p][h] = 0

\* The sets counted are finite.
LEMMA AskingFinite ==
    ASSUME IsFiniteSet(Threads), NEW p \in Procs, NEW S \in SUBSET ThreadsOf(p)
    PROVE  /\ IsFiniteSet(S) /\ Cardinality(S) \in Nat
           /\ IsFiniteSet(ThreadsOf(p)) /\ Cardinality(ThreadsOf(p)) \in Nat
           /\ Cardinality(S) <= Cardinality(ThreadsOf(p))
           /\ \A T \in SUBSET S : Cardinality(T) \in Nat /\ Cardinality(T) <= Cardinality(S)
<1>1. ThreadsOf(p) \in SUBSET Threads
  BY DEF ThreadsOf
<1>2. IsFiniteSet(ThreadsOf(p)) /\ Cardinality(ThreadsOf(p)) \in Nat
  BY <1>1, FS_Subset, FS_CardinalityType
<1>3. IsFiniteSet(S) /\ Cardinality(S) \in Nat /\ Cardinality(S) <= Cardinality(ThreadsOf(p))
  BY <1>2, FS_Subset, FS_CardinalityType
<1>4. ASSUME NEW T \in SUBSET S PROVE Cardinality(T) \in Nat /\ Cardinality(T) <= Cardinality(S)
  BY <1>3, FS_Subset, FS_CardinalityType
<1>5. QED BY <1>2, <1>3, <1>4

\* Every step keeps the bound on refusals.
LEMMA RefusedKept ==
    ASSUME IsFiniteSet(Threads), HookTypeOK, RefusedInv, [HookNext]_hookVars
    PROVE  RefusedInv'
<1> DEFINE Holds(p, h) ==
               IF h \in backoff[p]
               THEN refused[p][h] + Cardinality(Asking(p, h)) <= Cardinality(ThreadsOf(p))
               ELSE refused[p][h] = 0
<1>0. /\ RefusedInv <=> \A p \in Procs, h \in Hooks : Holds(p, h)
      /\ RefusedInv' <=> \A p \in Procs, h \in Hooks : Holds(p, h)'
  BY DEF RefusedInv, ThreadsOf
<1>1. ASSUME NEW p \in Procs, NEW h \in Hooks,
             h \in backoff'[p] <=> h \in backoff[p], refused'[p][h] = refused[p][h],
             h \in backoff[p] => Asking(p, h)' \subseteq Asking(p, h)
      PROVE  Holds(p, h)'
  <2>1. CASE h \in backoff[p]
    <3>1. refused[p][h] + Cardinality(Asking(p, h)) <= Cardinality(ThreadsOf(p))
      BY <1>0, <2>1
    <3>2. Asking(p, h) \in SUBSET ThreadsOf(p)
      BY DEF Asking
    <3>3. /\ Cardinality(Asking(p, h)) \in Nat /\ Cardinality(ThreadsOf(p)) \in Nat
          /\ Cardinality(Asking(p, h)') \in Nat
          /\ Cardinality(Asking(p, h)') <= Cardinality(Asking(p, h))
      BY <1>1, <2>1, <3>2, AskingFinite
    <3>4. refused'[p][h] \in Nat
      BY <1>1 DEF HookTypeOK
    <3>5. refused'[p][h] + Cardinality(Asking(p, h)') <= Cardinality(ThreadsOf(p))
      BY <1>1, <3>1, <3>3, <3>4
    <3>6. ThreadsOf(p)' = ThreadsOf(p)
      BY DEF ThreadsOf
    <3>7. QED BY <1>1, <2>1, <3>5, <3>6
  <2>2. CASE h \notin backoff[p]
    BY <1>0, <1>1, <2>2
  <2>3. QED BY <2>1, <2>2
<1> HIDE DEF Holds
\* no thread begins to wait, and no refusal comes
<1>2. ASSUME UNCHANGED <<backoff, refused>>,
             \A t \in Threads : \/ firing'[t] = firing[t] \/ firing'[t].at # "waiting"
      PROVE  RefusedInv'
  <2>1. ASSUME NEW p \in Procs, NEW h \in Hooks PROVE Asking(p, h)' \subseteq Asking(p, h)
    BY <1>2 DEF Asking, HookAt, ThreadsOf
  <2>2. QED BY <1>0, <1>1, <1>2, <2>1
<1>3. CASE UNCHANGED hookVars
  BY <1>2, <1>3 DEF hookVars
<1>4. ASSUME NEW t \in Threads, Fire(t) \/ Stat(t) \/ TruncateLog(t) \/ TruncateHooks(t)
      PROVE  RefusedInv'
  <2>1. PICK l \in HookLabels \ {"waiting"} : firing' = [firing EXCEPT ![t].at = l]
    BY <1>4 DEF Fire, Stat, TruncateLog, TruncateHooks, HookGoto, HookLabels
  <2>2. firing'[t].at # "waiting" /\ \A u \in Threads \ {t} : firing'[u] = firing[u]
    BY <2>1 DEF HookTypeOK, Firing
  <2>3. QED BY <1>2, <1>4, <2>2 DEF Fire, Stat, TruncateLog, TruncateHooks
<1>5. ASSUME NEW t \in Threads, ReadTail(t) \/ FillLog(t) \/ LoadHooks(t) \/ Answered(t)
      PROVE  RefusedInv'
  <2>1. firing'[t].at # "waiting" /\ \A u \in Threads \ {t} : firing'[u] = firing[u]
    <3> USE DEF HookTypeOK, Firing
    <3>1. CASE ReadTail(t)
      BY <3>1 DEF ReadTail
    <3>2. CASE FillLog(t)
      BY <3>2 DEF FillLog
    <3>3. CASE LoadHooks(t)
      BY <3>3 DEF LoadHooks
    <3>4. CASE Answered(t)
      BY <3>4 DEF Answered, Moved
    <3>5. QED BY <1>5, <3>1, <3>2, <3>3, <3>4
  <2>2. QED BY <1>2, <1>5, <2>1 DEF ReadTail, FillLog, LoadHooks, Answered
<1>6. ASSUME NEW t \in Threads, FireDone(t) \/ FillHooks(t) \/ BeginEdit(t)
      PROVE  RefusedInv'
  <2>1. firing'[t].at # "waiting" /\ \A u \in Threads \ {t} : firing'[u] = firing[u]
    <3>1. CASE FireDone(t) \/ FillHooks(t)
      BY <3>1 DEF FireDone, FillHooks, HookTypeOK, Unfired
    <3>2. CASE BeginEdit(t)
      BY <3>2 DEF BeginEdit, HookTypeOK, Unfired
    <3>3. QED BY <1>6, <3>1, <3>2
  <2>2. QED BY <1>2, <1>6, <2>1 DEF FireDone, FillHooks, BeginEdit
\* a thread that begins to wait, for a hook that is not left alone
<1>7. ASSUME NEW t \in Threads, Deliver(t)
      PROVE  RefusedInv'
  <2>1. PICK g \in firing[t].todo :
          IF g \in backoff[ProcOf[t]]
          THEN firing' = [firing EXCEPT ![t].todo = @ \ {g}]
          ELSE firing' = [firing EXCEPT ![t].at = "waiting", ![t].list = {g}]
    BY <1>7 DEF Deliver
  <2>2. CASE g \in backoff[ProcOf[t]]
    <3>1. firing'[t].at # "waiting" /\ \A u \in Threads \ {t} : firing'[u] = firing[u]
      BY <1>7, <2>1, <2>2 DEF Deliver, HookTypeOK, Firing, HookAt
    <3>2. QED BY <1>2, <1>7, <3>1 DEF Deliver
  <2>3. CASE g \notin backoff[ProcOf[t]]
    <3>1. firing'[t].list = {g} /\ \A u \in Threads \ {t} : firing'[u] = firing[u]
      BY <2>1, <2>3 DEF HookTypeOK, Firing
    <3>2. ASSUME NEW p \in Procs, NEW h \in Hooks, h \in backoff[p]
          PROVE  Asking(p, h)' \subseteq Asking(p, h)
      BY <2>3, <3>1, <3>2 DEF Asking, HookAt, ThreadsOf
    <3>3. QED BY <1>0, <1>1, <1>7, <3>2 DEF Deliver
  <2>4. QED BY <2>2, <2>3
\* a refusal: one who asked asks no more
<1>8. ASSUME NEW t \in Threads, RateLimited(t)
      PROVE  RefusedInv'
  <2>0. PICK p \in Procs, h \in Hooks :
          p = ProcOf[t] /\ h = Called(t) /\ firing[t].list = {h} /\ HookAt(t, "waiting")
    BY <1>8, FiringOf, WebhooksAssumption DEF RateLimited
  <2>1. p = ProcOf[t] /\ firing[t].list = {h} /\ HookAt(t, "waiting")
    BY <2>0
  <2>2. /\ firing'[t].at # "waiting"
        /\ \A u \in Threads \ {t} : firing'[u] = firing[u]
    BY <1>8 DEF RateLimited, Moved, HookTypeOK, Firing
  <2>3. /\ backoff' = [backoff EXCEPT ![p] = @ \cup {h}]
        /\ refused' = [refused EXCEPT ![p][h] = @ + 1]
    BY <1>8, <2>0 DEF RateLimited
  <2>4. \A q \in Procs, g \in Hooks : Asking(q, g)' \subseteq Asking(q, g)
    BY <2>2 DEF Asking, HookAt, ThreadsOf
  <2>5. ASSUME NEW q \in Procs, NEW g \in Hooks, q # p \/ g # h
        PROVE  Holds(q, g)'
    <3>1. (g \in backoff'[q] <=> g \in backoff[q]) /\ refused'[q][g] = refused[q][g]
      BY <2>1, <2>3, <2>5 DEF HookTypeOK
    <3>2. QED BY <1>1, <2>4, <3>1
  <2>6. Holds(p, h)'
    <3>1. h \in backoff'[p] /\ refused'[p][h] = refused[p][h] + 1 /\ refused[p][h] \in Nat
      BY <2>1, <2>3 DEF HookTypeOK
    <3>2. t \in Asking(p, h) /\ t \in ThreadsOf(p)
      BY <2>1 DEF Asking, ThreadsOf
    <3>3. Asking(p, h)' \subseteq Asking(p, h) \ {t}
      BY <2>1, <2>2, <2>4 DEF Asking, HookAt
    <3>4. Asking(p, h) \in SUBSET ThreadsOf(p) /\ ThreadsOf(p) \in SUBSET ThreadsOf(p)
      BY DEF Asking
    <3>5. /\ IsFiniteSet(Asking(p, h)) /\ Cardinality(Asking(p, h)) \in Nat
          /\ Cardinality(Asking(p, h)') \in Nat
          /\ IsFiniteSet(ThreadsOf(p)) /\ Cardinality(ThreadsOf(p)) \in Nat
          /\ Cardinality(Asking(p, h)) <= Cardinality(ThreadsOf(p))
      BY <2>1, <3>3, <3>4, AskingFinite
    <3>6. Cardinality(Asking(p, h) \ {t}) = Cardinality(Asking(p, h)) - 1
      BY <3>2, <3>5, FS_RemoveElement
    <3>7. Cardinality(Asking(p, h)') <= Cardinality(Asking(p, h)) - 1
      <4>1. IsFiniteSet(Asking(p, h) \ {t})
        BY <3>5, FS_RemoveElement
      <4>2. Cardinality(Asking(p, h)') <= Cardinality(Asking(p, h) \ {t})
        BY <3>3, <4>1, FS_Subset
      <4>3. QED BY <3>6, <4>2
    <3>8. refused'[p][h] + Cardinality(Asking(p, h)') <= Cardinality(ThreadsOf(p))
      <4>1. CASE h \in backoff[p]
        <5>1. refused[p][h] + Cardinality(Asking(p, h)) <= Cardinality(ThreadsOf(p))
          BY <1>0, <2>1, <4>1 DEF Holds
        <5>2. QED BY <3>1, <3>5, <3>7, <5>1
      <4>2. CASE h \notin backoff[p]
        <5>1. refused[p][h] = 0
          BY <1>0, <2>1, <4>2 DEF Holds
        <5>2. QED BY <3>1, <3>5, <3>7, <5>1
      <4>3. QED BY <4>1, <4>2
    <3>9. ThreadsOf(p)' = ThreadsOf(p)
      BY DEF ThreadsOf
    <3>10. QED BY <3>1, <3>8, <3>9 DEF Holds
  <2>7. \A q \in Procs, g \in Hooks : Holds(q, g)'
    BY <2>5, <2>6
  <2>8. QED BY <1>0, <2>7
<1>9. ASSUME NEW p \in Procs, NEW h \in Hooks, BackoffOver(p, h)
      PROVE  RefusedInv'
  <2>1. ASSUME NEW q \in Procs, NEW g \in Hooks PROVE Holds(q, g)'
    <3>1. Asking(q, g)' = Asking(q, g)
      BY <1>9 DEF BackoffOver, Asking, HookAt, ThreadsOf
    <3>2. CASE q = p /\ g = h
      BY <1>9, <3>2 DEF BackoffOver, HookTypeOK, Holds
    <3>3. CASE ~(q = p /\ g = h)
      <4>1. (g \in backoff'[q] <=> g \in backoff[q]) /\ refused'[q][g] = refused[q][g]
        BY <1>9, <3>3 DEF BackoffOver, HookTypeOK
      <4>2. QED BY <1>1, <3>1, <4>1
    <3>4. QED BY <3>2, <3>3
  <2>2. QED BY <1>0, <2>1
<1>10. ASSUME NEW p \in Procs, KillProc(p)
       PROVE  RefusedInv'
  <2>1. ASSUME NEW q \in Procs, NEW g \in Hooks PROVE Holds(q, g)'
    <3>1. CASE q = p
      BY <1>10, <3>1 DEF KillProc, HookTypeOK, Holds
    <3>2. CASE q # p
      <4>1. /\ backoff'[q] = backoff[q] /\ refused'[q] = refused[q]
            /\ \A t \in ThreadsOf(q) : firing'[t] = firing[t]
        BY <1>10, <3>2 DEF KillProc, HookTypeOK, ThreadsOf
      <4>2. Asking(q, g)' \subseteq Asking(q, g)
        BY <4>1 DEF Asking, HookAt, ThreadsOf
      <4>3. QED BY <1>1, <4>1, <4>2
    <3>3. QED BY <3>1, <3>2
  <2>2. QED BY <1>0, <2>1
<1>11. QED
  BY <1>3, <1>4, <1>5, <1>6, <1>7, <1>8, <1>9, <1>10 DEF HookNext

\* A process is refused by a rate-limited hook at most once per thread before the
\* wait it was told is over, for any number of processes, threads and hooks.
THEOREM RefusalsBounded ==
    ASSUME IsFiniteSet(Threads)
    PROVE  HookSpec => []RefusedOncePerThread
<1>1. HookInit => HookTypeOK /\ RefusedInv
  BY HookTypeStarts DEF HookInit, RefusedInv
<1>2. HookTypeOK /\ RefusedInv /\ [HookNext]_hookVars => HookTypeOK' /\ RefusedInv'
  BY HookTypeKept, RefusedKept
<1>3. HookTypeOK /\ RefusedInv => RefusedOncePerThread
  <2> SUFFICES ASSUME HookTypeOK, RefusedInv, NEW p \in Procs, NEW h \in Hooks
               PROVE  refused[p][h] <= Cardinality(ThreadsOf(p))
    BY DEF RefusedOncePerThread, ThreadsOf
  <2>1. Asking(p, h) \in SUBSET ThreadsOf(p)
    BY DEF Asking
  <2>2. Cardinality(Asking(p, h)) \in Nat /\ Cardinality(ThreadsOf(p)) \in Nat
    BY <2>1, AskingFinite
  <2>3. refused[p][h] \in Nat
    BY DEF HookTypeOK
  <2>4. CASE h \in backoff[p]
    BY <2>2, <2>3, <2>4 DEF RefusedInv
  <2>5. CASE h \notin backoff[p]
    BY <2>2, <2>5 DEF RefusedInv
  <2>6. QED BY <2>4, <2>5
<1>4. QED BY <1>1, <1>2, <1>3, PTL DEF HookSpec

----------------------------------------------------------------------------
(* Ports *)

\* A port is a positive number.
LEMMA PortNumber ==
    \A r \in Category : r \in Nat /\ 0 < r /\ r <= LastPort
<1>1. LastPort \in Nat
  BY DEF LastPort
<1>2. QED BY <1>1, PortsAssumption

\* What Max and Min of the library give for sets of ports.
LEMMA MaxPort ==
    ASSUME NEW S \in SUBSET Category, S # {}
    PROVE  Max(S) \in S /\ \A m \in S : m <= Max(S)
<1>1. S \in SUBSET Nat /\ \A m \in S : m <= LastPort
  BY PortNumber
<1>2. LastPort \in Nat
  BY DEF LastPort
<1>3. \E n \in S : \A m \in S : n >= m
  BY <1>1, <1>2, Greatest
<1>4. QED BY <1>1, <1>3 DEF Max

\* And the least.
LEMMA MinPort ==
    ASSUME NEW S \in SUBSET Category, S # {}
    PROVE  Min(S) \in S /\ \A m \in S : Min(S) <= m
<1>1. S \in SUBSET Nat
  BY PortNumber
<1>2. \E n \in S : \A m \in S : n <= m
  BY <1>1, Least
<1>3. QED BY <1>2 DEF Min

Target == [to : Slugs \cup Boxes, port : PortNumbers]
SlugFile == [Slugs -> SUBSET Boxes]
Machine == Slugs \cup Boxes \cup {"none"}
Ask == [at : {"idle", "resolve", "try", "done"}, machine : Machine, sites : SUBSET Target,
        slugs : SlugFile, box : Machine, left : SUBSET Category, busy : SUBSET Category,
        probe : BOOLEAN, probed : Nat, port : SUBSET Category]

PortsTypeOK ==
    /\ targets \subseteq Target /\ machines \in SlugFile
    /\ ask \in [Askers -> Ask] /\ setter \in [Setters -> SUBSET SlugFile]

\* The ports in use on an asker's machine, as it read sites.conf.
UsedBy(x) == {t.port : t \in {u \in x.sites : Resolve(x.slugs, u.to) = x.box}}

\* The ports of the category above all that are in use.
Above(used) == {r \in Category : \A u \in used \cap Category : u < r}

\* What NextFree says of one asker, in terms of those.
Good(x) ==
    \A p \in x.port :
        LET Free == Category \ (UsedBy(x) \cup x.busy)
        IN  /\ p \in Free
            /\ p \notin Above(UsedBy(x)) => Above(UsedBy(x)) \subseteq x.busy
            /\ \A r \in Free : r < p => p \in Above(UsedBy(x)) /\ r \notin Above(UsedBy(x))

\* An answer is good; before there is one, a port that is not left to try is in
\* use or was found busy.
AskOK(x) ==
    /\ Good(x)
    /\ x.at # "done" => x.port = {}
    /\ x.at = "resolve" => x.busy = {}
    /\ x.at = "try" => /\ Category \ x.left \subseteq UsedBy(x) \cup x.busy
                       /\ x.busy \cap x.left = {}

PortsInv == PortsTypeOK /\ \A q \in Askers : AskOK(ask[q])

\* A machine resolves to a machine.
LEMMA ResolveType ==
    ASSUME NEW slugs \in SlugFile, NEW m \in Machine
    PROVE  Resolve(slugs, m) \in Machine
BY DEF Resolve, SlugFile, Machine

\* An asker's record after each of its steps.
Asked(m, sites, slugs, probe) ==
    [NoAsk EXCEPT !.at = "resolve", !.machine = m, !.sites = sites, !.slugs = slugs, !.probe = probe]
Resolved(x, b) == [x EXCEPT !.at = "try", !.left = Category, !.box = b]
Skipped(x, p) == [x EXCEPT !.left = @ \ {p}]
Stopped(x, l, port) == [x EXCEPT !.at = l, !.port = port]
Busy(x, p) == [x EXCEPT !.left = @ \ {p}, !.busy = @ \cup {p}, !.probed = @ + 1]
Silent(x, p) == [x EXCEPT !.at = "done", !.port = {p}, !.probed = @ + 1]

\* The used ports depend on what was read alone.
SameRead(x, y) == y.sites = x.sites /\ y.slugs = x.slugs /\ y.box = x.box

\* Two records that read the same have the same ports in use.
LEMMA UsedSame ==
    ASSUME NEW x, NEW y, SameRead(x, y)
    PROVE  UsedBy(y) = UsedBy(x)
BY DEF SameRead, UsedBy

\* An asker with nothing under way.
LEMMA IdleOK == NoAsk \in Ask /\ AskOK(NoAsk)
<1>1. NoSlugs \in SlugFile
  BY DEF NoSlugs, SlugFile
<1>2. NoAsk \in Ask
  BY <1>1 DEF NoAsk, Ask, Machine
<1>3. QED BY <1>2 DEF NoAsk, AskOK, Good

\* An asker who has begun.
LEMMA AskedOK ==
    ASSUME NEW m \in Slugs \cup Boxes, NEW s \in SUBSET Target, NEW l \in SlugFile,
           NEW b \in BOOLEAN
    PROVE  Asked(m, s, l, b) \in Ask /\ AskOK(Asked(m, s, l, b))
<1>1. NoAsk \in Ask /\ NoAsk.port = {} /\ NoAsk.busy = {}
  BY IdleOK DEF NoAsk
<1>2. m \in Machine
  BY DEF Machine
<1> DEFINE y == Asked(m, s, l, b)
<1>3. y \in Ask
  BY <1>1, <1>2 DEF Asked, Ask
<1>4. y.at = "resolve"
  BY <1>1 DEF Asked, Ask
<1>5. y.port = NoAsk.port /\ y.busy = NoAsk.busy
  BY <1>1 DEF Asked, Ask
<1> HIDE DEF y
<1>6. AskOK(y)
  BY <1>1, <1>4, <1>5 DEF AskOK, Good
<1>7. QED BY <1>3, <1>6 DEF y

\* Nothing has been tried yet.
LEMMA ResolvedOK ==
    ASSUME NEW x \in Ask, AskOK(x), x.at = "resolve", NEW b \in Machine
    PROVE  Resolved(x, b) \in Ask /\ AskOK(Resolved(x, b))
<1>1. Resolved(x, b) \in Ask
  BY DEF Resolved, Ask
<1>2. /\ Resolved(x, b).at = "try" /\ Resolved(x, b).left = Category
      /\ Resolved(x, b).busy = x.busy /\ Resolved(x, b).port = x.port
  BY DEF Resolved, Ask
<1>3. QED BY <1>1, <1>2 DEF AskOK, Good

\* Port p is in use by sites.conf: on to the next.
LEMMA SkippedOK ==
    ASSUME NEW x \in Ask, AskOK(x), x.at = "try", NEW p \in UsedBy(x)
    PROVE  Skipped(x, p) \in Ask /\ AskOK(Skipped(x, p))
<1> DEFINE y == Skipped(x, p)
<1>1. y \in Ask
  BY DEF Skipped, Ask
<1>2. y.at = x.at /\ y.port = x.port /\ y.busy = x.busy /\ y.left = x.left \ {p} /\ SameRead(x, y)
  BY DEF Skipped, Ask, SameRead
<1> HIDE DEF y
<1>3. UsedBy(y) = UsedBy(x)
  BY <1>2, UsedSame
<1>4. QED BY <1>1, <1>2, <1>3 DEF AskOK, Good, y

\* Something answered on port p: on to the next.
LEMMA BusyOK ==
    ASSUME NEW x \in Ask, AskOK(x), x.at = "try", NEW p \in x.left
    PROVE  Busy(x, p) \in Ask /\ AskOK(Busy(x, p))
<1> DEFINE y == Busy(x, p)
<1>1. y = [x EXCEPT !.left = x.left \ {p}, !.busy = x.busy \cup {p}, !.probed = x.probed + 1]
  BY DEF Busy, Ask
<1>2. x.left \ {p} \in SUBSET Category /\ x.busy \cup {p} \in SUBSET Category /\ x.probed + 1 \in Nat
  BY DEF Ask
<1>3. y \in Ask
  BY <1>1, <1>2 DEF Ask
<1>4. y.at = x.at /\ y.port = x.port
  BY <1>1 DEF Ask
<1>5. y.busy = x.busy \cup {p} /\ y.left = x.left \ {p}
  BY <1>1 DEF Ask
<1>6. SameRead(x, y)
  BY <1>1 DEF Ask, SameRead
<1> HIDE DEF y
<1>7. UsedBy(y) = UsedBy(x)
  BY <1>6, UsedSame
<1>8. QED BY <1>3, <1>4, <1>5, <1>7 DEF AskOK, Good, y

\* No port is suggested.
LEMMA RefusedOK ==
    ASSUME NEW x \in Ask, AskOK(x)
    PROVE  Stopped(x, "done", {}) \in Ask /\ AskOK(Stopped(x, "done", {}))
<1> DEFINE y == Stopped(x, "done", {})
<1>1. y \in Ask
  BY DEF Stopped, Ask
<1>2. y.at = "done" /\ y.port = {}
  BY DEF Stopped, Ask
<1>3. QED BY <1>1, <1>2 DEF AskOK, Good

\* The answer, without a probe and after a silent one.
LEMMA AnswerFields ==
    ASSUME NEW x \in Ask, NEW p \in Category, NEW y \in {Stopped(x, "done", {p}), Silent(x, p)}
    PROVE  y \in Ask /\ y.at = "done" /\ y.port = {p} /\ y.busy = x.busy /\ SameRead(x, y)
<1>1. {p} \in SUBSET Category /\ x.probed + 1 \in Nat
  BY DEF Ask
<1>2. CASE y = Stopped(x, "done", {p})
  <2>1. y \in Ask
    BY <1>1, <1>2 DEF Stopped, Ask
  <2>2. y.at = "done" /\ y.port = {p}
    BY <1>2 DEF Stopped, Ask
  <2>3. y.busy = x.busy /\ SameRead(x, y)
    BY <1>2 DEF Stopped, Ask, SameRead
  <2>4. QED BY <2>1, <2>2, <2>3
<1>3. CASE y = Silent(x, p)
  <2>0. y = [x EXCEPT !.at = "done", !.port = {p}, !.probed = x.probed + 1]
    BY <1>3 DEF Silent, Ask
  <2>1. y \in Ask
    BY <1>1, <2>0 DEF Ask
  <2>2. y.at = "done" /\ y.port = {p}
    BY <2>0 DEF Ask
  <2>3. y.busy = x.busy /\ SameRead(x, y)
    BY <2>0 DEF Ask, SameRead
  <2>4. QED BY <2>1, <2>2, <2>3
<1>4. QED BY <1>2, <1>3

\* The answer given: the next port in the order of the scan.
LEMMA NextPortGood ==
    ASSUME NEW q \in Askers, ask[q] \in Ask, AskOK(ask[q]), ask[q].at = "try", ask[q].left # {}
    PROVE  /\ NextPort(q) \in ask[q].left
           /\ \A y : SameRead(ask[q], y) /\ y.busy = ask[q].busy /\ y.port = {NextPort(q)}
                     /\ NextPort(q) \notin Used(q) => Good(y)
<1> DEFINE x == ask[q]
           H == Highest(q)
           used == Used(q)
           tail == {p \in x.left : p > H}
           n == NextPort(q)
<1>0. used = UsedBy(x) /\ x.left \subseteq Category /\ x.left \in SUBSET Category
  BY DEF Used, UsedBy, Ask
<1>1. H \in Nat /\ \A r \in Category : r > H <=> \A u \in used \cap Category : u < r
  <2>1. CASE used \cap Category = {}
    <3>1. H = 0
      BY <2>1 DEF Highest
    <3>2. QED BY <2>1, <3>1, PortNumber
  <2>2. CASE used \cap Category # {}
    <3> DEFINE S == used \cap Category
    <3>1. H = Max(S) /\ S \in SUBSET Category /\ S # {}
      BY <2>2 DEF Highest
    <3> HIDE DEF S, H
    <3>2. H \in S /\ \A m \in S : m <= H
      BY <3>1, MaxPort
    <3>3. S \subseteq Nat /\ Category \subseteq Nat
      BY <3>1, PortNumber
    <3>4. ASSUME NEW r \in Category PROVE r > H <=> \A u \in S : u < r
      BY <3>2, <3>3
    <3>5. QED BY <3>2, <3>3, <3>4 DEF S
  <2>3. QED BY <2>1, <2>2
<1>2. \A r \in Category : r \in Above(UsedBy(x)) <=> r > H
  BY <1>0, <1>1 DEF Above
<1>3. tail \in SUBSET Category
  BY <1>0
<1>4. n = IF tail # {} THEN Min(tail) ELSE Min(x.left)
  BY DEF NextPort
<1> HIDE DEF H, used, n, tail
<1>5. /\ n \in x.left
      /\ n > H => \A r \in x.left : r > H => n <= r
      /\ ~(n > H) => \A r \in x.left : ~(r > H) /\ n <= r
  <2>1. CASE tail # {}
    <3>1. n \in tail /\ \A r \in tail : n <= r
      BY <1>3, <1>4, <2>1, MinPort
    <3>2. QED BY <3>1 DEF tail
  <2>2. CASE tail = {}
    <3>1. n \in x.left /\ \A r \in x.left : n <= r
      BY <1>0, <1>4, <2>2, MinPort
    <3>2. QED BY <3>1, <2>2 DEF tail
  <2>3. QED BY <2>1, <2>2
<1>6. Category \ x.left \subseteq UsedBy(x) \cup x.busy /\ x.busy \cap x.left = {}
  BY DEF AskOK
<1>7. Category \subseteq Nat
  BY PortNumber
<1>8. ASSUME NEW y, SameRead(x, y), y.busy = x.busy, y.port = {n}, n \notin used
      PROVE  Good(y)
  <2>1. UsedBy(y) = UsedBy(x)
    BY <1>8, UsedSame
  <2> DEFINE U == UsedBy(x)
             A == Above(U)
             Free == Category \ (U \cup x.busy)
  <2>2. A \cap U = {}
    BY <1>7 DEF Above
  <2>3. \A r \in Category : r \in A <=> r > H
    BY <1>2
  <2>4. n \in Category /\ n \in Free
    BY <1>0, <1>5, <1>6, <1>8
  <2>5. n \notin A => A \subseteq x.busy
    <3>1. A \subseteq Category
      BY DEF Above
    <3> HIDE DEF A, U
    <3>2. SUFFICES ASSUME n \notin A, NEW r \in A PROVE r \in x.busy
      OBVIOUS
    <3>3. r \notin x.left
      BY <1>5, <2>3, <2>4, <3>1, <3>2
    <3>4. QED BY <1>6, <2>2, <3>1, <3>3 DEF U
  <2>6. ASSUME NEW r \in Free, r < n PROVE n \in A /\ r \notin A
    <3>1. r \in x.left /\ r \in Category
      BY <1>6, <2>6
    <3> HIDE DEF A, U
    <3>2. ~(n <= r)
      BY <1>7, <2>4, <2>6, <3>1
    <3>3. QED BY <1>5, <2>3, <2>4, <3>1, <3>2
  <2>7. QED BY <1>8, <2>1, <2>4, <2>5, <2>6 DEF Good
<1>9. QED BY <1>5, <1>8 DEF n, used

\* Every step preserves the invariant.
LEMMA PortsStep ==
    ASSUME PortsInv, [PortsNext]_portVars
    PROVE  PortsInv'
<1>1. ASSUME UNCHANGED ask, PortsTypeOK' PROVE PortsInv'
  BY <1>1 DEF PortsInv
<1>2. CASE UNCHANGED portVars
  BY <1>1, <1>2 DEF portVars, PortsInv, PortsTypeOK
<1>3. ASSUME NEW q \in Askers, NEW y \in Ask, AskOK(y), ask' = [ask EXCEPT ![q] = y],
             UNCHANGED <<targets, machines, setter>>
      PROVE  PortsInv'
  BY <1>3 DEF PortsInv, PortsTypeOK
<1>4. CASE Route
  BY <1>1, <1>4 DEF Route, PortsInv, PortsTypeOK, Target
<1>5. ASSUME NEW w \in Setters, SetSlug(w) PROVE PortsInv'
  <2>1. PICK s \in Slugs, box \in SUBSET Boxes :
          setter' = [setter EXCEPT ![w] = {[machines EXCEPT ![s] = box]}]
    BY <1>5 DEF SetSlug
  <2>2. [machines EXCEPT ![s] = box] \in SlugFile /\ NoSlugs \in SlugFile
    BY DEF PortsInv, PortsTypeOK, SlugFile, NoSlugs
  <2>3. QED BY <1>1, <1>5, <2>1, <2>2 DEF SetSlug, PortsInv, PortsTypeOK
<1>6. ASSUME NEW w \in Setters, FillSlugs(w) PROVE PortsInv'
  BY <1>1, <1>6 DEF FillSlugs, PortsInv, PortsTypeOK
<1>7. ASSUME NEW q \in Askers, BeginAsk(q) PROVE PortsInv'
  <2>1. PICK m \in Slugs \cup Boxes, probe \in BOOLEAN :
          ask' = [ask EXCEPT ![q] = Asked(m, targets, machines, probe)]
    BY <1>7 DEF BeginAsk, Asked
  <2>2. QED BY <1>3, <1>7, <2>1, AskedOK DEF BeginAsk, PortsInv, PortsTypeOK
<1>8. ASSUME NEW q \in Askers, ResolveAsk(q) PROVE PortsInv'
  <2>1. ask[q] \in Ask /\ AskOK(ask[q]) /\ ask[q].at = "resolve"
    BY <1>8 DEF ResolveAsk, AskAt, PortsInv, PortsTypeOK
  <2>2. Resolve(machines, ask[q].machine) \in Machine
    <3>1. machines \in SlugFile /\ ask[q].machine \in Machine
      BY <2>1 DEF PortsInv, PortsTypeOK, Ask
    <3>2. QED BY <3>1, ResolveType
  <2> DEFINE b == Resolve(machines, ask[q].machine)
  <2>3. ask' = [ask EXCEPT ![q] = Resolved(ask[q], b)]
    BY <1>8 DEF ResolveAsk, Resolved
  <2> HIDE DEF b
  <2>4. QED BY <1>3, <1>8, <2>1, <2>2, <2>3, ResolvedOK DEF ResolveAsk, b
<1>9. ASSUME NEW q \in Askers, TryPort(q) PROVE PortsInv'
  <2>1. ask[q] \in Ask /\ AskOK(ask[q]) /\ ask[q].at = "try" /\ ask[q].left # {}
    BY <1>9 DEF TryPort, AskAt, PortsInv, PortsTypeOK
  <2>2. UNCHANGED <<targets, machines, setter>>
    BY <1>9 DEF TryPort
  <2> DEFINE x == ask[q]
             n == NextPort(q)
  <2>3. /\ n \in x.left
        /\ \A y : SameRead(x, y) /\ y.busy = x.busy /\ y.port = {n} /\ n \notin Used(q) => Good(y)
    BY <2>1, NextPortGood
  <2>4. n \in Category
    BY <2>1, <2>3 DEF Ask
  <2>5. \/ n \in Used(q) /\ ask' = [ask EXCEPT ![q] = Skipped(x, n)]
        \/ n \notin Used(q) /\ ask' = [ask EXCEPT ![q] = Stopped(x, "done", {n})]
        \/ ask' = [ask EXCEPT ![q] = Stopped(x, "done", {})]
        \/ ask' = [ask EXCEPT ![q] = Busy(x, n)]
        \/ n \notin Used(q) /\ ask' = [ask EXCEPT ![q] = Silent(x, n)]
    BY <1>9 DEF TryPort, Stop, Skipped, Stopped, Busy, Silent
  <2>6. Used(q) = UsedBy(x)
    BY DEF Used, UsedBy
  <2> HIDE DEF x, n
  <2>7. CASE n \in Used(q) /\ ask' = [ask EXCEPT ![q] = Skipped(x, n)]
    BY <1>3, <2>1, <2>2, <2>6, <2>7, SkippedOK DEF x
  <2>8. CASE ask' = [ask EXCEPT ![q] = Stopped(x, "done", {})]
    BY <1>3, <2>1, <2>2, <2>8, RefusedOK DEF x
  <2>9. CASE ask' = [ask EXCEPT ![q] = Busy(x, n)]
    BY <1>3, <2>1, <2>2, <2>3, <2>9, BusyOK DEF x
  <2>10. ASSUME NEW y \in {Stopped(x, "done", {n}), Silent(x, n)}, n \notin Used(q),
                ask' = [ask EXCEPT ![q] = y]
         PROVE  PortsInv'
    <3>1. y \in Ask /\ y.at = "done" /\ y.port = {n} /\ y.busy = x.busy /\ SameRead(x, y)
      BY <2>1, <2>4, <2>10, AnswerFields DEF x
    <3>2. AskOK(y)
      BY <2>3, <2>10, <3>1 DEF AskOK
    <3>3. QED BY <1>3, <2>2, <2>10, <3>1, <3>2
  <2>11. QED BY <2>5, <2>7, <2>8, <2>9, <2>10
<1>10. ASSUME NEW q \in Askers, NonePort(q) PROVE PortsInv'
  <2>1. ask[q] \in Ask /\ AskOK(ask[q])
    BY DEF PortsInv, PortsTypeOK
  <2>2. ask' = [ask EXCEPT ![q] = Stopped(ask[q], "done", {})]
    BY <1>10 DEF NonePort, Stop, Stopped
  <2>3. QED BY <1>3, <1>10, <2>1, <2>2, RefusedOK DEF NonePort
<1>11. ASSUME NEW q \in Askers, AskOver(q) PROVE PortsInv'
  BY <1>3, <1>11, IdleOK DEF AskOver
<1>12. QED
  BY <1>2, <1>4, <1>5, <1>6, <1>7, <1>8, <1>9, <1>10, <1>11 DEF PortsNext

\* The invariant holds at first.
LEMMA PortsStart == PortsInit => PortsInv
<1>1. NoSlugs \in SlugFile
  BY DEF NoSlugs, SlugFile
<1>2. QED BY <1>1, IdleOK DEF PortsInit, PortsInv, PortsTypeOK

\* What the invariant says of an answer is NextFree.
LEMMA PortsFree == PortsInv => NextFree
<1> SUFFICES ASSUME PortsInv, NEW q \in Askers,
                    Resolve(ask[q].slugs, ask[q].machine) = ask[q].box,
                    NEW p \in ask[q].port
             PROVE  LET Taken == {t.port : t \in {u \in ask[q].sites :
                            Resolve(ask[q].slugs, u.to) = Resolve(ask[q].slugs, ask[q].machine)}}
                        Tail  == {r \in Category : \A u \in Taken \cap Category : u < r}
                        Free  == Category \ (Taken \cup ask[q].busy)
                    IN  /\ p \in Free
                        /\ p \notin Tail => Tail \subseteq ask[q].busy
                        /\ \A r \in Free : r < p => p \in Tail /\ r \notin Tail
  BY DEF NextFree
<1>1. Good(ask[q])
  BY DEF PortsInv, AskOK
<1>2. UsedBy(ask[q]) = {t.port : t \in {u \in ask[q].sites :
          Resolve(ask[q].slugs, u.to) = Resolve(ask[q].slugs, ask[q].machine)}}
  BY DEF UsedBy
<1>3. QED BY <1>1, <1>2 DEF Good, Above

\* For any category, number of askers and order of what others change meanwhile: a
\* port suggested is free by sites.conf and by every probe, above the highest in
\* use while there is one, if the slugs did not change between the two readings.
THEOREM SuggestedFree == PortsSpec => []NextFree
<1>1. PortsInv /\ [PortsNext]_portVars => PortsInv'
  BY PortsStep
<1>2. QED BY PortsStart, PortsFree, <1>1, PTL DEF PortsSpec
=============================================================================
