--------------------------- MODULE Routines_proofs ---------------------------
(***************************************************************************)
(* The daemon keeps to the intervals, for any catalogue of tasks and any   *)
(* settings, as long as no save overlaps a pass or another save, no write  *)
(* fails and nothing is killed.                                            *)
(***************************************************************************)
EXTENDS Routines, TLAPS

USE TasksAssumption, IntervalsAssumption, RoutineFaultsAssumption

LEMMA EmptyType == Empty \in [Tasks -> Entry]
BY DEF Empty, NoEntry, Entry

LEMMA OlderType == \A n \in -1 .. Cap : Older(n) \in -1 .. Cap /\ (n # -1 => Older(n) # -1)
BY DEF Older

LEMMA AllOlderType ==
    ASSUME NEW cfg \in [Tasks -> Entry]
    PROVE  /\ AllOlder(cfg) \in [Tasks -> Entry]
           /\ \A i \in Tasks : /\ AllOlder(cfg)[i].age = Older(cfg[i].age)
                              /\ AllOlder(cfg)[i].enabled = cfg[i].enabled
<1>1. ASSUME NEW i \in Tasks
      PROVE  [cfg[i] EXCEPT !.age = Older(@)] \in Entry
  <2>1. cfg[i] \in Entry
    OBVIOUS
  <2>2. Older(cfg[i].age) \in -1 .. Cap
    BY <2>1, OlderType DEF Entry
  <2>3. QED
    BY <2>1, <2>2 DEF Entry
<1>2. \A i \in Tasks : cfg[i] \in Entry
  OBVIOUS
<1>3. QED
  BY <1>1, <1>2 DEF AllOlder, Entry

LEMMA EntryFields ==
    ASSUME NEW e \in Entry
    PROVE  /\ \A n \in 0 .. Cap : [e EXCEPT !.age = n] \in Entry
           /\ \A b \in BOOLEAN : [e EXCEPT !.ok = b] \in Entry
BY DEF Entry

LEMMA WithSettingsType ==
    ASSUME NEW e \in Entry, NEW s \in Settings
    PROVE  WithSettings(e, s) \in Entry /\ WithSettings(e, s).age = e.age
BY DEF WithSettings, Entry, Settings

\* What a write leaves, finished or not, is a file again.
LEMMA WrittenType ==
    ASSUME TypeOK, NEW cfg \in [Tasks -> Entry], Truncated \/ Filled(cfg) \/ CutShort
    PROVE  file' \in [Tasks -> Entry] /\ blank' \in BOOLEAN
<1>1. file' \in [Tasks -> Entry]
  BY EmptyType DEF Truncated, Filled, CutShort, TypeOK
<1>2. blank' \in BOOLEAN
  BY DEF Truncated, Filled, CutShort, TypeOK
<1>3. QED
  BY <1>1, <1>2

\* Every variable stays in its range, whoever writes and is killed when.
THEOREM RoutinesTypeOK == Spec => []TypeOK
<1>1. Init => TypeOK
  <2> SUFFICES ASSUME Init PROVE TypeOK
    OBVIOUS
  <2>1. NoEntry \in Entry
    BY DEF NoEntry, Entry
  <2>2. file \in [Tasks -> Entry]
    <3>1. PICK s \in [Tasks -> Settings] : file = [i \in Tasks |-> WithSettings(NoEntry, s[i])]
      BY DEF Init
    <3>2. QED
      BY <3>1, <2>1, WithSettingsType
  <2>3. faults \in 0 .. MaxFaults /\ lag \in 0 .. Cap
    BY SMT DEF Init
  <2>4. since \in [Tasks -> -1 .. Cap]
    BY DEF Init
  <2>5. QED
    BY <2>2, <2>3, <2>4, EmptyType DEF Init, TypeOK
<1>2. TypeOK /\ [Next]_vars => TypeOK'
  <2> SUFFICES ASSUME TypeOK, [Next]_vars PROVE TypeOK'
    OBVIOUS
  <2>1. CASE Wake
    BY <2>1 DEF Wake, TypeOK, Due, panelVars
  <2>2. ASSUME NEW ok \in BOOLEAN, RunTask(ok) PROVE TypeOK'
    <3>1. dcfg' \in [Tasks -> Entry]
      <4> DEFINE n == NextTask
                 mid == [dcfg EXCEPT ![n].age = lag]
      <4>1. dcfg' = [mid EXCEPT ![n].ok = ok]
        BY <2>2 DEF RunTask
      <4> HIDE DEF n
      <4>2. mid \in [Tasks -> Entry]
        BY EntryFields DEF TypeOK
      <4> HIDE DEF mid
      <4>3. \A i \in Tasks : [mid[i] EXCEPT !.ok = ok] \in Entry
        BY <4>2, EntryFields
      <4>4. QED
        BY <4>1, <4>2, <4>3
    <3>2. QED
      BY <2>2, <3>1 DEF RunTask, TypeOK, panelVars
  <2>3. CASE PassDone
    BY <2>3 DEF PassDone, TypeOK, panelVars
  <2>4. CASE DaemonTruncate
    <3>1. file' \in [Tasks -> Entry] /\ blank' \in BOOLEAN
      BY <2>4, EmptyType, WrittenType DEF DaemonTruncate
    <3>2. QED
      BY <2>4, <3>1 DEF DaemonTruncate, TypeOK, panelVars
  <2>5. CASE DaemonFill
    <3>1. file' \in [Tasks -> Entry] /\ blank' \in BOOLEAN
      BY <2>5, WrittenType DEF DaemonFill, TypeOK
    <3>2. QED
      BY <2>5, <3>1, EmptyType DEF DaemonFill, TypeOK, panelVars
  <2>6. CASE DaemonWriteFails
    <3>1. file' \in [Tasks -> Entry] /\ blank' \in BOOLEAN
      BY <2>6, EmptyType, WrittenType DEF DaemonWriteFails, TypeOK
    <3>2. QED
      BY <2>6, <3>1, EmptyType DEF DaemonWriteFails, Fault, TypeOK, panelVars
  <2>7. ASSUME NEW u \in Handlers, Panel(u) PROVE TypeOK'
    <3>1. ASSUME NEW s \in [Tasks -> Settings], Submit(u, s) PROVE TypeOK'
      <4>1. [i \in Tasks |-> WithSettings(file[i], s[i])] \in [Tasks -> Entry]
        BY WithSettingsType DEF TypeOK
      <4>2. QED
        BY <3>1, <4>1 DEF Submit, TypeOK, daemonVars
    <3>2. CASE PanelTruncate(u)
      <4>1. file' \in [Tasks -> Entry] /\ blank' \in BOOLEAN
        BY <3>2, EmptyType, WrittenType DEF PanelTruncate
      <4>2. QED
        BY <3>2, <4>1 DEF PanelTruncate, TypeOK, daemonVars
    <3>3. CASE PanelFill(u)
      <4>1. file' \in [Tasks -> Entry] /\ blank' \in BOOLEAN
        BY <3>3, WrittenType DEF PanelFill, TypeOK
      <4>2. QED
        BY <3>3, <4>1, EmptyType DEF PanelFill, HandlerEnds, TypeOK, daemonVars
    <3>4. CASE PanelWriteFails(u)
      <4>1. file' \in [Tasks -> Entry] /\ blank' \in BOOLEAN
        BY <3>4, EmptyType, WrittenType DEF PanelWriteFails, TypeOK
      <4>2. QED
        BY <3>4, <4>1, EmptyType DEF PanelWriteFails, HandlerEnds, Fault, TypeOK, daemonVars
    <3>5. QED
      BY <2>7, <3>1, <3>2, <3>3, <3>4 DEF Panel
  <2>8. CASE Tick
    <3>1. file' \in [Tasks -> Entry] /\ dcfg' \in [Tasks -> Entry]
      BY <2>8, AllOlderType DEF Tick, TypeOK
    <3>2. ucfg' \in [Handlers -> [Tasks -> Entry]]
      BY <2>8, AllOlderType DEF Tick, TypeOK
    <3>3. lag' \in 0 .. Cap /\ since' \in [Tasks -> -1 .. Cap]
      BY <2>8 DEF Tick, TypeOK, Older
    <3>4. QED
      BY <2>8, <3>1, <3>2, <3>3 DEF Tick, TypeOK
  <2>9. CASE KillDaemon
    BY <2>9, EmptyType DEF KillDaemon, Fault, TypeOK, panelVars
  <2>10. CASE KillPanel
    BY <2>10, EmptyType DEF KillPanel, Fault, TypeOK, daemonVars
  <2>11. CASE UNCHANGED vars
    BY <2>11 DEF vars, TypeOK, daemonVars, panelVars
  <2>12. QED
    BY <2>1, <2>2, <2>3, <2>4, <2>5, <2>6, <2>7, <2>8, <2>9, <2>10, <2>11
    DEF Next, Daemon
<1>3. QED
  BY <1>1, <1>2, PTL DEF Spec

\* While at most one of them is at work at a time and nothing fails, the times on
\* record are those of the passes: in what the daemon read while it is at work, in
\* what a handler is about to write while it saves, in the file while nobody has
\* torn it; and a torn file holds no entry, so nobody's text is written over.
OnRecord ==
    \/ disturbed
    \/ /\ dpc = "sleep" \/ \A u \in Handlers : upc[u] = "idle"
       /\ \A u, w \in Handlers : upc[u] # "idle" /\ upc[w] # "idle" => u = w
       /\ dpc = "fill" \/ (\E u \in Handlers : upc[u] = "fill") => blank
       /\ dpc = "sleep" /\ (\A u \in Handlers : upc[u] # "fill")
             => \A i \in Tasks : file[i].age = since[i]
       /\ dpc # "sleep" => \A i \in Tasks : dcfg[i].age = since[i]
       /\ \A u \in Handlers : upc[u] # "idle" => \A i \in Tasks : ucfg[u][i].age = since[i]
       /\ (\E u \in Handlers : upc[u] = "fill") => \A i \in Tasks : ~file[i].enabled

LEMMA OnRecordStep ==
    ASSUME TypeOK, OnRecord, [Next]_vars
    PROVE  OnRecord'
<1>1. CASE Wake
  BY <1>1 DEF Wake, OnRecord, panelVars
<1>2. ASSUME NEW ok \in BOOLEAN, RunTask(ok) PROVE OnRecord'
  <2>1. \A i \in Tasks : dcfg[i] \in Entry
    BY DEF TypeOK
  <2>2. ASSUME ~disturbed, NEW i \in Tasks PROVE dcfg'[i].age = since'[i]
    <3>1. CASE i = NextTask
      BY <1>2, <2>1, <3>1 DEF RunTask, TypeOK, Entry
    <3>2. CASE i # NextTask
      BY <1>2, <2>2, <3>2 DEF RunTask, TypeOK, OnRecord
    <3>3. QED
      BY <3>1, <3>2
  <2>3. QED
    BY <1>2, <2>2 DEF RunTask, OnRecord, panelVars
<1>3. CASE PassDone
  BY <1>3 DEF PassDone, OnRecord, panelVars
<1>4. CASE DaemonTruncate
  BY <1>4 DEF DaemonTruncate, Truncated, OnRecord, panelVars
<1>5. CASE DaemonFill
  BY <1>5 DEF DaemonFill, Filled, OnRecord, panelVars
<1>6. ASSUME NEW u \in Handlers, NEW s \in [Tasks -> Settings], Submit(u, s) PROVE OnRecord'
  <2>1. \A i \in Tasks : ucfg'[u][i].age = file[i].age
    BY <1>6, WithSettingsType DEF Submit, TypeOK
  <2>2. \A w \in Handlers : w # u => upc'[w] = upc[w] /\ ucfg'[w] = ucfg[w]
    BY <1>6 DEF Submit, TypeOK
  <2>3. upc'[u] = "truncate"
    BY <1>6 DEF Submit, TypeOK
  <2>4. UNCHANGED <<file, blank, dpc, dcfg, since>>
    BY <1>6 DEF Submit, daemonVars
  <2>5. CASE disturbed'
    BY <2>5 DEF OnRecord
  <2>6. CASE ~disturbed'
    <3>1. ~disturbed /\ dpc = "sleep" /\ \A w \in Handlers : upc[w] = "idle"
      BY <1>6, <2>6 DEF Submit
    <3>2. \A i \in Tasks : file[i].age = since[i]
      BY <3>1 DEF OnRecord
    <3>3. \A w \in Handlers : w # u => upc'[w] = "idle"
      BY <2>2, <3>1
    <3>4. QED
      BY <2>1, <2>3, <2>4, <3>1, <3>2, <3>3 DEF OnRecord
  <2>7. QED
    BY <2>5, <2>6
<1>7. ASSUME NEW u \in Handlers, PanelTruncate(u) PROVE OnRecord'
  <2>1. /\ upc'[u] = "fill"
        /\ \A w \in Handlers : w # u => upc'[w] = upc[w]
    BY <1>7 DEF PanelTruncate, TypeOK
  <2>2. QED
    BY <1>7, <2>1 DEF PanelTruncate, Truncated, OnRecord, Empty, NoEntry, daemonVars
<1>8. ASSUME NEW u \in Handlers, PanelFill(u) PROVE OnRecord'
  <2>1. /\ upc'[u] = "idle"
        /\ \A w \in Handlers : w # u => upc'[w] = upc[w] /\ ucfg'[w] = ucfg[w]
    BY <1>8 DEF PanelFill, HandlerEnds, TypeOK
  <2>2. QED
    BY <1>8, <2>1 DEF PanelFill, Filled, OnRecord, daemonVars
<1>9. CASE Tick
  <2>1. \A i \in Tasks : /\ file'[i].age = Older(file[i].age)
                         /\ file'[i].enabled = file[i].enabled
                         /\ dcfg'[i].age = Older(dcfg[i].age)
                         /\ since'[i] = Older(since[i])
    BY <1>9, AllOlderType DEF Tick, TypeOK
  <2>2. \A u \in Handlers : \A i \in Tasks : ucfg'[u][i].age = Older(ucfg[u][i].age)
    BY <1>9, AllOlderType DEF Tick, TypeOK
  <2>3. QED
    BY <1>9, <2>1, <2>2 DEF Tick, OnRecord
<1>10. CASE DaemonWriteFails \/ KillDaemon \/ KillPanel
  BY <1>10 DEF DaemonWriteFails, KillDaemon, KillPanel, Fault, OnRecord
<1>11. ASSUME NEW u \in Handlers, PanelWriteFails(u) PROVE OnRecord'
  BY <1>11 DEF PanelWriteFails, Fault, OnRecord
<1>12. CASE UNCHANGED vars
  BY <1>12 DEF vars, OnRecord, daemonVars, panelVars
<1>13. QED
  BY <1>1, <1>2, <1>3, <1>4, <1>5, <1>6, <1>7, <1>8, <1>9, <1>10, <1>11, <1>12
  DEF Next, Daemon, Panel

\* Until a save overlaps a pass or another save, a write fails or something is
\* killed, no pass runs a task before its interval is over (dueRoutineIDs,
\* runDueRoutines, handleRoutinesSave).
THEOREM KeepsIntervals == Spec => NotEarly
<1>1. Init => OnRecord
  <2> SUFFICES ASSUME Init PROVE OnRecord
    OBVIOUS
  <2>1. \A i \in Tasks : file[i].age = -1
    BY ZenonT(30) DEF Init, WithSettings, NoEntry
  <2>2. QED
    BY <2>1 DEF Init, OnRecord
<1>2. TypeOK /\ OnRecord /\ [Next]_vars => OnRecord'
  BY OnRecordStep
<1>3. ASSUME TypeOK, OnRecord, [Next]_vars,
             NEW i \in Tasks, dpc = "sleep", dpc' = "run", i \in todo', ~disturbed
      PROVE  since[i] = -1 \/ since[i] >= file[i].interval
  <2>1. Wake
    BY <1>3 DEF Next, Daemon, Panel, RunTask, PassDone, DaemonTruncate, DaemonFill,
                DaemonWriteFails, Submit, PanelTruncate, PanelFill, PanelWriteFails, Tick,
                KillDaemon, KillPanel, vars, daemonVars
  <2>2. i \in Due(file)
    BY <1>3, <2>1 DEF Wake
  <2>3. \A u \in Handlers : upc[u] # "fill"
    BY <1>3, <2>2 DEF Due, OnRecord
  <2>4. QED
    BY <1>3, <2>2, <2>3 DEF Due, OnRecord, TypeOK
<1>4. TypeOK /\ OnRecord /\ [Next]_vars
        => [\A i \in Tasks : dpc = "sleep" /\ dpc' = "run" /\ i \in todo' /\ ~disturbed
                                => since[i] = -1 \/ since[i] >= file[i].interval]_vars
  BY <1>3
<1>5. QED
  BY <1>1, <1>2, <1>4, RoutinesTypeOK, PTL DEF Spec, NotEarly
=============================================================================
