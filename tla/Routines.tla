------------------------------- MODULE Routines -------------------------------
(***************************************************************************)
(* revpro's scheduler of periodic tasks: the routines daemon, which wakes  *)
(* every minute and runs what is due, and the web UI's handlers that save  *)
(* the panel's settings, each in a goroutine of its own.  All of them read *)
(* routines.json as a whole, change their part and write it as a whole,    *)
(* and nothing locks it.  The daemon holds what it read for as long as the *)
(* tasks of the pass take.                                                 *)
(*                                                                         *)
(* Abstracted: time is counted in ticks; a task's lastRun is its age, -1   *)
(* when it never ran, and ages are counted no further than Cap, which is   *)
(* no shorter than any interval.  A file that cannot be parsed (truncated, *)
(* cut short, or one text followed by the end of a longer one) reads as    *)
(* one without any entry, and an absent entry is the same as a disabled    *)
(* task that never ran.                                                    *)
(***************************************************************************)
EXTENDS Integers

CONSTANTS
    Tasks,      \* the ids, numbered as in the catalogue knownRoutines
    Intervals,  \* the intervals the panel may be filled with
    Cap,        \* bound on the ages
    Handlers,   \* the panel's saves that may be under way at once
    MaxFaults   \* bound on the kills and the failed writes

ASSUME TasksAssumption == Tasks \subseteq Nat
ASSUME IntervalsAssumption == Cap \in Nat /\ Intervals \subseteq 0 .. Cap
ASSUME RoutineFaultsAssumption == MaxFaults \in Nat

Settings == [enabled : BOOLEAN, interval : Intervals \cup {0}]
Entry == [enabled : BOOLEAN, interval : Intervals \cup {0}, age : -1 .. Cap, ok : BOOLEAN]
NoEntry == [enabled |-> FALSE, interval |-> 0, age |-> -1, ok |-> TRUE]

\* Variant of the next definition: the settings take the place of the entry.
WithSettingsAlone(e, s) == s

\* The panel's settings put into an entry: its lastRun and result stay.
WithSettings(e, s) == [e EXCEPT !.enabled = s.enabled, !.interval = s.interval]

VARIABLES
    file,      \* file[i]: task i's entry in routines.json
    blank,     \* whether routines.json was truncated and nothing written since
    dpc,       \* where the daemon is
    dcfg,      \* what the daemon read, with the results so far
    lag,       \* the age of the daemon's now
    todo,      \* the tasks of this pass still to run
    upc,       \* upc[u]: where handler u of the panel is
    ucfg,      \* ucfg[u]: what it is about to write
    since,     \* history: since[i]: age of the last pass that ran i, -1 for none
    faults,    \* how many kills and failed writes there were
    disturbed  \* history: two of them were at work at once, or there was a fault

daemonVars == <<dpc, dcfg, lag, todo>>
panelVars == <<upc, ucfg>>
vars == <<file, blank, daemonVars, panelVars, since, faults, disturbed>>

TypeOK ==
    /\ file \in [Tasks -> Entry] /\ blank \in BOOLEAN
    /\ dpc \in {"sleep", "run", "truncate", "fill"}
    /\ dcfg \in [Tasks -> Entry]
    /\ lag \in 0 .. Cap
    /\ todo \subseteq Tasks
    /\ upc \in [Handlers -> {"idle", "truncate", "fill"}]
    /\ ucfg \in [Handlers -> [Tasks -> Entry]]
    /\ since \in [Tasks -> -1 .. Cap]
    /\ faults \in 0 .. MaxFaults
    /\ disturbed \in BOOLEAN

Empty == [i \in Tasks |-> NoEntry]

Init ==
    /\ \E s \in [Tasks -> Settings] : file = [i \in Tasks |-> WithSettings(NoEntry, s[i])]
    /\ blank = FALSE
    /\ dpc = "sleep" /\ dcfg = Empty /\ lag = 0 /\ todo = {}
    /\ upc = [u \in Handlers |-> "idle"] /\ ucfg = [u \in Handlers |-> Empty]
    /\ since = [i \in Tasks |-> -1]
    /\ faults = 0 /\ disturbed = FALSE

\* os.WriteFile: the file is truncated ...
Truncated == file' = Empty /\ blank' = TRUE

\* ... and filled.  Over a text another writer put there in between, a shorter
\* one keeps the end of the longer, and the file cannot be parsed.
Filled(cfg) ==
    /\ \/ file' = cfg
       \/ ~blank /\ file' = Empty
    /\ blank' = FALSE

\* The write fails, before it wrote anything or half-way.
CutShort ==
    \/ UNCHANGED <<file, blank>>
    \/ file' = Empty /\ blank' = FALSE

Fault ==
    /\ faults < MaxFaults
    /\ faults' = faults + 1
    /\ disturbed' = TRUE

\* Variant of the next definition: a task that failed is not run again.
DueUnlessFailed(cfg) ==
    {i \in Tasks : /\ cfg[i].enabled /\ cfg[i].interval > 0 /\ cfg[i].ok
                   /\ cfg[i].age = -1 \/ cfg[i].age >= cfg[i].interval}

\* dueRoutineIDs.
Due(cfg) ==
    {i \in Tasks : /\ cfg[i].enabled /\ cfg[i].interval > 0
                   /\ cfg[i].age = -1 \/ cfg[i].age >= cfg[i].interval}

(***************************************************************************)
(* The daemon.                                                             *)
(***************************************************************************)

\* A pass that finds nothing due writes nothing, and is left out.
Wake ==
    /\ dpc = "sleep" /\ Due(file) # {}
    /\ dpc' = "run"
    /\ dcfg' = file /\ todo' = Due(file) /\ lag' = 0
    /\ disturbed' = (disturbed \/ \E u \in Handlers : upc[u] # "idle")
    /\ UNCHANGED <<file, blank, panelVars, since, faults>>

NextTask == CHOOSE i \in todo : \A j \in todo : i <= j

\* Variant of the next definition: lastRun is not recorded.
RunTaskUnrecorded(ok) ==
    /\ dpc = "run" /\ todo # {}
    /\ dcfg' = [dcfg EXCEPT ![NextTask].ok = ok]
    /\ todo' = todo \ {NextTask}
    /\ since' = [since EXCEPT ![NextTask] = lag]
    /\ UNCHANGED <<file, blank, dpc, lag, panelVars, faults, disturbed>>

\* A task has run, for as long as it took: its lastRun is when the pass began.
RunTask(ok) ==
    /\ dpc = "run" /\ todo # {}
    /\ dcfg' = [dcfg EXCEPT ![NextTask].age = lag, ![NextTask].ok = ok]
    /\ todo' = todo \ {NextTask}
    /\ since' = [since EXCEPT ![NextTask] = lag]
    /\ UNCHANGED <<file, blank, dpc, lag, panelVars, faults, disturbed>>

PassDone ==
    /\ dpc = "run" /\ todo = {}
    /\ dpc' = "truncate"
    /\ UNCHANGED <<file, blank, dcfg, lag, todo, panelVars, since, faults, disturbed>>

DaemonTruncate ==
    /\ dpc = "truncate"
    /\ Truncated
    /\ dpc' = "fill"
    /\ UNCHANGED <<dcfg, lag, todo, panelVars, since, faults, disturbed>>

DaemonFill ==
    /\ dpc = "fill"
    /\ Filled(dcfg)
    /\ dpc' = "sleep" /\ dcfg' = Empty /\ lag' = 0
    /\ UNCHANGED <<todo, panelVars, since, faults, disturbed>>

\* The daemon only warns; what the pass did is on record nowhere.
DaemonWriteFails ==
    /\ dpc \in {"truncate", "fill"}
    /\ \/ dpc = "fill" /\ CutShort
       \/ UNCHANGED <<file, blank>>
    /\ dpc' = "sleep" /\ dcfg' = Empty /\ lag' = 0
    /\ Fault
    /\ UNCHANGED <<todo, panelVars, since>>

(***************************************************************************)
(* The panel: the form holds every task's settings; the handler reads the  *)
(* file, puts them in and writes it.                                       *)
(***************************************************************************)

Submit(u, s) ==
    /\ upc[u] = "idle"
    /\ ucfg' = [ucfg EXCEPT ![u] = [i \in Tasks |-> WithSettings(file[i], s[i])]]
    /\ upc' = [upc EXCEPT ![u] = "truncate"]
    /\ disturbed' = (disturbed \/ dpc # "sleep" \/ \E w \in Handlers : upc[w] # "idle")
    /\ UNCHANGED <<file, blank, daemonVars, since, faults>>

PanelTruncate(u) ==
    /\ upc[u] = "truncate"
    /\ Truncated
    /\ upc' = [upc EXCEPT ![u] = "fill"]
    /\ UNCHANGED <<daemonVars, ucfg, since, faults, disturbed>>

HandlerEnds(u) ==
    /\ upc' = [upc EXCEPT ![u] = "idle"]
    /\ ucfg' = [ucfg EXCEPT ![u] = Empty]

PanelFill(u) ==
    /\ upc[u] = "fill"
    /\ Filled(ucfg[u])
    /\ HandlerEnds(u)
    /\ UNCHANGED <<daemonVars, since, faults, disturbed>>

\* The browser is told of it.
PanelWriteFails(u) ==
    /\ upc[u] # "idle"
    /\ \/ upc[u] = "fill" /\ CutShort
       \/ UNCHANGED <<file, blank>>
    /\ HandlerEnds(u)
    /\ Fault
    /\ UNCHANGED <<daemonVars, since>>

(***************************************************************************)
(* Time and kills.                                                         *)
(***************************************************************************)

Older(n) == IF n = -1 \/ n = Cap THEN n ELSE n + 1
AllOlder(cfg) == [i \in Tasks |-> [cfg[i] EXCEPT !.age = Older(@)]]

Tick ==
    /\ file' = AllOlder(file) /\ dcfg' = AllOlder(dcfg)
    /\ ucfg' = [u \in Handlers |-> AllOlder(ucfg[u])]
    /\ lag' = IF dpc = "sleep" THEN 0 ELSE Older(lag)
    /\ since' = [i \in Tasks |-> Older(since[i])]
    /\ UNCHANGED <<blank, dpc, todo, upc, faults, disturbed>>

\* The daemon is started again (Restart=always), knowing only the file.
KillDaemon ==
    /\ dpc # "sleep"
    /\ dpc' = "sleep" /\ dcfg' = Empty /\ lag' = 0 /\ todo' = {}
    /\ Fault
    /\ UNCHANGED <<file, blank, panelVars, since>>

\* The web server is killed, with all it had under way.
KillPanel ==
    /\ \E u \in Handlers : upc[u] # "idle"
    /\ upc' = [u \in Handlers |-> "idle"] /\ ucfg' = [u \in Handlers |-> Empty]
    /\ Fault
    /\ UNCHANGED <<file, blank, daemonVars, since>>

Daemon == Wake \/ (\E ok \in BOOLEAN : RunTask(ok)) \/ PassDone \/ DaemonTruncate \/ DaemonFill

Panel(u) ==
    \/ \E s \in [Tasks -> Settings] : Submit(u, s)
    \/ PanelTruncate(u) \/ PanelFill(u) \/ PanelWriteFails(u)

Next ==
    \/ Daemon \/ DaemonWriteFails
    \/ \E u \in Handlers : Panel(u)
    \/ Tick \/ KillDaemon \/ KillPanel

Spec == Init /\ [][Next]_vars

(***************************************************************************)
(* Properties.                                                             *)
(***************************************************************************)

\* A pass does not run a task again before its interval is over, although it
\* decides on times written down by an earlier pass, maybe long after that one
\* had begun, and by the panel's saves in between.  (A save that overlaps a pass
\* or another save may put an entry without its lastRun back, a kill or a failed
\* write loses it, and then a task may run early.)
NotEarly ==
    [][\A i \in Tasks : dpc = "sleep" /\ dpc' = "run" /\ i \in todo' /\ ~disturbed
                            => since[i] = -1 \/ since[i] >= file[i].interval]_vars

\* A task that is enabled, with an interval, from some moment on is run again
\* and again, however often it fails, once the panel is left alone.
On(i) == file[i].enabled /\ file[i].interval > 0
RunsAgain ==
    \A i \in Tasks :
        <>[]((\A u \in Handlers : upc[u] = "idle") /\ (dpc = "fill" \/ On(i)))
            => []<>(dpc = "run" /\ todo # {} /\ i = NextTask)

(***************************************************************************)
(* Fairness.  Time passes; the daemon runs on and its tasks end (they have *)
(* no time limit: one that hangs stops the schedule).                      *)
(***************************************************************************)
FairSpec == Spec /\ WF_vars(Tick) /\ WF_vars(Daemon)
=============================================================================
