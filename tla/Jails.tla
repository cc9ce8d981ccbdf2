-------------------------------- MODULE Jails --------------------------------
(***************************************************************************)
(* fail2ban setup (fail2ban.go, f2bSetup) and the setting it renders into  *)
(* jail.local, the host of the error page (web.go,                         *)
(* handleF2BErrorHostSave).  A setup installs fail2ban if there is none,   *)
(* writes jail.local and restarts the service; it is a streamed command    *)
(* that ends with its request, and a command that a person may run as      *)
(* well.  Of jail.local only the host is told apart; the action and filter *)
(* files a setup writes before it are the same every time.                 *)
(***************************************************************************)
EXTENDS Naturals, FiniteSets

CONSTANTS Setups,              \* setups that may be at work at once
          Hosts,               \* values of REVPRO_F2B_ERROR_HOST, unset among them
          MaxSetups, MaxSaves  \* bounds

ASSUME JailsAssumption == MaxSetups \in Nat /\ MaxSaves \in Nat

VARIABLES errorHost,  \* REVPRO_F2B_ERROR_HOST, a set of at most one host
          installed,  \* f2bAvailable
          jailLocal,  \* jail.local: its host, as errorHost, or NoFile, HalfFile
          running,    \* what the service was last started with
          setup,      \* setup[p]: what p has under way
          begunSetups, saves,
          cutShort    \* history: a setup ended early and left the file unapplied

jailVars == <<errorHost, installed, jailLocal, running, setup, begunSetups, saves,
              cutShort>>

NoFile == [file |-> "none", host |-> {}]
HalfFile == [file |-> "empty", host |-> {}]
JailLocal(host) == [file |-> "whole", host |-> host]

NoSetup == [at |-> "idle", host |-> {}]
SetupAt(p, l) == setup[p].at = l
SetupTo(p, l) == setup' = [setup EXCEPT ![p].at = l]

JailInit ==
    /\ errorHost = {} /\ installed = FALSE
    /\ jailLocal = NoFile /\ running = NoFile
    /\ setup = [p \in Setups |-> NoSetup]
    /\ begunSetups = 0 /\ saves = 0 /\ cutShort = FALSE

\* handleF2BErrorHostSave: the setting alone; jail.local has it after a setup.
SaveErrorHost ==
    /\ saves < MaxSaves
    /\ saves' = saves + 1
    /\ \E host \in {{}} \cup {{h} : h \in Hosts} :
          errorHost' = host /\ host # errorHost
    /\ UNCHANGED <<installed, jailLocal, running, setup, begunSetups, cutShort>>

\* f2bSetup: apt-get installs fail2ban, unless it is there, and starts it; then
\* the setting is read.
BeginSetup(p) ==
    /\ SetupAt(p, "idle") /\ begunSetups < MaxSetups
    /\ begunSetups' = begunSetups + 1
    /\ SetupTo(p, IF installed THEN "read" ELSE "install")
    /\ UNCHANGED <<errorHost, installed, jailLocal, running, saves, cutShort>>

Install(p) ==
    /\ SetupAt(p, "install")
    /\ installed' = TRUE
    /\ running' = IF installed THEN running ELSE jailLocal
    /\ SetupTo(p, "read")
    /\ UNCHANGED <<errorHost, jailLocal, begunSetups, saves, cutShort>>

ReadErrorHost(p) ==
    /\ SetupAt(p, "read")
    /\ setup' = [setup EXCEPT ![p] = [at |-> "truncate", host |-> errorHost]]
    /\ UNCHANGED <<errorHost, installed, jailLocal, running, begunSetups, saves, cutShort>>

TruncateJails(p) ==
    /\ SetupAt(p, "truncate")
    /\ jailLocal' = HalfFile
    /\ SetupTo(p, "fill")
    /\ UNCHANGED <<errorHost, installed, running, begunSetups, saves, cutShort>>

FillJails(p) ==
    /\ SetupAt(p, "fill")
    /\ jailLocal' = JailLocal(setup[p].host)
    /\ SetupTo(p, "restart")
    /\ UNCHANGED <<errorHost, installed, running, begunSetups, saves, cutShort>>

\* Variant of the next definition: "enable --now" alone, which leaves a service
\* that runs as it is.
RestartJailsNow(p) ==
    /\ SetupAt(p, "restart")
    /\ running' = IF running.file = "none" THEN jailLocal ELSE running
    /\ cutShort' = FALSE
    /\ setup' = [setup EXCEPT ![p] = NoSetup]
    /\ UNCHANGED <<errorHost, installed, jailLocal, begunSetups, saves>>
\* "enable --now" and "restart".
RestartJails(p) ==
    /\ SetupAt(p, "restart")
    /\ running' = jailLocal
    /\ cutShort' = FALSE
    /\ setup' = [setup EXCEPT ![p] = NoSetup]
    /\ UNCHANGED <<errorHost, installed, jailLocal, begunSetups, saves>>

\* apt-get, a write or systemctl fails, or the process is killed.
SetupEnds(p) ==
    /\ ~SetupAt(p, "idle")
    /\ cutShort' = (cutShort \/ setup[p].at \in {"fill", "restart"})
    /\ setup' = [setup EXCEPT ![p] = NoSetup]
    /\ UNCHANGED <<errorHost, installed, jailLocal, running, begunSetups, saves>>

\* The machine is restarted, or the service by hand.
ServiceRestart ==
    /\ installed
    /\ running' = jailLocal /\ cutShort' = FALSE
    /\ UNCHANGED <<errorHost, installed, jailLocal, setup, begunSetups, saves>>

JailNext ==
    \/ SaveErrorHost \/ ServiceRestart
    \/ \E p \in Setups :
          \/ BeginSetup(p) \/ Install(p) \/ ReadErrorHost(p) \/ TruncateJails(p)
          \/ FillJails(p) \/ RestartJails(p) \/ SetupEnds(p)

JailSpec == JailInit /\ [][JailNext]_jailVars

----------------------------------------------------------------------------
\* fail2ban runs with what jail.local says, though two setups write it at once,
\* unless a setup is on its way to the restart or ended before it
\* (fail2ban.go 344-365).
JailsApplied ==
    \/ running = jailLocal \/ cutShort
    \/ \E p \in Setups : setup[p].at \in {"fill", "restart"}
=============================================================================
