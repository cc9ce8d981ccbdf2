------------------------------- MODULE Deploy -------------------------------
(***************************************************************************)
(* The certificate and configuration pipeline of revpro: the commands that *)
(* read the routing table (sites.conf), issue certificates, write conf/    *)
(* and tell nginx to load it.                                              *)
(*                                                                         *)
(* A process is one running revpro command: the `renew --daemon' loop, a   *)
(* routine's subprocess, or a command streamed by the web UI or typed by   *)
(* the operator.  They share only the file system and nginx, there is no   *)
(* lock between them, and every file access is a step of its own; a file   *)
(* is truncated by one step and filled by the next.                        *)
(*                                                                         *)
(* Abstracted: a site is a number (its file's rank in directory order, the *)
(* order os.ReadDir lists it), a generated file is its site, a certificate *)
(* file is the number of the issuance it comes from (0: no such file;      *)
(* Empty: truncated), and the days left on a certificate are whether it is *)
(* inside the renewal window.                                              *)
(***************************************************************************)
EXTENDS Integers, FiniteSets

CONSTANTS
    Sites,       \* the fqdns, numbered in directory order
    Certs,       \* the certificate names
    CertOf,      \* CertOf[s]: the certificate name site s resolves to
    Registered,  \* the certificates of registered wildcards and manual configs
    Procs,       \* the processes
    Commands,    \* Commands[p]: the commands process p may run
    MaxVersion,  \* bound on the issuances of one certificate
    Faults       \* TRUE: kills, failed writes and a broken sites.conf happen

Issuing == {"renew", "issue", "force"}
Command == Issuing \cup {"regenerate", "generate", "clean", "reload",
                         "restart", "add", "edit"}
CertFile == {"crt", "key", "iss"}
Empty == -1

ASSUME SitesAssumption == Sites \subseteq Nat
ASSUME CertOfAssumption == CertOf \in [Sites -> Certs]
ASSUME RegisteredAssumption == Registered \subseteq Certs
ASSUME CommandsAssumption == Commands \in [Procs -> SUBSET Command]
ASSUME VersionAssumption == MaxVersion \in Nat
ASSUME FaultsAssumption == Faults \in BOOLEAN

VARIABLES
    table,   \* the sites of sites.conf
    valid,   \* whether sites.conf parses
    conf,    \* the sites with a generated file in conf/
    blank,   \* those whose file is empty
    disk,    \* disk[c][f]: the issuance file f of certificate c comes from
    due,     \* the certificates inside the renewal window
    issued,  \* issued[c]: how often the CA has issued c
    up,      \* whether the nginx container runs
    run,     \* run[s]: the issuance of s's certificate nginx loaded, 0 if s is not served
    pc,      \* pc[p]: where process p is in its command
    cmd,     \* cmd[p]: that command
    jobs,    \* jobs[p]: certificates its pass, or its generate, has still to look at
    writes,  \* writes[p]: <<c, f, v>> files it has still to write
    got,     \* got[p]: whether its pass has renewed anything (renewed > 0)
    queue,   \* queue[p]: the sites it has still to remove, generate or add
    missing, \* missing[p]: the certificate names its generate found absent
    open,    \* open[p]: the site whose file it has truncated, if the file is still there
    seen,    \* history: seen[p]: the names it looked for
    swept,   \* history: some process has emptied conf/
    blind    \* history: the sites whose file was written without looking for the certificate

certVars  == <<disk, due, issued>>
nginxVars == <<up, run>>
passVars  == <<jobs, writes, got>>
genVars   == <<queue, missing, open, seen>>
history   == <<swept, blind>>
vars == <<table, valid, conf, blank, certVars, nginxVars, pc, cmd, passVars, genVars, history>>

\* pc[p] is a certificate file's name while p has truncated that file.
Label == {"idle", "jobs", "write", "list", "purge", "check", "probe", "gen",
          "append", "genone", "fill", "reload", "restart"} \cup CertFile

TypeOK ==
    /\ table \subseteq Sites /\ valid \in BOOLEAN /\ conf \subseteq Sites /\ blank \subseteq conf
    /\ disk \in [Certs -> [CertFile -> Nat \cup {Empty}]]
    /\ due \subseteq Certs
    /\ issued \in [Certs -> Nat]
    /\ up \in BOOLEAN
    /\ run \in [Sites -> Nat]
    /\ pc \in [Procs -> Label]
    /\ cmd \in [Procs -> Command]
    /\ jobs \in [Procs -> SUBSET Certs]
    /\ writes \in [Procs -> SUBSET (Certs \X CertFile \X Nat)]
    /\ got \in [Procs -> BOOLEAN]
    /\ queue \in [Procs -> SUBSET Sites]
    /\ open \in [Procs -> SUBSET Sites]
    /\ missing \in [Procs -> SUBSET Certs] /\ seen \in [Procs -> SUBSET Certs]
    /\ swept \in BOOLEAN /\ blind \subseteq Sites

\* daysUntilExpiry looks at the .crt alone, and finds an empty one missing.
Present(c) == disk[c]["crt"] > 0
Fresh(c) == Present(c) /\ c \notin due

\* What nginx -t accepts: every file a server block names holds something, the
\* private key belonging to the certificate (obtain makes a new key each time).
\* A file of conf/ that is empty has no server block.
Loadable ==
    \A s \in conf \ blank :
        /\ \A f \in CertFile : disk[CertOf[s]][f] > 0
        /\ disk[CertOf[s]]["crt"] = disk[CertOf[s]]["key"]

\* Variant of the next definition: the map lists the generated sites alone.
LoadedSitesOnly == [s \in conf \ blank |-> disk[CertOf[s]]["crt"]]

\* What nginx holds in memory after it has loaded the files as they are now.
Loaded == [s \in Sites |-> IF s \in conf \ blank THEN disk[CertOf[s]]["crt"] ELSE 0]

\* certSites: the certificates of the sites, and those registered.  (A name that
\* is both makes two jobs of a pass there; the second skips what the first renewed.)
CertNames == {CertOf[s] : s \in table} \cup Registered

Quiescent == \A p \in Procs : pc[p] = "idle"

(***************************************************************************)
(* Initially nothing runs.  Some certificates exist, complete.  conf/ may  *)
(* hold files of sites that are no longer in the table (edit-site leaves   *)
(* them) but none that nginx could not load, and nginx has loaded it.      *)
(***************************************************************************)
Init ==
    /\ table \in SUBSET Sites
    /\ valid = TRUE
    /\ \E have \in SUBSET Certs :
        /\ issued = [c \in Certs |-> IF c \in have THEN 1 ELSE 0]
        /\ disk = [c \in Certs |-> [f \in CertFile |-> IF c \in have THEN 1 ELSE 0]]
        /\ due \in SUBSET have
        /\ conf \in SUBSET {s \in Sites : CertOf[s] \in have}
    /\ blank = {}
    /\ up = TRUE
    /\ run = Loaded
    /\ pc = [p \in Procs |-> "idle"]
    /\ cmd = [p \in Procs |-> "reload"]
    /\ jobs = [p \in Procs |-> {}]
    /\ writes = [p \in Procs |-> {}]
    /\ got = [p \in Procs |-> FALSE]
    /\ queue = [p \in Procs |-> {}] /\ open = [p \in Procs |-> {}]
    /\ missing = [p \in Procs |-> {}] /\ seen = [p \in Procs |-> {}]
    /\ swept = FALSE /\ blind = {}

Goto(p, l) == pc' = [pc EXCEPT ![p] = l]

\* The process ends: whatever it knew is gone, and a file it had truncated stays empty.
Exit(p) ==
    /\ Goto(p, "idle")
    /\ cmd' = [cmd EXCEPT ![p] = "reload"]
    /\ jobs' = [jobs EXCEPT ![p] = {}]
    /\ writes' = [writes EXCEPT ![p] = {}]
    /\ got' = [got EXCEPT ![p] = FALSE]
    /\ queue' = [queue EXCEPT ![p] = {}]
    /\ open' = [open EXCEPT ![p] = {}]
    /\ missing' = [missing EXCEPT ![p] = {}]
    /\ seen' = [seen EXCEPT ![p] = {}]

Begin(p, k, first) ==
    /\ pc[p] = "idle"
    /\ k \in Commands[p]
    /\ cmd' = [cmd EXCEPT ![p] = k]
    /\ Goto(p, first)

(***************************************************************************)
(* issue and renew: one pass over the certificates.                        *)
(***************************************************************************)

\* certSites: the pass works on the table as it is when the pass begins;
\* `issue <cert...>' keeps only the named ones.
BeginPass(p, k, want) ==
    /\ k \in Issuing
    /\ k = "renew" => want = Certs
    /\ valid
    /\ Begin(p, k, "jobs")
    /\ jobs' = [jobs EXCEPT ![p] = CertNames \cap want]
    /\ UNCHANGED <<table, valid, conf, blank, certVars, nginxVars, writes, got, genVars, history>>

JobSkip(p, c) ==
    /\ pc[p] = "jobs" /\ c \in jobs[p]
    /\ cmd[p] # "force" /\ Fresh(c)
    /\ jobs' = [jobs EXCEPT ![p] = @ \ {c}]
    /\ UNCHANGED <<table, valid, conf, blank, certVars, nginxVars, pc, cmd, writes, got, genVars, history>>

\* The CA issues; nothing is on disk yet.
JobObtain(p, c) ==
    /\ pc[p] = "jobs" /\ c \in jobs[p]
    /\ cmd[p] = "force" \/ ~Fresh(c)
    /\ issued[c] < MaxVersion
    /\ issued' = [issued EXCEPT ![c] = @ + 1]
    /\ jobs' = [jobs EXCEPT ![p] = @ \ {c}]
    /\ writes' = [writes EXCEPT ![p] = {c} \X CertFile \X {issued[c] + 1}]
    /\ Goto(p, "write")
    /\ UNCHANGED <<table, valid, conf, blank, disk, due, nginxVars, cmd, got, genVars, history>>

\* The CA refuses or cannot be reached: counted as failed, on to the next.
JobFail(p, c) ==
    /\ pc[p] = "jobs" /\ c \in jobs[p]
    /\ cmd[p] = "force" \/ ~Fresh(c)
    /\ jobs' = [jobs EXCEPT ![p] = @ \ {c}]
    /\ UNCHANGED <<table, valid, conf, blank, certVars, nginxVars, pc, cmd, writes, got, genVars, history>>

\* writeCert ranges over a Go map: the three files go out in any order, each by
\* os.WriteFile, which truncates the file (an empty part is skipped: the CA sends
\* all three) ...
TruncateFile(p) ==
    /\ pc[p] = "write"
    /\ \E w \in writes[p] :
        /\ disk' = [disk EXCEPT ![w[1]][w[2]] = Empty]
        /\ Goto(p, w[2])
    /\ UNCHANGED <<table, valid, conf, blank, due, issued, nginxVars, cmd, passVars, genVars, history>>

\* ... and fills it.
FillFile(p) ==
    /\ pc[p] \in CertFile
    /\ \E w \in writes[p] :
        /\ w[2] = pc[p]
        /\ disk' = [disk EXCEPT ![w[1]][w[2]] = w[3]]
        /\ due' = IF w[2] = "crt" THEN due \ {w[1]} ELSE due
        /\ writes' = [writes EXCEPT ![p] = @ \ {w}]
    /\ Goto(p, "write")
    /\ UNCHANGED <<table, valid, conf, blank, issued, nginxVars, cmd, jobs, got, genVars, history>>

WriteDone(p) ==
    /\ pc[p] = "write" /\ writes[p] = {}
    /\ got' = [got EXCEPT ![p] = TRUE]
    /\ Goto(p, "jobs")
    /\ UNCHANGED <<table, valid, conf, blank, certVars, nginxVars, cmd, jobs, writes, genVars, history>>

\* os.WriteFile fails, before or after it has truncated the file: writeCert
\* gives up on the files it has not reached.
WriteFail(p) ==
    /\ Faults
    /\ pc[p] \in {"write"} \cup CertFile /\ writes[p] # {}
    /\ writes' = [writes EXCEPT ![p] = {}]
    /\ Goto(p, "jobs")
    /\ UNCHANGED <<table, valid, conf, blank, certVars, nginxVars, cmd, jobs, got, genVars, history>>

\* Variant of the next definition: renew ends with the pass.
PassOnly(p) ==
    /\ pc[p] = "jobs" /\ jobs[p] = {}
    /\ Exit(p)
    /\ UNCHANGED <<table, valid, conf, blank, certVars, nginxVars, history>>

\* renew goes on to clean, generate and reload only if it renewed something;
\* issue ends here.
PassDone(p) ==
    /\ pc[p] = "jobs" /\ jobs[p] = {}
    /\ \/ /\ cmd[p] = "renew" /\ got[p]
          /\ Goto(p, "list")
          /\ UNCHANGED <<cmd, passVars, genVars>>
       \/ /\ cmd[p] # "renew" \/ ~got[p]
          /\ Exit(p)
    /\ UNCHANGED <<table, valid, conf, blank, certVars, nginxVars, history>>

(***************************************************************************)
(* clean, generate, reload, restart.                                       *)
(***************************************************************************)

BeginPlain(p) ==
    /\ \/ Begin(p, "regenerate", "list")
       \/ Begin(p, "clean", "list")
       \/ Begin(p, "generate", "check")
       \/ Begin(p, "reload", "reload")
       \/ Begin(p, "restart", "restart")
    /\ UNCHANGED <<table, valid, conf, blank, certVars, nginxVars, passVars, genVars, history>>

\* Variant of the next definition: the files of known sites alone are removed.
ListKnown(p) ==
    /\ pc[p] = "list"
    /\ queue' = [queue EXCEPT ![p] = conf \cap table]
    /\ Goto(p, "purge")
    /\ UNCHANGED <<table, valid, conf, blank, certVars, nginxVars, cmd, passVars, missing, open, seen, history>>

\* purgeContents: os.ReadDir first ...
ListDir(p) ==
    /\ pc[p] = "list"
    /\ queue' = [queue EXCEPT ![p] = conf]
    /\ Goto(p, "purge")
    /\ UNCHANGED <<table, valid, conf, blank, certVars, nginxVars, cmd, passVars, missing, open, seen, history>>

\* The entry a purge removes next.
NextEntry(entries) == CHOOSE s \in entries : \A t \in entries : s <= t

\* ... then one os.Remove per entry, in the order listed.  What a process that has
\* the file open writes into it afterwards is in no file.
PurgeOne(p) ==
    /\ pc[p] = "purge" /\ queue[p] # {}
    /\ LET s == NextEntry(queue[p]) IN
        /\ s \in conf
        /\ conf' = conf \ {s} /\ blank' = blank \ {s}
        /\ open' = [q \in Procs |-> open[q] \ {s}]
        /\ blind' = blind \ {s}
        /\ queue' = [queue EXCEPT ![p] = @ \ {s}]
    /\ UNCHANGED <<table, valid, certVars, nginxVars, pc, cmd, passVars, missing, seen, swept>>

\* An entry that is gone already makes purgeContents return the error: clean
\* warns and goes on, with whatever was left unremoved.
PurgeAbort(p) ==
    /\ pc[p] = "purge" /\ queue[p] # {}
    /\ NextEntry(queue[p]) \notin conf
    /\ queue' = [queue EXCEPT ![p] = {}]
    /\ UNCHANGED <<table, valid, conf, blank, certVars, nginxVars, pc, cmd, passVars, missing, open, seen, history>>

PurgeDone(p) ==
    /\ pc[p] = "purge" /\ queue[p] = {}
    /\ swept' = TRUE
    /\ \/ cmd[p] = "clean" /\ Exit(p)
       \/ /\ cmd[p] # "clean"
          /\ Goto(p, "check")
          /\ UNCHANGED <<cmd, passVars, genVars>>
    /\ UNCHANGED <<table, valid, conf, blank, certVars, nginxVars, blind>>

\* certFilesMissing reads sites.conf ...
Check(p) ==
    /\ pc[p] = "check" /\ valid
    /\ jobs' = [jobs EXCEPT ![p] = CertNames]
    /\ missing' = [missing EXCEPT ![p] = {}] /\ seen' = [seen EXCEPT ![p] = {}]
    /\ Goto(p, "probe")
    /\ UNCHANGED <<table, valid, conf, blank, certVars, nginxVars, cmd, writes, got, queue, open, history>>

\* ... and probes .crt after .crt ...
Probe(p, c) ==
    /\ pc[p] = "probe" /\ c \in jobs[p]
    /\ jobs' = [jobs EXCEPT ![p] = @ \ {c}]
    /\ seen' = [seen EXCEPT ![p] = @ \cup {c}]
    /\ missing' = [missing EXCEPT ![p] = IF Present(c) THEN @ ELSE @ \cup {c}]
    /\ UNCHANGED <<table, valid, conf, blank, certVars, nginxVars, pc, cmd, writes, got, queue, open, history>>

\* ... and mustSites reads sites.conf again.
Parse(p) ==
    /\ pc[p] = "probe" /\ jobs[p] = {} /\ valid
    /\ queue' = [queue EXCEPT ![p] = table]
    /\ Goto(p, "gen")
    /\ UNCHANGED <<table, valid, conf, blank, certVars, nginxVars, cmd, passVars, missing, open, seen, history>>

\* mustSites exits the process when sites.conf does not parse.
ParseFail(p) ==
    /\ pc[p] \in {"check", "probe", "genone"} /\ ~valid
    /\ jobs[p] = {}
    /\ Exit(p)
    /\ UNCHANGED <<table, valid, conf, blank, certVars, nginxVars, history>>

\* Variant of the next definition: no site is skipped.
EmitsAll(p, s) == TRUE

\* A site whose certificate was found missing is skipped with a warning.
Emits(p, s) == CertOf[s] \notin missing[p]

\* generateOne: os.WriteFile truncates conf/<fqdn>.conf, or makes it, empty ...
GenerateOne(p, s) ==
    /\ pc[p] = "gen" /\ s \in queue[p]
    /\ queue' = [queue EXCEPT ![p] = @ \ {s}]
    /\ \/ /\ Emits(p, s)
          /\ conf' = conf \cup {s} /\ blank' = blank \cup {s}
          /\ open' = [open EXCEPT ![p] = {s}]
          /\ Goto(p, "fill")
          /\ blind' = IF CertOf[s] \in seen[p] THEN blind \ {s} ELSE blind \cup {s}
       \/ /\ ~Emits(p, s)
          /\ UNCHANGED <<conf, blank, open, pc, blind>>
    /\ UNCHANGED <<table, valid, certVars, nginxVars, cmd, passVars, missing, seen, swept>>

\* ... and fills it.  add and edit-site write one file, and go on to the reload.
FillConf(p) ==
    /\ pc[p] = "fill"
    /\ blank' = blank \ open[p]
    /\ open' = [open EXCEPT ![p] = {}]
    /\ Goto(p, IF cmd[p] \in {"add", "edit"} THEN "reload" ELSE "gen")
    /\ UNCHANGED <<table, valid, conf, certVars, nginxVars, cmd, passVars, queue, missing, seen, history>>

\* Variant of the next definition: renew ends without a reload.
GenerateNoReload(p) ==
    /\ pc[p] = "gen" /\ queue[p] = {}
    /\ \/ cmd[p] # "regenerate" /\ Exit(p)
       \/ /\ cmd[p] = "regenerate"
          /\ Goto(p, "reload")
          /\ UNCHANGED <<cmd, passVars, genVars>>
    /\ UNCHANGED <<table, valid, conf, blank, certVars, nginxVars, history>>

GenerateDone(p) ==
    /\ pc[p] = "gen" /\ queue[p] = {}
    /\ \/ cmd[p] = "generate" /\ Exit(p)
       \/ /\ cmd[p] # "generate"
          /\ Goto(p, "reload")
          /\ UNCHANGED <<cmd, passVars, genVars>>
    /\ UNCHANGED <<table, valid, conf, blank, certVars, nginxVars, history>>

\* nginx -t, then nginx -s reload.  A configuration that does not load, or a
\* container that is down, leaves nginx as it was; the command only warns.
Reload(p) ==
    /\ pc[p] = "reload"
    /\ run' = IF up /\ Loadable THEN Loaded ELSE run
    /\ Exit(p)
    /\ UNCHANGED <<table, valid, conf, blank, certVars, up, history>>

\* docker container restart: nginx starts from the files, or does not start.
Restart(p) ==
    /\ pc[p] = "restart"
    /\ up' = Loadable
    /\ run' = IF Loadable THEN Loaded ELSE [s \in Sites |-> 0]
    /\ Exit(p)
    /\ UNCHANGED <<table, valid, conf, blank, certVars, history>>

\* The container's policy is `restart: unless-stopped'.
DockerRetry ==
    /\ ~up /\ Loadable
    /\ up' = TRUE
    /\ run' = Loaded
    /\ UNCHANGED <<table, valid, conf, blank, certVars, pc, cmd, passVars, genVars, history>>

(***************************************************************************)
(* add and edit-site: change one site's line, generate that site, reload.  *)
(***************************************************************************)

BeginAdd(p, s) ==
    /\ Begin(p, "add", "append")
    /\ queue' = [queue EXCEPT ![p] = {s}]
    /\ UNCHANGED <<table, valid, conf, blank, certVars, nginxVars, passVars, missing, open, seen, history>>

\* removeSiteLine(old), then add(new).
BeginEdit(p, old, new) ==
    /\ valid /\ old \in table
    /\ Begin(p, "edit", "append")
    /\ table' = table \ {old}
    /\ queue' = [queue EXCEPT ![p] = {new}]
    /\ UNCHANGED <<valid, conf, blank, certVars, nginxVars, passVars, missing, open, seen, history>>

AppendLine(p) ==
    /\ pc[p] = "append"
    /\ table' = table \cup queue[p]
    /\ Goto(p, "genone")
    /\ UNCHANGED <<valid, conf, blank, certVars, nginxVars, cmd, passVars, genVars, history>>

\* mustSites, then generateOne of the site just added: no certificate check.
GenerateAdded(p) ==
    /\ pc[p] = "genone" /\ valid
    /\ LET W == queue[p] \cap table IN
        /\ conf' = conf \cup W /\ blank' = blank \cup W
        /\ open' = [open EXCEPT ![p] = W]
        /\ blind' = blind \cup W
    /\ Goto(p, "fill")
    /\ UNCHANGED <<table, valid, certVars, nginxVars, cmd, passVars, queue, missing, seen, swept>>

(***************************************************************************)
(* The environment: time, kills, and a hand edit that breaks sites.conf.   *)
(***************************************************************************)

\* A certificate comes within REVPRO_RENEW_DAYS of its expiry.
Tick(c) ==
    /\ Fresh(c) /\ issued[c] < MaxVersion
    /\ due' = due \cup {c}
    /\ UNCHANGED <<table, valid, conf, blank, disk, issued, nginxVars, pc, cmd, passVars, genVars, history>>

\* The browser goes away, the action times out, the host reboots; or a file of conf/
\* cannot be written, with which generateOne ends the process.
Kill(p) ==
    /\ Faults /\ pc[p] # "idle"
    /\ Exit(p)
    /\ UNCHANGED <<table, valid, conf, blank, certVars, nginxVars, history>>

HandEdit ==
    /\ Faults
    /\ valid' = ~valid
    /\ UNCHANGED <<table, conf, blank, certVars, nginxVars, pc, cmd, passVars, genVars, history>>

Work(p) ==
    \/ \E c \in Certs : JobSkip(p, c) \/ JobObtain(p, c) \/ JobFail(p, c)
    \/ TruncateFile(p) \/ FillFile(p) \/ WriteDone(p) \/ PassDone(p)
    \/ ListDir(p) \/ PurgeOne(p) \/ PurgeAbort(p) \/ PurgeDone(p)
    \/ Check(p) \/ (\E c \in Certs : Probe(p, c)) \/ Parse(p) \/ ParseFail(p)
    \/ \E s \in Sites : GenerateOne(p, s)
    \/ FillConf(p) \/ GenerateDone(p) \/ Reload(p) \/ Restart(p)
    \/ AppendLine(p) \/ GenerateAdded(p)

Start(p) ==
    \/ \E k \in Issuing, want \in SUBSET Certs : BeginPass(p, k, want)
    \/ BeginPlain(p)
    \/ \E s \in Sites : BeginAdd(p, s)
    \/ \E old, new \in Sites : BeginEdit(p, old, new)

Environment ==
    \/ \E c \in Certs : Tick(c)
    \/ \E p \in Procs : WriteFail(p) \/ Kill(p)
    \/ HandEdit \/ DockerRetry

Next == Environment \/ \E p \in Procs : Start(p) \/ Work(p)

Spec == Init /\ [][Next]_vars

(***************************************************************************)
(* Properties.                                                             *)
(***************************************************************************)

\* Every generated file names a certificate whose .crt exists, were it only
\* truncated, whatever is interrupted and whoever runs at the same time:
\* generate decides on names it looked for before it read the table again, and
\* writes file after file while passes and other generates run.  Not so for a
\* file that was written without looking: by add, or by a generate for a site
\* added between its two reads.
GeneratedHaveCert == \A s \in conf \ blind : disk[CertOf[s]]["crt"] # 0

\* When every command has ended, a running nginx holds exactly the files of
\* conf/ and the issuances on disk: no interleaving of cleans, generates and
\* reloads leaves it on a half-built conf/ or on an old certificate.
RestServesDisk == Quiescent /\ up => run = Loaded

\* Once conf/ has been emptied and every command has ended, conf/ holds the
\* sites of the table that have a certificate and no other, each of them whole:
\* a purge that stops at a name another purge removed first leaves nothing stale
\* behind, and of two writers of a file, or a writer and a remover, neither
\* leaves it empty.
RestConfCurrent ==
    Quiescent /\ swept => conf \ blank = {s \in table : Present(CertOf[s])} /\ blank = {}

\* A site with a certificate in the renewal window is in time served with an
\* issuance outside it.
RenewalServed ==
    \A s \in Sites :
        (s \in table /\ CertOf[s] \in due)
            ~> (Fresh(CertOf[s]) /\ run[s] > 0 /\ run[s] = disk[CertOf[s]]["crt"])

(***************************************************************************)
(* Fairness.  The operating system runs every started command on; the      *)
(* daemon begins a pass every 24 hours, whatever happened to the last one; *)
(* the CA issues again and again when asked again and again; docker        *)
(* retries a container that is down.                                       *)
(***************************************************************************)
Daemons == {p \in Procs : Commands[p] = {"renew"}}

Fairness ==
    /\ \A p \in Procs : WF_vars(Work(p))
    /\ \A p \in Daemons :
        /\ WF_vars(BeginPass(p, "renew", Certs))
        /\ \A c \in Certs : SF_vars(JobObtain(p, c))
    /\ WF_vars(DockerRetry)

FairSpec == Spec /\ Fairness
=============================================================================
