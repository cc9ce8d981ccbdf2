---------------------------- MODULE Deploy_proofs ----------------------------
(***************************************************************************)
(* Proofs about Deploy.  With kills, failed writes and broken edits of     *)
(* sites.conf, for any processes, sites and certificates: its type         *)
(* invariant, and that no generated file written after a look at its       *)
(* certificate names a missing .crt.  Of the commands that rebuild conf/, when nothing is       *)
(* killed: conf/ is current and nginx holds what is on disk once all of    *)
(* them have ended.                                                        *)
(***************************************************************************)
EXTENDS Deploy, WellFoundedInduction, TLAPS

\* Every reachable state of the pipeline has the declared shape.
THEOREM DeployTypeOK == Spec => []TypeOK
<1> USE SitesAssumption, CertOfAssumption, RegisteredAssumption, CommandsAssumption,
        VersionAssumption
<1>1. Init => TypeOK
  <2> SUFFICES ASSUME Init PROVE TypeOK
    OBVIOUS
  <2>1. PICK have \in SUBSET Certs :
          /\ issued = [c \in Certs |-> IF c \in have THEN 1 ELSE 0]
          /\ disk = [c \in Certs |-> [f \in CertFile |-> IF c \in have THEN 1 ELSE 0]]
          /\ due \in SUBSET have
          /\ conf \in SUBSET {s \in Sites : CertOf[s] \in have}
    BY DEF Init
  <2>2. disk \in [Certs -> [CertFile -> Nat]]
    BY <2>1
  <2>0. disk \in [Certs -> [CertFile -> Nat \cup {Empty}]]
    BY <2>2
  <2>3. issued \in [Certs -> Nat] /\ due \subseteq Certs /\ conf \subseteq Sites /\ blank \subseteq conf
    BY <2>1 DEF Init
  <2>4. run \in [Sites -> Nat]
    BY <2>2 DEF Init, Loaded, CertFile
  <2>5. QED
    BY <2>0, <2>3, <2>4 DEF Init, TypeOK, Label, Command, Issuing
<1>2. TypeOK /\ [Next]_vars => TypeOK'
  <2> SUFFICES ASSUME TypeOK, [Next]_vars PROVE TypeOK'
    OBVIOUS
  <2> USE DEF TypeOK, certVars, nginxVars, passVars, genVars, history, Goto, Exit, Begin, Label
  <2>1. ASSUME NEW p \in Procs, NEW k \in Issuing, NEW want \in SUBSET Certs,
               BeginPass(p, k, want)
        PROVE  TypeOK'
    BY <2>1 DEF BeginPass, CertNames, Issuing, Command
  <2>2. ASSUME NEW p \in Procs, NEW c \in Certs,
               JobSkip(p, c) \/ JobObtain(p, c) \/ JobFail(p, c)
        PROVE  TypeOK'
    <3>1. CASE JobSkip(p, c) BY <3>1 DEF JobSkip
    <3>2. CASE JobFail(p, c) BY <3>2 DEF JobFail
    <3>3. CASE JobObtain(p, c)
      <4>1. {c} \X CertFile \X {issued[c] + 1} \in SUBSET (Certs \X CertFile \X Nat)
        BY <2>2
      <4>2. QED BY <3>3, <4>1 DEF JobObtain
    <3>4. QED BY <2>2, <3>1, <3>2, <3>3
  <2>3. ASSUME NEW p \in Procs, TruncateFile(p) \/ FillFile(p)
        PROVE  TypeOK'
    <3>1. PICK w \in writes[p] : \E v \in {w[3], Empty} : disk' = [disk EXCEPT ![w[1]][w[2]] = v]
      BY <2>3 DEF TruncateFile, FillFile
    <3>2. PICK v \in {w[3], Empty} : disk' = [disk EXCEPT ![w[1]][w[2]] = v]
      BY <3>1
    <3>21. w[1] \in Certs /\ w[2] \in CertFile /\ w[3] \in Nat
      BY <3>1
    <3>3. disk' \in [Certs -> [CertFile -> Nat \cup {Empty}]]
      BY <3>2, <3>21
    <3>4. CASE TruncateFile(p)
      <4>1. pc' \in [Procs -> Label]
        BY <3>4 DEF TruncateFile
      <4>2. QED BY <3>4, <4>1, <3>3 DEF TruncateFile
    <3>5. CASE FillFile(p)
      <4>1. due' \subseteq Certs /\ writes' \in [Procs -> SUBSET (Certs \X CertFile \X Nat)]
        BY <3>5 DEF FillFile
      <4>2. QED BY <3>5, <4>1, <3>3 DEF FillFile
    <3>6. QED BY <2>3, <3>4, <3>5
  <2>4. ASSUME NEW p \in Procs,
               WriteDone(p) \/ WriteFail(p) \/ PassDone(p) \/ Kill(p) \/ ParseFail(p)
        PROVE  TypeOK'
    BY <2>4, ZenonT(30) DEF WriteDone, WriteFail, PassDone, Kill, ParseFail, Command
  <2>5. ASSUME NEW p \in Procs, BeginPlain(p)
        PROVE  TypeOK'
    <3>1. pc' \in [Procs -> Label] /\ cmd' \in [Procs -> Command]
      <4>1. PICK k \in Command, l \in Label : pc' = [pc EXCEPT ![p] = l] /\ cmd' = [cmd EXCEPT ![p] = k]
        BY <2>5 DEF BeginPlain, Command
      <4>2. QED BY <4>1
    <3>2. QED BY <2>5, <3>1 DEF BeginPlain
  <2>6. ASSUME NEW p \in Procs,
               ListDir(p) \/ PurgeOne(p) \/ PurgeAbort(p) \/ PurgeDone(p)
        PROVE  TypeOK'
    <3>1. CASE ListDir(p) BY <3>1 DEF ListDir
    <3>2. CASE PurgeOne(p) BY <3>2 DEF PurgeOne
    <3>3. CASE PurgeAbort(p) BY <3>3 DEF PurgeAbort
    <3>4. CASE PurgeDone(p) BY <3>4, ZenonT(30) DEF PurgeDone, Command
    <3>5. QED BY <2>6, <3>1, <3>2, <3>3, <3>4
  <2>7. ASSUME NEW p \in Procs,
               Check(p) \/ (\E c \in Certs : Probe(p, c)) \/ Parse(p)
               \/ (\E s \in Sites : GenerateOne(p, s)) \/ FillConf(p) \/ GenerateDone(p)
        PROVE  TypeOK'
    <3>1. CASE Check(p) BY <3>1 DEF Check, CertNames
    <3>6. CASE \E c \in Certs : Probe(p, c) BY <3>6 DEF Probe
    <3>2. CASE Parse(p) BY <3>2 DEF Parse
    <3>3. CASE GenerateDone(p) BY <3>3, ZenonT(30) DEF GenerateDone, Command
    <3>4. CASE \E s \in Sites : GenerateOne(p, s)
      <4>1. conf' \subseteq Sites /\ blank' \subseteq conf' /\ blind' \subseteq Sites
        BY <3>4 DEF GenerateOne
      <4>2. queue' \in [Procs -> SUBSET Sites] /\ open' \in [Procs -> SUBSET Sites]
        BY <3>4 DEF GenerateOne
      <4>3. pc' \in [Procs -> Label]
        BY <3>4 DEF GenerateOne
      <4>4. QED BY <3>4, <4>1, <4>2, <4>3 DEF GenerateOne
    <3>7. CASE FillConf(p) BY <3>7 DEF FillConf
    <3>5. QED BY <2>7, <3>1, <3>2, <3>3, <3>4, <3>6, <3>7
  <2>8. ASSUME NEW p \in Procs, Reload(p) \/ Restart(p)
        PROVE  TypeOK'
    <3>1. (Loadable => Loaded \in [Sites -> Nat]) /\ Loadable \in BOOLEAN
      BY DEF Loaded, Loadable, CertFile, Empty
    <3>2. CASE Reload(p) BY <3>1, <3>2 DEF Reload, Command
    <3>3. CASE Restart(p) BY <3>1, <3>3 DEF Restart, Command
    <3>4. QED BY <2>8, <3>2, <3>3
  <2>9. ASSUME NEW p \in Procs,
               AppendLine(p) \/ GenerateAdded(p)
               \/ (\E s \in Sites : BeginAdd(p, s))
               \/ (\E old, new \in Sites : BeginEdit(p, old, new))
        PROVE  TypeOK'
    <3>1. CASE AppendLine(p) BY <3>1 DEF AppendLine
    <3>2. CASE GenerateAdded(p) BY <3>2 DEF GenerateAdded
    <3>3. CASE \E s \in Sites : BeginAdd(p, s) BY <3>3 DEF BeginAdd, Command
    <3>4. CASE \E old, new \in Sites : BeginEdit(p, old, new) BY <3>4 DEF BeginEdit, Command
    <3>5. QED BY <2>9, <3>1, <3>2, <3>3, <3>4
  <2>10. ASSUME HandEdit \/ \E c \in Certs : Tick(c)
         PROVE  TypeOK'
    BY <2>10 DEF HandEdit, Tick
  <2>11. CASE UNCHANGED vars
    BY <2>11 DEF vars
  <2>12. ASSUME DockerRetry PROVE TypeOK'
    <3>1. Loadable => Loaded \in [Sites -> Nat]
      BY DEF Loaded, Loadable, CertFile, Empty
    <3>2. QED BY <2>12, <3>1 DEF DockerRetry
  <2>13. QED
    BY <2>1, <2>2, <2>3, <2>4, <2>5, <2>6, <2>7, <2>8, <2>9, <2>10, <2>11, <2>12
       DEF Next, Environment, Start, Work
<1>3. QED BY <1>1, <1>2, PTL DEF Spec

-----------------------------------------------------------------------------
\* The certificate has a .crt, be it empty.
Exists(c) == disk[c]["crt"] # 0

\* What a generate relies on between probing the certificates and writing the
\* last file: the names it looked for and did not find missing exist, and stay.
GenInv ==
    /\ GeneratedHaveCert
    /\ \A p \in Procs : \A w \in writes[p] : w[3] > 0
    /\ \A p \in Procs : \A c \in seen[p] \ missing[p] : Exists(c)

\* A .crt, once there, stays: every step leaves it or writes an issuance.
LEMMA ExistsStable ==
    ASSUME TypeOK, GenInv, [Next]_vars, NEW c \in Certs, Exists(c)
    PROVE  Exists(c)'
<1> USE DEF Exists
<1>1. CASE UNCHANGED disk
  BY <1>1
<1>2. ASSUME NEW p \in Procs, TruncateFile(p) \/ FillFile(p)
      PROVE  Exists(c)'
  <2>1. PICK w \in writes[p] : \E v \in {w[3], Empty} : disk' = [disk EXCEPT ![w[1]][w[2]] = v]
    BY <1>2 DEF TruncateFile, FillFile
  <2>2. PICK v \in {w[3], Empty} : disk' = [disk EXCEPT ![w[1]][w[2]] = v]
    BY <2>1
  <2>3. w \in Certs \X CertFile \X Nat /\ w[3] > 0
    BY <2>1 DEF TypeOK, GenInv
  <2>4. disk'[c]["crt"] = disk[c]["crt"] \/ disk'[c]["crt"] = v
    BY <2>2, <2>3 DEF TypeOK, CertFile
  <2>5. QED BY <2>2, <2>3, <2>4 DEF Empty
<1>3. UNCHANGED disk \/ \E p \in Procs : TruncateFile(p) \/ FillFile(p)
  BY DEF Next, Environment, Start, Work, vars, certVars,
         BeginPass, JobSkip, JobObtain, JobFail, WriteDone, WriteFail, PassDone,
         BeginPlain, ListDir, PurgeOne, PurgeAbort, PurgeDone, Check, Parse,
         ParseFail, GenerateOne, GenerateDone, Reload, Restart, DockerRetry,
         BeginAdd, BeginEdit, AppendLine, GenerateAdded, Tick, Kill, HandEdit, Probe, FillConf
<1>4. QED BY <1>1, <1>2, <1>3

\* A step after which no more files were generated with a look at their
\* certificate, no more is to be written, and no process knows more.
Quiet ==
    /\ conf' \ blind' \subseteq conf \ blind
    /\ \A q \in Procs : /\ writes'[q] \subseteq writes[q]
                        /\ seen'[q] \ missing'[q] \subseteq seen[q] \ missing[q]

\* A quiet step keeps the invariant.
LEMMA QuietKeeps ==
    ASSUME TypeOK, GenInv, [Next]_vars, Quiet
    PROVE  GenInv'
<1>0. \A c \in Certs : Exists(c) => Exists(c)'
  BY ExistsStable
<1>1. GeneratedHaveCert'
  BY <1>0, CertOfAssumption DEF Quiet, GenInv, GeneratedHaveCert, Exists, TypeOK
<1>2. \A q \in Procs : \A c \in seen'[q] \ missing'[q] : Exists(c)'
  BY <1>0 DEF Quiet, GenInv, TypeOK
<1>3. QED BY <1>1, <1>2 DEF Quiet, GenInv

\* Every file generated with a look at its certificate names one that exists,
\* through any interleaving of the commands and any fault.
THEOREM GeneratedSafe == Spec => []GeneratedHaveCert
<1> USE CertOfAssumption
<1>1. Init => GenInv
  <2> SUFFICES ASSUME Init PROVE GenInv
    OBVIOUS
  <2>1. GeneratedHaveCert
    BY DEF Init, GeneratedHaveCert, CertFile
  <2>2. QED BY <2>1 DEF Init, GenInv
<1>2. TypeOK /\ GenInv /\ [Next]_vars => GenInv'
  <2> SUFFICES ASSUME TypeOK, GenInv, [Next]_vars PROVE GenInv'
    OBVIOUS
  <2>0. \A c \in Certs : Exists(c) => Exists(c)'
    BY ExistsStable
  <2> DEFINE Still == UNCHANGED <<conf, blind>>
             Knows == UNCHANGED <<seen, missing>>
  <2>1. ASSUME NEW p \in Procs, Exit(p), Still
        PROVE  Quiet
    BY <2>1 DEF Quiet, Exit, TypeOK
  <2>2. ASSUME Still, Knows, \A q \in Procs : writes'[q] \subseteq writes[q]
        PROVE  Quiet
    BY <2>2 DEF Quiet
  <2>3. ASSUME NEW p \in Procs, NEW c \in Certs, JobSkip(p, c) \/ JobFail(p, c)
        PROVE  Quiet
    BY <2>2, <2>3 DEF JobSkip, JobFail, genVars, history
  <2>4. ASSUME NEW p \in Procs, NEW k \in Issuing, NEW want \in SUBSET Certs,
               BeginPass(p, k, want)
        PROVE  Quiet
    BY <2>2, <2>4 DEF BeginPass, genVars, history
  <2>5. ASSUME NEW p \in Procs, TruncateFile(p) \/ WriteDone(p)
        PROVE  Quiet
    BY <2>2, <2>5 DEF TruncateFile, WriteDone, passVars, genVars, history
  <2>6. ASSUME NEW p \in Procs, FillFile(p) \/ WriteFail(p)
        PROVE  Quiet
    <3>1. \A q \in Procs : writes'[q] \subseteq writes[q]
      <4>1. CASE FillFile(p) BY <4>1 DEF FillFile, TypeOK
      <4>2. CASE WriteFail(p) BY <4>2 DEF WriteFail, TypeOK
      <4>3. QED BY <2>6, <4>1, <4>2
    <3>2. QED BY <2>2, <2>6, <3>1 DEF FillFile, WriteFail, genVars, history
  <2>7. ASSUME NEW p \in Procs,
               PassDone(p) \/ PurgeDone(p) \/ GenerateDone(p) \/ ParseFail(p)
               \/ Reload(p) \/ Restart(p) \/ Kill(p)
        PROVE  Quiet
    <3>1. Still
      BY <2>7 DEF PassDone, PurgeDone, GenerateDone, ParseFail, Reload, Restart, Kill, history
    <3>2. Exit(p) \/ UNCHANGED <<passVars, genVars>>
      BY <2>7 DEF PassDone, PurgeDone, GenerateDone, ParseFail, Reload, Restart, Kill
    <3>3. QED BY <2>1, <2>2, <3>1, <3>2 DEF passVars, genVars
  <2>8. ASSUME NEW p \in Procs,
               BeginPlain(p) \/ ListDir(p) \/ Parse(p) \/ PurgeAbort(p) \/ FillConf(p)
        PROVE  Quiet
    BY <2>2, <2>8 DEF BeginPlain, ListDir, Parse, PurgeAbort, FillConf, passVars, genVars, history
  <2>17. ASSUME NEW p \in Procs, Check(p) PROVE Quiet
    BY <2>17 DEF Check, Quiet, TypeOK, history
  <2>9. ASSUME NEW p \in Procs, PurgeOne(p) \/ GenerateAdded(p)
        PROVE  Quiet
    <3>1. conf' \ blind' \subseteq conf \ blind
      BY <2>9 DEF PurgeOne, GenerateAdded
    <3>2. UNCHANGED <<seen, missing, writes>>
      BY <2>9 DEF PurgeOne, GenerateAdded, passVars, genVars
    <3>3. QED BY <3>1, <3>2 DEF Quiet
  <2>10. ASSUME NEW p \in Procs,
                AppendLine(p) \/ (\E s \in Sites : BeginAdd(p, s))
                \/ (\E old, new \in Sites : BeginEdit(p, old, new))
         PROVE  Quiet
    BY <2>2, <2>10 DEF AppendLine, BeginAdd, BeginEdit, passVars, genVars, history
  <2>11. ASSUME UNCHANGED vars \/ HandEdit \/ DockerRetry \/ \E c \in Certs : Tick(c)
         PROVE  Quiet
    BY <2>2, <2>11 DEF vars, HandEdit, DockerRetry, Tick, passVars, genVars, history
  <2>12. ASSUME Quiet PROVE GenInv'
    BY <2>12, QuietKeeps
  <2>13. ASSUME NEW p \in Procs, NEW c \in Certs, JobObtain(p, c)
         PROVE  GenInv'
    <3>1. \A q \in Procs : \A w \in writes'[q] : w[3] > 0
      BY <2>13 DEF JobObtain, GenInv, TypeOK
    <3>2. UNCHANGED <<conf, blind, seen, missing, disk>>
      BY <2>13 DEF JobObtain, genVars, history
    <3>3. QED BY <3>1, <3>2 DEF GenInv, GeneratedHaveCert, Exists
  <2>14. ASSUME NEW p \in Procs, NEW c \in Certs, Probe(p, c)
         PROVE  GenInv'
    <3>1. UNCHANGED <<conf, blind, writes, disk>>
      BY <2>14 DEF Probe, certVars, history
    <3>2. ASSUME NEW b \in seen'[p] \ missing'[p] PROVE Exists(b)
      <4>1. b \in seen[p] \ missing[p] \/ (b = c /\ Present(c))
        BY <2>14, <3>2 DEF Probe, TypeOK
      <4>2. QED BY <4>1 DEF GenInv, Present, Exists
    <3>3. \A q \in Procs \ {p} : seen'[q] = seen[q] /\ missing'[q] = missing[q]
      BY <2>14 DEF Probe, TypeOK
    <3>4. QED BY <3>1, <3>2, <3>3 DEF GenInv, GeneratedHaveCert, Exists
  <2>15. ASSUME NEW p \in Procs, NEW s \in Sites, GenerateOne(p, s)
         PROVE  GenInv'
    <3>1. UNCHANGED <<seen, missing, writes, disk>>
      BY <2>15 DEF GenerateOne, certVars, passVars
    <3>2. \A t \in conf' \ blind' : t \in conf \ blind \/ CertOf[t] \in seen[p] \ missing[p]
      BY <2>15 DEF GenerateOne, Emits
    <3>3. QED BY <3>1, <3>2 DEF GenInv, GeneratedHaveCert, Exists
  <2>16. QED
    BY <2>3, <2>4, <2>5, <2>6, <2>7, <2>8, <2>9, <2>10, <2>11, <2>12, <2>13, <2>14, <2>15,
       <2>17
       DEF Next, Environment, Start, Work
<1>3. GenInv => GeneratedHaveCert
  BY DEF GenInv
<1>4. QED BY <1>1, <1>2, <1>3, DeployTypeOK, PTL DEF Spec

-----------------------------------------------------------------------------
(***************************************************************************)
(* The commands that rebuild conf/, where nothing is killed and nobody     *)
(* edits sites.conf: what conf/ and nginx hold when all of them have       *)
(* ended.                                                                  *)
(***************************************************************************)

\* Only these commands run, and nothing fails.
Rebuilding ==
    /\ ~Faults
    /\ \A p \in Procs :
        Commands[p] \subseteq {"renew", "regenerate", "generate", "reload", "restart"}

\* The labels of a process that has a certificate's files to write.
Writing == {"write"} \cup CertFile

\* sites.conf parses, and a generate has looked for the certificate of every
\* site it writes.
RebuildInv ==
    /\ valid /\ blind = {}
    /\ \A p \in Procs :
        /\ pc[p] # "idle" => cmd[p] \in Commands[p]
        /\ pc[p] \notin {"append", "genone"}
        /\ pc[p] \in {"jobs"} \cup Writing => cmd[p] = "renew"
        /\ pc[p] = "probe" => CertNames \subseteq seen[p] \cup jobs[p]
        /\ pc[p] \in {"gen", "fill"} => CertNames \subseteq seen[p] /\ queue[p] \subseteq table

\* A step of p that these commands may take.
RebuildStep(p) ==
    \/ BeginPass(p, "renew", Certs) \/ BeginPlain(p)
    \/ \E c \in Certs : JobSkip(p, c) \/ JobObtain(p, c) \/ JobFail(p, c)
    \/ TruncateFile(p) \/ FillFile(p) \/ WriteDone(p) \/ PassDone(p)
    \/ ListDir(p) \/ PurgeOne(p) \/ PurgeAbort(p) \/ PurgeDone(p)
    \/ Check(p) \/ (\E c \in Certs : Probe(p, c)) \/ Parse(p)
    \/ (\E s \in Sites : GenerateOne(p, s)) \/ FillConf(p)
    \/ GenerateDone(p) \/ Reload(p) \/ Restart(p)

\* A step of none of them.
OutsideStep == UNCHANGED vars \/ DockerRetry \/ \E c \in Certs : Tick(c)

\* A step is a rebuilding command's, or one of nobody's.
LEMMA RebuildNext ==
    ASSUME Rebuilding, RebuildInv, [Next]_vars
    PROVE  OutsideStep \/ \E p \in Procs : RebuildStep(p)
<1>1. ASSUME NEW p \in Procs, Start(p)
      PROVE  RebuildStep(p)
  <2>1. ASSUME NEW k \in Issuing, NEW want \in SUBSET Certs, BeginPass(p, k, want)
        PROVE  RebuildStep(p)
    <3>1. k = "renew"
      BY <2>1 DEF BeginPass, Begin, Rebuilding, Issuing
    <3>2. QED BY <2>1, <3>1 DEF BeginPass, RebuildStep
  <2>2. ASSUME NEW s \in Sites, BeginAdd(p, s) PROVE FALSE
    BY <2>2 DEF BeginAdd, Begin, Rebuilding
  <2>3. ASSUME NEW s \in Sites, NEW t \in Sites, BeginEdit(p, s, t) PROVE FALSE
    BY <2>3 DEF BeginEdit, Begin, Rebuilding
  <2>4. QED BY <1>1, <2>1, <2>2, <2>3 DEF Start, RebuildStep
<1>2. ASSUME NEW p \in Procs, Work(p)
      PROVE  RebuildStep(p)
  <2>1. ~ParseFail(p) /\ ~AppendLine(p) /\ ~GenerateAdded(p)
    BY DEF ParseFail, AppendLine, GenerateAdded, RebuildInv
  <2>2. QED BY <1>2, <2>1 DEF Work, RebuildStep
<1>3. ASSUME Environment PROVE OutsideStep
  <2>1. \A p \in Procs : ~WriteFail(p) /\ ~Kill(p)
    BY DEF WriteFail, Kill, Rebuilding
  <2>2. QED BY <1>3, <2>1 DEF Environment, OutsideStep, HandEdit, Rebuilding
<1>4. QED BY <1>1, <1>2, <1>3 DEF Next, OutsideStep

\* What q knows stays as it is.
Still(q) ==
    /\ pc'[q] = pc[q] /\ cmd'[q] = cmd[q] /\ writes'[q] = writes[q] /\ got'[q] = got[q]
    /\ queue'[q] = queue[q] /\ missing'[q] = missing[q] /\ seen'[q] = seen[q]
    /\ jobs'[q] = jobs[q]

\* A process changes its own state alone.
LEMMA OthersStill ==
    ASSUME TypeOK, NEW p \in Procs, RebuildStep(p), NEW q \in Procs \ {p}
    PROVE  Still(q)
<1> USE DEF Still, TypeOK, Goto, Exit, Begin, passVars, genVars
<1>1. CASE BeginPass(p, "renew", Certs) \/ BeginPlain(p)
  BY <1>1 DEF BeginPass, BeginPlain
<1>2. CASE \E c \in Certs : JobSkip(p, c) \/ JobObtain(p, c) \/ JobFail(p, c)
  BY <1>2 DEF JobSkip, JobObtain, JobFail
<1>3. CASE TruncateFile(p)
  BY <1>3 DEF TruncateFile
<1>4. CASE FillFile(p)
  BY <1>4 DEF FillFile
<1>5. CASE WriteDone(p) \/ PassDone(p)
  BY <1>5 DEF WriteDone, PassDone
<1>6. CASE ListDir(p) \/ PurgeOne(p) \/ PurgeAbort(p)
  BY <1>6 DEF ListDir, PurgeOne, PurgeAbort
<1>7. CASE PurgeDone(p)
  BY <1>7 DEF PurgeDone
<1>8. CASE Check(p) \/ (\E c \in Certs : Probe(p, c)) \/ Parse(p)
  BY <1>8 DEF Check, Probe, Parse
<1>11. CASE (\E s \in Sites : GenerateOne(p, s)) \/ FillConf(p) \/ GenerateDone(p)
  BY <1>11 DEF GenerateOne, FillConf, GenerateDone
<1>9. CASE Reload(p) \/ Restart(p)
  BY <1>9 DEF Reload, Restart
<1>10. QED
  BY <1>1, <1>2, <1>3, <1>4, <1>5, <1>6, <1>7, <1>8, <1>9, <1>11 DEF RebuildStep

\* Nothing a process knows changes outside its steps.
LEMMA OutsideStill ==
    ASSUME OutsideStep
    PROVE  /\ \A q \in Procs : Still(q)
           /\ UNCHANGED <<table, valid, conf, blank, open, disk, swept, blind>>
BY DEF OutsideStep, vars, certVars, passVars, genVars, history, DockerRetry, Tick, Still

\* These commands leave sites.conf alone.
LEMMA TableStill ==
    ASSUME NEW p \in Procs, RebuildStep(p)
    PROVE  UNCHANGED <<table, valid>> /\ CertNames' = CertNames
<1>1. UNCHANGED <<table, valid>>
  BY DEF RebuildStep, BeginPass, BeginPlain, JobSkip, JobObtain, JobFail, TruncateFile, FillFile,
         WriteDone, PassDone, ListDir, PurgeOne, PurgeAbort, PurgeDone, Check, Probe, Parse,
         GenerateOne, FillConf, GenerateDone, Reload, Restart
<1>2. QED
  BY <1>1 DEF CertNames

\* What RebuildInv says of one process.
Rebuilder(p) ==
    /\ pc[p] # "idle" => cmd[p] \in Commands[p]
    /\ pc[p] \notin {"append", "genone"}
    /\ pc[p] \in {"jobs"} \cup Writing => cmd[p] = "renew"
    /\ pc[p] = "probe" => CertNames \subseteq seen[p] \cup jobs[p]
    /\ pc[p] \in {"gen", "fill"} => CertNames \subseteq seen[p] /\ queue[p] \subseteq table

\* Every step keeps RebuildInv.
LEMMA RebuildKept ==
    ASSUME TypeOK, Rebuilding, RebuildInv, [Next]_vars
    PROVE  RebuildInv'
<1>1. CASE OutsideStep
  BY <1>1, OutsideStill DEF RebuildInv, Still, CertNames
<1>2. ASSUME NEW p \in Procs, RebuildStep(p)
      PROVE  RebuildInv'
  <2>1. UNCHANGED <<table, valid>> /\ CertNames' = CertNames
    BY <1>2, TableStill
  <2>2. \A q \in Procs \ {p} : Still(q)
    BY <1>2, OthersStill
  <2>3. \A q \in Procs \ {p} : Rebuilder(q)'
    BY <2>1, <2>2 DEF RebuildInv, Rebuilder, Still
  <2>4. Rebuilder(p)
    BY DEF RebuildInv, Rebuilder
  <2>5. ASSUME Exit(p) PROVE Rebuilder(p)'
    BY <2>5 DEF Exit, Goto, TypeOK, Rebuilder, Writing, CertFile
  <2>6. Rebuilder(p)'
    <3> USE <2>4 DEF TypeOK, Rebuilder, Goto, Begin, Writing, CertFile
    <3>1. CASE BeginPass(p, "renew", Certs)
      BY <3>1 DEF BeginPass
    <3>2. CASE BeginPlain(p)
      BY <3>2 DEF BeginPlain
    <3>3. CASE \E c \in Certs : JobSkip(p, c) \/ JobObtain(p, c) \/ JobFail(p, c)
      BY <3>3, <2>1 DEF JobSkip, JobObtain, JobFail
    <3>4. CASE TruncateFile(p)
      <4>1. PICK w \in writes[p] : pc' = [pc EXCEPT ![p] = w[2]]
        BY <3>4 DEF TruncateFile
      <4>2. w[2] \in CertFile
        OBVIOUS
      <4>3. QED BY <3>4, <4>1, <4>2 DEF TruncateFile
    <3>5. CASE FillFile(p) \/ WriteDone(p)
      BY <3>5 DEF FillFile, WriteDone
    <3>6. CASE PassDone(p)
      BY <2>5, <3>6, <2>1 DEF PassDone
    <3>7. CASE ListDir(p) \/ PurgeOne(p) \/ PurgeAbort(p)
      BY <3>7 DEF ListDir, PurgeOne, PurgeAbort
    <3>8. CASE PurgeDone(p)
      BY <2>5, <3>8 DEF PurgeDone
    <3>9. CASE Check(p)
      BY <3>9, <2>1 DEF Check, CertNames
    <3>15. CASE \E c \in Certs : Probe(p, c)
      BY <3>15, <2>1 DEF Probe
    <3>10. CASE Parse(p)
      BY <3>10, <2>1 DEF Parse, genVars
    <3>11. CASE \E s \in Sites : GenerateOne(p, s)
      BY <3>11, <2>1 DEF GenerateOne
    <3>16. CASE FillConf(p)
      BY <3>16, <2>1 DEF FillConf
    <3>12. CASE GenerateDone(p)
      BY <2>5, <3>12 DEF GenerateDone
    <3>13. CASE Reload(p) \/ Restart(p)
      BY <2>5, <3>13 DEF Reload, Restart
    <3>14. QED
      BY <1>2, <3>1, <3>2, <3>3, <3>4, <3>5, <3>6, <3>7, <3>8, <3>9, <3>10, <3>11, <3>12, <3>13,
         <3>15, <3>16
         DEF RebuildStep
  <2>7. blind' = {}
    <3>1. CASE blind' \subseteq blind
      BY <3>1 DEF RebuildInv
    <3>2. ASSUME NEW s \in Sites, GenerateOne(p, s) PROVE blind' = {}
      <4>1. CertOf[s] \in seen[p]
        BY <2>4, <3>2 DEF GenerateOne, Rebuilder, CertNames
      <4>2. QED BY <3>2, <4>1 DEF GenerateOne, RebuildInv
    <3>3. blind' \subseteq blind \/ \E s \in Sites : GenerateOne(p, s)
      BY <1>2 DEF RebuildStep, history, BeginPass, BeginPlain, JobSkip, JobObtain, JobFail,
                  TruncateFile, FillFile, WriteDone, PassDone, ListDir, PurgeOne, PurgeAbort,
                  PurgeDone, Check, Probe, Parse, FillConf, GenerateDone, Reload, Restart
    <3>4. QED BY <3>1, <3>2, <3>3
  <2>8. QED
    BY <2>1, <2>3, <2>6, <2>7 DEF RebuildInv, Rebuilder
<1>3. QED BY <1>1, <1>2, RebuildNext

\* RebuildInv holds at first.
LEMMA RebuildStarts ==
    ASSUME Init
    PROVE  RebuildInv
BY DEF Init, RebuildInv, Writing, CertFile

-----------------------------------------------------------------------------
\* A process still has entries to remove.
Purging(p) == pc[p] = "purge" /\ queue[p] # {}

\* The files of sites that are not in the table.
Stale == conf \ table

\* Every purge under way still has every stale file on its list.  One that will
\* stop at an entry that is gone leaves the stale files behind it to another
\* that is ahead of it; and once conf/ was emptied, some purge has them.
StaleInv ==
    /\ \A p \in Procs : Purging(p) => Stale \subseteq queue[p]
    /\ \A p \in Procs : Purging(p) =>
        \A x \in queue[p] \ conf, s \in Stale :
            x < s => \E q \in Procs : Purging(q) /\ \A y \in queue[q] : x < y
    /\ Stale # {} /\ (swept \/ \E p \in Procs : pc[p] = "purge" /\ queue[p] = {})
        => \E q \in Procs : Purging(q)

\* A set of natural numbers that is not empty has a least element.
LEMMA Least ==
    ASSUME NEW S \in SUBSET Nat, S # {}
    PROVE  \E n \in S : \A m \in S : n <= m
<1> DEFINE R == OpToRel(<, Nat)
<1>1. IsWellFoundedOn(R, Nat)
  BY NatLessThanWellFounded
<1> HIDE DEF R
<1>2. PICK n \in S : \A m \in S : ~(<<m, n>> \in R)
  BY <1>1, WFMin
<1>3. ASSUME NEW m \in S PROVE ~(m < n)
  BY <1>2 DEF R, OpToRel
<1>4. QED
  BY <1>3

\* NextEntry is the least entry of a queue.
LEMMA NextEntryLeast ==
    ASSUME TypeOK, NEW p \in Procs, queue[p] # {}
    PROVE  /\ NextEntry(queue[p]) \in queue[p]
           /\ \A y \in queue[p] : NextEntry(queue[p]) <= y
<1>1. queue[p] \in SUBSET Nat
  BY SitesAssumption DEF TypeOK
<1>2. QED BY <1>1, Least DEF NextEntry

\* A step that leaves every purge and every stale file alone.
NoPurge ==
    /\ UNCHANGED <<table, swept>>
    /\ conf \subseteq conf' /\ conf' \subseteq conf \cup table
    /\ \A q \in Procs : /\ pc'[q] = "purge" <=> pc[q] = "purge"
                        /\ pc[q] = "purge" => queue'[q] = queue[q]

\* A step that purges nothing keeps StaleInv.
LEMMA NoPurgeKeeps ==
    ASSUME StaleInv, NoPurge
    PROVE  StaleInv'
<1>1. Stale' = Stale
  BY DEF Stale, NoPurge
<1>2. \A q \in Procs : Purging(q)' <=> Purging(q)
  BY DEF Purging, NoPurge
<1>3. \A q \in Procs : Purging(q) => queue'[q] = queue[q]
  BY DEF Purging, NoPurge
<1>4. \A p \in Procs : Purging(p)' => Stale' \subseteq queue'[p]
  BY <1>1, <1>2, <1>3 DEF StaleInv
<1>5. ASSUME NEW p \in Procs, Purging(p)', NEW x \in queue'[p] \ conf', NEW s \in Stale', x < s
      PROVE  \E q \in Procs : Purging(q)' /\ \A y \in queue'[q] : x < y
  <2>1. x \in queue[p] \ conf /\ Purging(p)
    BY <1>2, <1>3, <1>5 DEF NoPurge
  <2>2. PICK q \in Procs : Purging(q) /\ \A y \in queue[q] : x < y
    BY <1>1, <1>5, <2>1 DEF StaleInv
  <2>3. QED BY <1>2, <1>3, <2>2
<1>6. (\E p \in Procs : pc'[p] = "purge" /\ queue'[p] = {})
        => \E p \in Procs : pc[p] = "purge" /\ queue[p] = {}
  BY DEF NoPurge
<1>7. Stale' # {} /\ (swept' \/ \E p \in Procs : pc'[p] = "purge" /\ queue'[p] = {})
        => \E q \in Procs : Purging(q)'
  BY <1>1, <1>2, <1>6 DEF NoPurge, StaleInv
<1>8. QED BY <1>4, <1>5, <1>7 DEF StaleInv

\* Every step keeps StaleInv.
LEMMA StaleKept ==
    ASSUME TypeOK, Rebuilding, RebuildInv, StaleInv, [Next]_vars
    PROVE  StaleInv'
<1>1. CASE OutsideStep
  BY <1>1, OutsideStill, NoPurgeKeeps DEF NoPurge, Still
<1>2. ASSUME NEW p \in Procs, RebuildStep(p)
      PROVE  StaleInv'
  <2>1. UNCHANGED table
    BY <1>2, TableStill
  <2>2. \A q \in Procs \ {p} : pc'[q] = pc[q] /\ queue'[q] = queue[q]
    BY <1>2, OthersStill DEF Still
  <2>3. \A q \in Procs \ {p} : Purging(q)' <=> Purging(q)
    BY <2>2 DEF Purging
  <2>4. Stale \subseteq Nat /\ \A q \in Procs : queue[q] \subseteq Nat
    BY SitesAssumption DEF Stale, TypeOK
  <2>5. CASE ListDir(p)
    <3>1. /\ pc[p] = "list" /\ pc'[p] = "purge" /\ queue'[p] = conf
          /\ UNCHANGED <<conf, swept>>
      BY <2>5 DEF ListDir, TypeOK, Goto, history
    <3>2. Stale' = Stale
      BY <2>1, <3>1 DEF Stale
    <3>3. Stale \subseteq queue'[p] /\ queue'[p] \ conf' = {}
      BY <3>1 DEF Stale
    <3>4. \A q \in Procs : Purging(q) => q # p /\ Purging(q)' /\ queue'[q] = queue[q]
      BY <2>2, <3>1 DEF Purging
    <3>5. \A q \in Procs : Purging(q)' => Stale' \subseteq queue'[q]
      BY <2>2, <2>3, <3>2, <3>3 DEF StaleInv
    <3>6. ASSUME NEW q \in Procs, Purging(q)', NEW x \in queue'[q] \ conf', NEW s \in Stale', x < s
          PROVE  \E r \in Procs : Purging(r)' /\ \A y \in queue'[r] : x < y
      <4>1. q # p
        BY <3>3, <3>6
      <4>2. PICK r \in Procs : Purging(r) /\ \A y \in queue[r] : x < y
        BY <2>2, <2>3, <3>1, <3>2, <3>6, <4>1 DEF StaleInv
      <4>3. QED BY <3>4, <4>2
    <3>7. Stale' # {} => Purging(p)'
      BY <3>1, <3>2, <3>3 DEF Purging
    <3>8. QED BY <3>5, <3>6, <3>7 DEF StaleInv
  <2>6. CASE PurgeOne(p)
    <3> DEFINE e == NextEntry(queue[p])
    <3>1. e \in queue[p] /\ \A y \in queue[p] : e <= y
      BY <2>6, NextEntryLeast DEF PurgeOne
    <3>2. /\ Purging(p) /\ pc'[p] = "purge" /\ UNCHANGED swept
          /\ e \in conf /\ conf' = conf \ {e} /\ queue'[p] = queue[p] \ {e}
      BY <2>6 DEF PurgeOne, TypeOK, Purging
    <3> HIDE DEF e
    <3>3. Stale' = Stale \ {e} /\ Stale \subseteq queue[p]
      BY <2>1, <3>2 DEF Stale, StaleInv
    <3>4. \A y \in queue'[p] : e < y
      BY <3>1, <3>2, <2>4
    <3>5. \A q \in Procs : Purging(q)' => Purging(q) /\ queue'[q] \subseteq queue[q]
      BY <2>2, <2>3, <3>2
    <3>6. Stale' # {} => Purging(p)'
      BY <3>2, <3>3 DEF Purging
    <3>7. \A q \in Procs : Purging(q)' => Stale' \subseteq queue'[q]
      BY <2>2, <2>3, <3>2, <3>3 DEF StaleInv
    <3>8. ASSUME NEW q \in Procs, Purging(q)', NEW x \in queue'[q] \ conf', NEW s \in Stale', x < s
          PROVE  \E r \in Procs : Purging(r)' /\ \A y \in queue'[r] : x < y
      <4>1. CASE x = e
        BY <3>4, <3>6, <3>8, <4>1
      <4>2. CASE x # e
        <5>1. x \in queue[q] \ conf /\ s \in Stale /\ Purging(q)
          BY <3>2, <3>3, <3>5, <3>8, <4>2
        <5>2. PICK r \in Procs : Purging(r) /\ \A y \in queue[r] : x < y
          BY <3>8, <5>1 DEF StaleInv
        <5>3. CASE r = p
          BY <3>2, <3>6, <3>8, <5>2, <5>3
        <5>4. CASE r # p
          BY <2>2, <2>3, <5>2, <5>4
        <5>5. QED BY <5>3, <5>4
      <4>3. QED BY <4>1, <4>2
    <3>9. QED BY <3>6, <3>7, <3>8 DEF StaleInv
  <2>7. CASE PurgeAbort(p)
    <3> DEFINE e == NextEntry(queue[p])
    <3>1. e \in queue[p] /\ \A y \in queue[p] : e <= y
      BY <2>7, NextEntryLeast DEF PurgeAbort
    <3>2. Purging(p) /\ e \notin conf /\ queue'[p] = {} /\ UNCHANGED <<conf, swept>>
      BY <2>7 DEF PurgeAbort, TypeOK, Purging, history
    <3> HIDE DEF e
    <3>3. Stale' = Stale /\ Stale \subseteq queue[p] /\ e \notin Stale /\ ~Purging(p)'
      BY <2>1, <3>2 DEF Stale, StaleInv, Purging
    <3>4. ASSUME NEW s \in Stale
          PROVE  \E r \in Procs \ {p} : Purging(r)' /\ \A y \in queue'[r] : e < y
      <4>1. e < s
        BY <2>4, <3>1, <3>3, <3>4
      <4>2. PICK r \in Procs : Purging(r) /\ \A y \in queue[r] : e < y
        BY <3>1, <3>2, <3>4, <4>1 DEF StaleInv
      <4>3. r # p
        BY <2>4, <3>1, <4>2
      <4>4. QED BY <2>2, <2>3, <4>2, <4>3
    <3>5. \A q \in Procs : Purging(q)' => q # p /\ Purging(q) /\ queue'[q] = queue[q]
      BY <2>2, <2>3, <3>3
    <3>6. ASSUME NEW q \in Procs, Purging(q)', NEW x \in queue'[q] \ conf', NEW s \in Stale', x < s
          PROVE  \E r \in Procs : Purging(r)' /\ \A y \in queue'[r] : x < y
      <4>1. PICK r \in Procs : Purging(r) /\ \A y \in queue[r] : x < y
        BY <3>2, <3>3, <3>5, <3>6 DEF StaleInv
      <4>2. CASE r # p
        BY <2>2, <2>3, <4>1, <4>2
      <4>3. CASE r = p
        <5>1. x < e /\ x \in Nat /\ e \in Nat
          BY <2>4, <3>1, <3>5, <3>6, <4>1, <4>3
        <5>2. PICK r2 \in Procs \ {p} : Purging(r2)' /\ \A y \in queue'[r2] : e < y
          BY <3>3, <3>4, <3>6
        <5>3. queue'[r2] \subseteq Nat
          BY <2>2, <2>4
        <5>4. QED BY <5>1, <5>2, <5>3
      <4>4. QED BY <4>2, <4>3
    <3>7. \A q \in Procs : Purging(q)' => Stale' \subseteq queue'[q]
      BY <3>3, <3>5 DEF StaleInv
    <3>8. Stale' # {} => \E q \in Procs : Purging(q)'
      BY <3>3, <3>4
    <3>9. QED BY <3>6, <3>7, <3>8 DEF StaleInv
  <2>8. CASE PurgeDone(p)
    <3>1. pc[p] = "purge" /\ queue[p] = {} /\ conf' = conf /\ pc'[p] # "purge"
      BY <2>8 DEF PurgeDone, TypeOK, Exit, Goto
    <3>2. Stale' = Stale
      BY <2>1, <3>1 DEF Stale
    <3>3. \A q \in Procs : Purging(q)' <=> Purging(q)
      BY <2>3, <3>1 DEF Purging
    <3>4. \A q \in Procs : Purging(q) => queue'[q] = queue[q]
      BY <2>2, <3>1 DEF Purging
    <3>5. ASSUME NEW q \in Procs, Purging(q)', NEW x \in queue'[q] \ conf', NEW s \in Stale', x < s
          PROVE  \E r \in Procs : Purging(r)' /\ \A y \in queue'[r] : x < y
      <4>1. PICK r \in Procs : Purging(r) /\ \A y \in queue[r] : x < y
        BY <3>1, <3>2, <3>3, <3>4, <3>5 DEF StaleInv
      <4>2. QED BY <3>3, <3>4, <4>1
    <3>6. Stale' # {} => \E q \in Procs : Purging(q)'
      BY <3>1, <3>2, <3>3 DEF StaleInv
    <3>7. \A q \in Procs : Purging(q)' => Stale' \subseteq queue'[q]
      BY <3>2, <3>3, <3>4 DEF StaleInv
    <3>8. QED BY <3>5, <3>6, <3>7 DEF StaleInv
  <2>9. CASE ~(ListDir(p) \/ PurgeOne(p) \/ PurgeAbort(p) \/ PurgeDone(p))
    <3>1. pc[p] # "purge" /\ pc'[p] # "purge" /\ UNCHANGED swept
      <4> USE DEF TypeOK, Goto, Begin, history, CertFile
      <4>1. ASSUME TruncateFile(p) PROVE pc[p] # "purge" /\ pc'[p] # "purge" /\ UNCHANGED swept
        <5>1. PICK w \in writes[p] : pc' = [pc EXCEPT ![p] = w[2]]
          BY <4>1 DEF TruncateFile
        <5>2. w[2] \in CertFile
          OBVIOUS
        <5>3. QED BY <4>1, <5>1, <5>2 DEF TruncateFile
      <4>2. ASSUME Exit(p) PROVE pc'[p] # "purge"
        BY <4>2 DEF Exit
      <4>3. CASE Reload(p) \/ Restart(p) \/ PassDone(p) \/ GenerateDone(p)
        BY <4>2, <4>3 DEF Reload, Restart, PassDone, GenerateDone
      <4>4. CASE BeginPass(p, "renew", Certs) \/ BeginPlain(p) \/ ListDir(p)
        BY <4>4, <2>9 DEF BeginPass, BeginPlain
      <4>5. CASE \E c \in Certs : JobSkip(p, c) \/ JobObtain(p, c) \/ JobFail(p, c)
        BY <4>5 DEF JobSkip, JobObtain, JobFail
      <4>6. CASE FillFile(p) \/ WriteDone(p) \/ Check(p) \/ (\E c \in Certs : Probe(p, c)) \/ Parse(p)
        BY <4>6 DEF FillFile, WriteDone, Check, Probe, Parse
      <4>7. CASE (\E s \in Sites : GenerateOne(p, s)) \/ FillConf(p)
        BY <4>7 DEF GenerateOne, FillConf
      <4>8. QED BY <1>2, <2>9, <4>1, <4>3, <4>4, <4>5, <4>6, <4>7 DEF RebuildStep
    <3>2. conf' = conf \/ \E s \in Sites : GenerateOne(p, s)
      BY <1>2, <2>9 DEF RebuildStep, BeginPass, BeginPlain, JobSkip, JobObtain, JobFail,
             TruncateFile, FillFile, WriteDone, PassDone, Check, Probe, Parse, FillConf, GenerateDone,
             Reload, Restart
    <3>3. ASSUME NEW s \in Sites, GenerateOne(p, s)
          PROVE  conf \subseteq conf' /\ conf' \subseteq conf \cup table
      BY <3>3 DEF GenerateOne, RebuildInv
    <3>4. NoPurge
      BY <2>1, <2>2, <3>1, <3>2, <3>3 DEF NoPurge
    <3>5. QED BY <3>4, NoPurgeKeeps
  <2>10. QED BY <2>5, <2>6, <2>7, <2>8, <2>9
<1>3. QED BY <1>1, <1>2, RebuildNext

\* StaleInv holds at first.
LEMMA StaleStarts ==
    ASSUME Init
    PROVE  StaleInv
BY DEF Init, StaleInv, Purging

-----------------------------------------------------------------------------
\* Only processes that write hold files to write, all of one issuance; an empty
\* .crt is one such a process has just truncated.
WriteInv ==
    /\ \A p \in Procs :
        /\ writes[p] # {} => pc[p] \in Writing
        /\ \A w, x \in writes[p] : w[1] = x[1] /\ w[3] = x[3]
        /\ \A w \in writes[p] : w[3] > 0
    /\ \A c \in Certs :
        disk[c]["crt"] = Empty =>
            \E p \in Procs : pc[p] = "crt" /\ \E w \in writes[p] : w[1] = c /\ w[2] = "crt"

\* A step that writes no file and leaves what there is to write.
NoWrite ==
    /\ UNCHANGED disk
    /\ \A q \in Procs : /\ writes'[q] = writes[q]
                        /\ writes[q] # {} => pc'[q] = pc[q]

\* A step that writes no certificate file keeps WriteInv.
LEMMA NoWriteKeeps ==
    ASSUME TypeOK, WriteInv, NoWrite
    PROVE  WriteInv'
<1>1. ASSUME NEW c \in Certs, disk'[c]["crt"] = Empty
      PROVE  \E p \in Procs : pc'[p] = "crt" /\ \E w \in writes'[p] : w[1] = c /\ w[2] = "crt"
  <2>1. PICK p \in Procs : pc[p] = "crt" /\ \E w \in writes[p] : w[1] = c /\ w[2] = "crt"
    BY <1>1 DEF WriteInv, NoWrite
  <2>2. QED BY <2>1 DEF NoWrite
<1>2. QED BY <1>1 DEF WriteInv, NoWrite

\* Every step but an obtaining and the two halves of a write is one.
LEMMA NoWriteStep ==
    ASSUME TypeOK, WriteInv, NEW p \in Procs, RebuildStep(p),
           ~TruncateFile(p), ~FillFile(p), \A c \in Certs : ~JobObtain(p, c)
    PROVE  NoWrite
<1>1. \A q \in Procs \ {p} : writes'[q] = writes[q] /\ pc'[q] = pc[q]
  BY OthersStill DEF Still
<1>2. UNCHANGED disk
  BY DEF RebuildStep, certVars, BeginPass, BeginPlain, JobSkip, JobFail, WriteDone, PassDone,
         ListDir, PurgeOne, PurgeAbort, PurgeDone, Check, Probe, Parse, GenerateOne, FillConf, GenerateDone,
         Reload, Restart
<1>3. pc[p] \notin Writing => writes[p] = {}
  BY DEF WriteInv
<1>4. writes'[p] = writes[p] /\ (writes[p] # {} => pc'[p] = pc[p])
  <2> USE <1>3 DEF TypeOK, Goto, Exit, Begin, passVars, Writing, CertFile
  <2>1. CASE BeginPass(p, "renew", Certs) \/ BeginPlain(p)
    BY <2>1 DEF BeginPass, BeginPlain
  <2>2. CASE \E c \in Certs : JobSkip(p, c) \/ JobFail(p, c)
    BY <2>2 DEF JobSkip, JobFail
  <2>3. CASE WriteDone(p) \/ ListDir(p) \/ PurgeOne(p) \/ PurgeAbort(p)
    BY <2>3 DEF WriteDone, ListDir, PurgeOne, PurgeAbort
  <2>4. CASE PassDone(p)
    BY <2>4 DEF PassDone
  <2>5. CASE PurgeDone(p)
    BY <2>5 DEF PurgeDone
  <2>6. CASE GenerateDone(p)
    BY <2>6 DEF GenerateDone
  <2>7. CASE Reload(p) \/ Restart(p)
    BY <2>7 DEF Reload, Restart
  <2>8. CASE Check(p) \/ Parse(p) \/ (\E s \in Sites : GenerateOne(p, s))
    BY <2>8 DEF Check, Parse, GenerateOne
  <2>10. CASE FillConf(p) \/ \E c \in Certs : Probe(p, c)
    BY <2>10 DEF FillConf, Probe
  <2>9. QED BY <2>1, <2>2, <2>3, <2>4, <2>5, <2>6, <2>7, <2>8, <2>10 DEF RebuildStep
<1>5. QED BY <1>1, <1>2, <1>4 DEF NoWrite

\* A file that is truncated or filled is one the process has to write.
LEMMA OneFile ==
    ASSUME TypeOK, NEW p \in Procs, TruncateFile(p) \/ FillFile(p)
    PROVE  \E w \in writes[p] :
             /\ w \in Certs \X CertFile \X Nat
             /\ \/ /\ TruncateFile(p) /\ pc'[p] = w[2] /\ writes' = writes
                   /\ disk' = [disk EXCEPT ![w[1]][w[2]] = Empty]
                \/ /\ FillFile(p) /\ pc[p] = w[2] /\ pc'[p] = "write"
                   /\ writes'[p] = writes[p] \ {w}
                   /\ disk' = [disk EXCEPT ![w[1]][w[2]] = w[3]]
<1> USE DEF TypeOK, Goto, passVars
<1>1. CASE TruncateFile(p)
  <2>1. PICK w \in writes[p] : pc' = [pc EXCEPT ![p] = w[2]]
                               /\ disk' = [disk EXCEPT ![w[1]][w[2]] = Empty]
    BY <1>1 DEF TruncateFile
  <2>2. QED BY <1>1, <2>1 DEF TruncateFile
<1>2. CASE FillFile(p)
  <2>1. PICK w \in writes[p] : /\ w[2] = pc[p]
                               /\ disk' = [disk EXCEPT ![w[1]][w[2]] = w[3]]
                               /\ writes' = [writes EXCEPT ![p] = @ \ {w}]
    BY <1>2 DEF FillFile
  <2>2. pc'[p] = "write" /\ writes'[p] = writes[p] \ {w} /\ w \in Certs \X CertFile \X Nat
    BY <1>2, <2>1 DEF FillFile
  <2>3. QED BY <1>2, <2>1, <2>2
<1>3. QED BY <1>1, <1>2

\* Every step keeps WriteInv.
LEMMA WriteKept ==
    ASSUME TypeOK, Rebuilding, RebuildInv, WriteInv, [Next]_vars
    PROVE  WriteInv'
<1>1. CASE OutsideStep
  BY <1>1, OutsideStill, NoWriteKeeps DEF NoWrite, Still
<1>2. ASSUME NEW p \in Procs, RebuildStep(p)
      PROVE  WriteInv'
  <2>1. \A q \in Procs \ {p} : writes'[q] = writes[q] /\ pc'[q] = pc[q]
    BY <1>2, OthersStill DEF Still
  <2>2. CASE TruncateFile(p) \/ FillFile(p)
    <3>1. PICK w \in writes[p] :
             /\ w \in Certs \X CertFile \X Nat
             /\ \/ /\ TruncateFile(p) /\ pc'[p] = w[2] /\ writes' = writes
                   /\ disk' = [disk EXCEPT ![w[1]][w[2]] = Empty]
                \/ /\ FillFile(p) /\ pc[p] = w[2] /\ pc'[p] = "write"
                   /\ writes'[p] = writes[p] \ {w}
                   /\ disk' = [disk EXCEPT ![w[1]][w[2]] = w[3]]
      BY <2>2, OneFile
    <3>2. pc'[p] \in Writing /\ writes'[p] \subseteq writes[p]
      BY <3>1 DEF Writing
    <3>3. ASSUME NEW q \in Procs
          PROVE  /\ writes'[q] # {} => pc'[q] \in Writing
                 /\ \A x, y \in writes'[q] : x[1] = y[1] /\ x[3] = y[3]
                 /\ \A x \in writes'[q] : x[3] > 0
      BY <2>1, <3>2 DEF WriteInv
    <3>4. ASSUME NEW c \in Certs, disk'[c]["crt"] = Empty
          PROVE  \E q \in Procs : pc'[q] = "crt" /\ \E x \in writes'[q] : x[1] = c /\ x[2] = "crt"
      <4>1. CASE c = w[1] /\ w[2] = "crt"
        <5>1. disk'[c]["crt"] = Empty => TruncateFile(p) /\ writes' = writes /\ pc'[p] = "crt"
          <6>1. w[3] > 0 /\ w[3] # Empty
            BY <3>1 DEF WriteInv, Empty
          <6>2. QED BY <3>1, <4>1, <6>1 DEF TypeOK
        <5>2. QED BY <3>1, <3>4, <4>1, <5>1
      <4>2. CASE ~(c = w[1] /\ w[2] = "crt")
        <5>1. disk[c]["crt"] = Empty
          BY <3>1, <3>4, <4>2 DEF TypeOK, CertFile
        <5>2. PICK q \in Procs : pc[q] = "crt" /\ \E x \in writes[q] : x[1] = c /\ x[2] = "crt"
          BY <5>1 DEF WriteInv
        <5>3. q # p
          <6>1. CASE TruncateFile(p)
            BY <5>2, <6>1 DEF TruncateFile
          <6>2. CASE ~TruncateFile(p)
            <7>1. ASSUME pc[p] = "crt", NEW x \in writes[p], x[1] = c PROVE FALSE
              BY <3>1, <4>2, <6>2, <7>1 DEF WriteInv
            <7>2. QED BY <5>2, <7>1
          <6>3. QED BY <6>1, <6>2
        <5>4. QED BY <2>1, <5>2, <5>3
      <4>3. QED BY <4>1, <4>2
    <3>5. QED BY <3>3, <3>4 DEF WriteInv
  <2>3. ASSUME NEW c \in Certs, JobObtain(p, c)
        PROVE  WriteInv'
    <3>1. /\ pc[p] = "jobs" /\ pc'[p] = "write" /\ UNCHANGED disk
          /\ writes'[p] = {c} \X CertFile \X {issued[c] + 1}
      BY <2>3 DEF JobObtain, TypeOK, Goto
    <3>2. issued[c] \in Nat
      BY DEF TypeOK
    <3>3. ASSUME NEW q \in Procs
          PROVE  /\ writes'[q] # {} => pc'[q] \in Writing
                 /\ \A x, y \in writes'[q] : x[1] = y[1] /\ x[3] = y[3]
                 /\ \A x \in writes'[q] : x[3] > 0
      <4>1. CASE q = p
        BY <3>1, <3>2, <4>1 DEF Writing
      <4>2. CASE q # p
        BY <2>1, <4>2 DEF WriteInv
      <4>3. QED BY <4>1, <4>2
    <3>4. ASSUME NEW b \in Certs, disk'[b]["crt"] = Empty
          PROVE  \E q \in Procs : pc'[q] = "crt" /\ \E x \in writes'[q] : x[1] = b /\ x[2] = "crt"
      <4>1. PICK q \in Procs : pc[q] = "crt" /\ \E x \in writes[q] : x[1] = b /\ x[2] = "crt"
        BY <3>1, <3>4 DEF WriteInv
      <4>2. q # p
        BY <3>1, <4>1
      <4>3. QED BY <2>1, <4>1, <4>2
    <3>5. QED BY <3>3, <3>4 DEF WriteInv
  <2>4. QED
    BY <1>2, <2>2, <2>3, NoWriteStep, NoWriteKeeps
<1>3. QED BY <1>1, <1>2, RebuildNext

\* WriteInv holds at first.
LEMMA WriteStarts ==
    ASSUME Init
    PROVE  WriteInv
BY DEF Init, WriteInv, CertFile, Empty

-----------------------------------------------------------------------------
\* Process p will yet generate s, if s has a certificate.
Will(p, s) ==
    \/ pc[p] \in {"list", "purge", "check"} \cup Writing
    \/ pc[p] = "jobs" /\ got[p]
    \/ pc[p] = "probe" /\ CertOf[s] \notin missing[p]
    \/ pc[p] \in {"gen", "fill"} /\ s \in queue[p] /\ CertOf[s] \notin missing[p]

\* Once conf/ was emptied, a site of the table whose certificate exists is in
\* conf/ or on its way there.
WillInv ==
    \A s \in table \ conf :
        swept /\ Exists(CertOf[s]) => \E p \in Procs : Will(p, s)

\* A step that forgets no site.
Forgets ==
    /\ UNCHANGED <<table, swept, disk>> /\ conf \subseteq conf'
    /\ \A s \in table \ conf' : \A q \in Procs : Will(q, s) => Will(q, s)'

\* Every step keeps WillInv.
LEMMA WillKept ==
    ASSUME TypeOK, Rebuilding, RebuildInv, WriteInv, WillInv, [Next]_vars
    PROVE  WillInv'
<1>1. ASSUME Forgets PROVE WillInv'
  <2>1. ASSUME NEW s \in table' \ conf', swept', Exists(CertOf[s])'
        PROVE  \E p \in Procs : Will(p, s)'
    <3>1. s \in table \ conf /\ swept /\ Exists(CertOf[s])
      BY <1>1, <2>1 DEF Forgets, Exists
    <3>2. PICK p \in Procs : Will(p, s)
      BY <3>1 DEF WillInv
    <3>3. QED BY <1>1, <2>1, <3>2 DEF Forgets
  <2>2. QED BY <2>1 DEF WillInv
<1>2. CASE OutsideStep
  BY <1>1, <1>2, OutsideStill DEF Forgets, Still, Will
<1>3. ASSUME NEW p \in Procs, RebuildStep(p)
      PROVE  WillInv'
  <2>0. UNCHANGED table
    BY <1>3, TableStill
  <2>1. \A q \in Procs \ {p} : \A s \in Sites : Will(q, s)' <=> Will(q, s)
    BY <1>3, OthersStill DEF Still, Will
  <2>2. ASSUME \A s \in Sites : Will(p, s)' PROVE WillInv'
    BY <2>0, <2>2 DEF WillInv, TypeOK
  <2>3. ASSUME UNCHANGED <<swept, disk>>, conf \subseteq conf',
               \A s \in table \ conf' : Will(p, s) => Will(p, s)'
        PROVE  WillInv'
    BY <1>1, <2>0, <2>1, <2>3 DEF Forgets, TypeOK
  <2>4. CASE TruncateFile(p) \/ FillFile(p)
    <3>1. pc'[p] \in Writing
      BY <2>4, OneFile DEF Writing
    <3>2. QED BY <2>2, <3>1 DEF Will
  <2> USE DEF TypeOK, Goto, Begin, certVars, passVars, genVars, history
  <2>5. CASE ListDir(p) \/ PurgeOne(p) \/ PurgeAbort(p)
    <3>1. pc'[p] = "purge"
      BY <2>5 DEF ListDir, PurgeOne, PurgeAbort
    <3>2. QED BY <2>2, <3>1 DEF Will
  <2>6. CASE PurgeDone(p)
    <3>1. cmd[p] # "clean"
      BY <2>6 DEF PurgeDone, RebuildInv, Rebuilding
    <3>2. pc'[p] = "check"
      BY <2>6, <3>1 DEF PurgeDone
    <3>3. QED BY <2>2, <3>2 DEF Will
  <2>7. CASE WriteDone(p) \/ \E c \in Certs : JobObtain(p, c)
    <3>1. pc'[p] = "write" \/ (pc'[p] = "jobs" /\ got'[p])
      BY <2>7 DEF WriteDone, JobObtain
    <3>2. QED BY <2>2, <3>1 DEF Will, Writing
  <2>8. CASE BeginPass(p, "renew", Certs) \/ BeginPlain(p)
    <3>1. pc[p] = "idle" /\ UNCHANGED <<swept, disk, conf>>
      BY <2>8 DEF BeginPass, BeginPlain
    <3>2. \A s \in Sites : ~Will(p, s)
      BY <3>1 DEF Will, Writing, CertFile
    <3>3. QED BY <2>3, <3>1, <3>2
  <2>9. CASE \E c \in Certs : JobSkip(p, c) \/ JobFail(p, c)
    <3>1. pc[p] = "jobs" /\ pc' = pc /\ got' = got /\ UNCHANGED <<swept, disk, conf>>
      BY <2>9 DEF JobSkip, JobFail
    <3>2. QED BY <2>3, <3>1 DEF Will, Writing, CertFile
  <2>10. CASE PassDone(p)
    <3>1. pc[p] = "jobs" /\ cmd[p] = "renew" /\ UNCHANGED <<swept, disk, conf>>
      BY <2>10 DEF PassDone, RebuildInv
    <3>2. pc'[p] = "list" \/ ~got[p]
      BY <2>10, <3>1 DEF PassDone
    <3>3. QED BY <2>3, <3>1, <3>2 DEF Will, Writing, CertFile
  <2>16. CASE Check(p)
    <3>1. pc'[p] = "probe" /\ missing'[p] = {}
      BY <2>16 DEF Check
    <3>2. QED BY <2>2, <3>1 DEF Will
  <2>11. ASSUME NEW c \in Certs, Probe(p, c) PROVE WillInv'
    <3>1. /\ pc[p] = "probe" /\ pc'[p] = "probe" /\ UNCHANGED <<swept, disk, conf>>
          /\ missing'[p] = IF Present(c) THEN missing[p] ELSE missing[p] \cup {c}
      BY <2>11 DEF Probe
    <3>2. ASSUME NEW s \in table' \ conf', swept', Exists(CertOf[s])'
          PROVE  \E q \in Procs : Will(q, s)'
      <4>0. s \in table \ conf /\ s \in Sites /\ CertOf[s] \in Certs /\ swept
            /\ Exists(CertOf[s])
        BY <2>0, <3>1, <3>2, CertOfAssumption DEF Exists
      <4>1. PICK q \in Procs : Will(q, s)
        BY <4>0 DEF WillInv
      <4>2. CASE q # p
        BY <2>1, <4>0, <4>1, <4>2
      <4>3. CASE q = p /\ (Present(c) \/ CertOf[s] # c)
        BY <3>1, <4>1, <4>3 DEF Will, Writing, CertFile
      <4>4. CASE ~Present(c) /\ CertOf[s] = c
        <5>1. disk[c]["crt"] \in Nat \cup {Empty} /\ disk[c]["crt"] # 0
          BY <4>0, <4>4 DEF Exists, CertFile
        <5>2. disk[c]["crt"] = Empty
          BY <4>4, <5>1 DEF Present
        <5>3. PICK r \in Procs : pc[r] = "crt"
          BY <5>2 DEF WriteInv
        <5>4. r # p /\ Will(r, s)
          BY <3>1, <5>3 DEF Will, Writing, CertFile
        <5>5. QED BY <2>1, <4>0, <5>4
      <4>5. QED BY <4>2, <4>3, <4>4
    <3>3. QED BY <3>2 DEF WillInv
  <2>12. CASE Parse(p)
    <3>1. /\ pc[p] = "probe" /\ pc'[p] = "gen" /\ queue'[p] = table /\ missing' = missing
          /\ UNCHANGED <<swept, disk, conf>>
      BY <2>12 DEF Parse
    <3>2. QED BY <2>3, <3>1 DEF Will, Writing, CertFile
  <2>13. ASSUME NEW t \in Sites, GenerateOne(p, t) PROVE WillInv'
    <3>1. /\ pc[p] = "gen" /\ pc'[p] \in {"gen", "fill"} /\ queue'[p] = queue[p] \ {t}
          /\ missing' = missing /\ UNCHANGED <<swept, disk>> /\ conf \subseteq conf'
          /\ t \in conf' \/ CertOf[t] \in missing[p]
      BY <2>13 DEF GenerateOne, Emits
    <3>2. QED BY <2>3, <3>1 DEF Will, Writing, CertFile
  <2>17. CASE FillConf(p)
    <3>1. cmd[p] \notin {"add", "edit"}
      BY <2>17 DEF FillConf, RebuildInv, Rebuilding
    <3>2. /\ pc[p] = "fill" /\ pc'[p] = "gen" /\ UNCHANGED <<queue, missing, swept, disk, conf>>
      BY <2>17, <3>1 DEF FillConf
    <3>3. QED BY <2>3, <3>2 DEF Will, Writing, CertFile
  <2>14. CASE GenerateDone(p) \/ Reload(p) \/ Restart(p)
    <3>1. /\ pc[p] \in {"reload", "restart"} \/ (pc[p] = "gen" /\ queue[p] = {})
          /\ UNCHANGED <<swept, disk, conf>>
      BY <2>14 DEF GenerateDone, Reload, Restart
    <3>2. \A s \in Sites : ~Will(p, s)
      BY <3>1 DEF Will, Writing, CertFile
    <3>3. QED BY <2>3, <3>1, <3>2
  <2>15. QED
    BY <1>3, <2>4, <2>5, <2>6, <2>7, <2>8, <2>9, <2>10, <2>11, <2>12, <2>13, <2>14,
       <2>16, <2>17
       DEF RebuildStep
<1>4. QED BY <1>2, <1>3, RebuildNext

-----------------------------------------------------------------------------
\* An empty file of conf/ is one that some process has truncated and will fill.
FillInv ==
    /\ \A p \in Procs : pc[p] # "fill" => open[p] = {}
    /\ \A s \in blank : \E p \in Procs : s \in open[p]

\* Every step keeps FillInv.
LEMMA FillKept ==
    ASSUME TypeOK, Rebuilding, RebuildInv, FillInv, [Next]_vars
    PROVE  FillInv'
<1>1. CASE OutsideStep
  BY <1>1, OutsideStill DEF FillInv, Still
<1>2. ASSUME NEW p \in Procs, RebuildStep(p)
      PROVE  FillInv'
  <2>1. \A q \in Procs \ {p} : pc'[q] = pc[q]
    BY <1>2, OthersStill DEF Still
  <2>2. ASSUME pc[p] # "fill", pc'[p] # "fill", UNCHANGED blank,
               open' = open \/ open' = [open EXCEPT ![p] = {}]
        PROVE  FillInv'
    <3>1. open[p] = {} /\ open \in [Procs -> SUBSET Sites]
      BY <2>2 DEF FillInv, TypeOK
    <3>2. \A q \in Procs : open'[q] = open[q]
      BY <2>2, <3>1
    <3>3. QED BY <2>1, <2>2, <3>2 DEF FillInv
  <2> USE DEF TypeOK
  <2>3. CASE PurgeOne(p)
    <3>1. PICK s \in conf : /\ blank' = blank \ {s} /\ pc' = pc
                            /\ open' = [q \in Procs |-> open[q] \ {s}]
      BY <2>3 DEF PurgeOne
    <3>2. QED BY <3>1 DEF FillInv
  <2>4. ASSUME NEW s \in Sites, GenerateOne(p, s) PROVE FillInv'
    <3>1. CASE pc' = pc /\ open' = open /\ blank' = blank
      BY <3>1 DEF FillInv
    <3>2. CASE pc'[p] = "fill" /\ open' = [open EXCEPT ![p] = {s}] /\ blank' = blank \cup {s}
      <4>1. open[p] = {}
        BY <2>4 DEF GenerateOne, FillInv
      <4>2. QED BY <2>1, <3>2, <4>1 DEF FillInv
    <3>3. QED BY <2>4, <3>1, <3>2 DEF GenerateOne, Goto
  <2>5. CASE FillConf(p)
    <3>1. blank' = blank \ open[p] /\ open' = [open EXCEPT ![p] = {}]
      BY <2>5 DEF FillConf
    <3>2. QED BY <2>1, <3>1 DEF FillInv
  <2>6. CASE ~PurgeOne(p) /\ ~FillConf(p) /\ \A s \in Sites : ~GenerateOne(p, s)
    <3>1. UNCHANGED blank
      BY <1>2, <2>6
         DEF RebuildStep, BeginPass, BeginPlain, JobSkip, JobObtain, JobFail, TruncateFile,
             FillFile, WriteDone, PassDone, ListDir, PurgeAbort, PurgeDone, Check, Probe,
             Parse, GenerateDone, Reload, Restart
    <3>2. open' = open \/ open' = [open EXCEPT ![p] = {}]
      BY <1>2, <2>6
         DEF RebuildStep, BeginPass, BeginPlain, JobSkip, JobObtain, JobFail, TruncateFile,
             FillFile, WriteDone, PassDone, ListDir, PurgeAbort, PurgeDone, Check, Probe,
             Parse, GenerateDone, Reload, Restart, Exit, genVars
    <3> USE DEF Goto, Begin, CertFile
    <3>3. ASSUME TruncateFile(p) PROVE pc[p] # "fill" /\ pc'[p] # "fill"
      <4>1. PICK w \in writes[p] : pc' = [pc EXCEPT ![p] = w[2]]
        BY <3>3 DEF TruncateFile
      <4>2. w[2] \in CertFile
        OBVIOUS
      <4>3. QED BY <3>3, <4>1, <4>2 DEF TruncateFile
    <3>4. ASSUME Exit(p) PROVE pc'[p] # "fill"
      BY <3>4 DEF Exit
    <3>5. CASE Reload(p) \/ Restart(p) \/ PassDone(p) \/ GenerateDone(p) \/ PurgeDone(p)
      <4>1. pc[p] # "fill" /\ pc'[p] # "fill"
        BY <3>4, <3>5 DEF Reload, Restart, PassDone, GenerateDone, PurgeDone
      <4>2. QED BY <2>2, <3>1, <3>2, <4>1
    <3>6. CASE BeginPass(p, "renew", Certs) \/ BeginPlain(p) \/ ListDir(p) \/ PurgeAbort(p)
      <4>1. pc[p] # "fill" /\ pc'[p] # "fill"
        BY <3>6 DEF BeginPass, BeginPlain, ListDir, PurgeAbort
      <4>2. QED BY <2>2, <3>1, <3>2, <4>1
    <3>7. CASE \E c \in Certs : JobSkip(p, c) \/ JobObtain(p, c) \/ JobFail(p, c) \/ Probe(p, c)
      <4>1. pc[p] # "fill" /\ pc'[p] # "fill"
        BY <3>7 DEF JobSkip, JobObtain, JobFail, Probe
      <4>2. QED BY <2>2, <3>1, <3>2, <4>1
    <3>8. CASE FillFile(p) \/ WriteDone(p) \/ Check(p) \/ Parse(p)
      <4>1. pc[p] # "fill" /\ pc'[p] # "fill"
        BY <3>8 DEF FillFile, WriteDone, Check, Parse
      <4>2. QED BY <2>2, <3>1, <3>2, <4>1
    <3>9. QED
      BY <1>2, <2>2, <2>6, <3>1, <3>2, <3>3, <3>5, <3>6, <3>7, <3>8 DEF RebuildStep
  <2>7. QED BY <2>3, <2>4, <2>5, <2>6
<1>3. QED BY <1>1, <1>2, RebuildNext

\* Once every command has ended and conf/ was emptied before, conf/ holds the
\* sites that have a certificate and no other, for any number of processes,
\* renewing ones among them, that run commands which rebuild conf/.
THEOREM ConfCurrent ==
    ASSUME Rebuilding
    PROVE  Spec => []RestConfCurrent
<1> DEFINE Inv == RebuildInv /\ StaleInv /\ WriteInv /\ WillInv /\ FillInv
<1>1. Init => Inv
  BY RebuildStarts, StaleStarts, WriteStarts DEF Init, WillInv, FillInv
<1>2. TypeOK /\ Inv /\ [Next]_vars => Inv'
  BY RebuildKept, StaleKept, WriteKept, WillKept, FillKept
<1>3. TypeOK /\ GeneratedHaveCert /\ Inv => RestConfCurrent
  <2> SUFFICES ASSUME TypeOK, GeneratedHaveCert, Inv, Quiescent, swept
               PROVE  conf \ blank = {s \in table : Present(CertOf[s])} /\ blank = {}
    BY DEF RestConfCurrent
  <2>1. \A p \in Procs : pc[p] = "idle"
    BY DEF Quiescent
  <2>2. conf \subseteq table
    BY <2>1 DEF StaleInv, Stale, Purging
  <2>3. ASSUME NEW s \in Sites, Exists(CertOf[s]) PROVE Present(CertOf[s])
    <3>1. CertOf[s] \in Certs /\ disk[CertOf[s]]["crt"] \in Nat \cup {Empty}
      BY CertOfAssumption DEF TypeOK, CertFile
    <3>2. disk[CertOf[s]]["crt"] # Empty
      BY <2>1, <3>1 DEF WriteInv
    <3>3. QED BY <2>3, <3>1, <3>2 DEF Exists, Present
  <2>4. \A s \in conf : Present(CertOf[s])
    BY <2>3 DEF GeneratedHaveCert, RebuildInv, Exists, TypeOK
  <2>5. ASSUME NEW s \in table, Present(CertOf[s]) PROVE s \in conf
    <3>1. Exists(CertOf[s])
      BY <2>5 DEF Present, Exists
    <3>2. \A p \in Procs : ~Will(p, s)
      BY <2>1 DEF Will, Writing, CertFile
    <3>3. QED BY <3>1, <3>2 DEF WillInv
  <2>6. blank = {}
    BY <2>1 DEF FillInv
  <2>7. QED BY <2>2, <2>4, <2>5, <2>6
<1> HIDE DEF Inv
<1>4. QED BY <1>1, <1>2, <1>3, DeployTypeOK, GeneratedSafe, PTL DEF Spec

-----------------------------------------------------------------------------
\* One process at most renews certificates, and every other command that
\* rebuilds conf/ reloads.
OneRenewer ==
    \A p \in Procs :
        /\ Commands[p] \subseteq {"renew", "regenerate", "reload", "restart"}
        /\ \A q \in Procs : "renew" \in Commands[p] \cap Commands[q] => p = q

\* A certificate nobody is writing is complete, and one that is being written
\* is complete but for the files still to write.
PartInv ==
    /\ \A p \in Procs : \A w \in writes[p] : \A f \in CertFile :
        <<w[1], f, w[3]>> \notin writes[p] => disk[w[1]][f] = w[3]
    /\ \A c \in Certs :
        (\A p \in Procs : \A w \in writes[p] : w[1] # c) =>
            \A f \in CertFile : disk[c][f] = disk[c]["crt"] /\ disk[c][f] \in Nat

\* Of two processes that have files to write, both are the renewer.
LEMMA OneWriter ==
    ASSUME Rebuilding, OneRenewer, RebuildInv, WriteInv,
           NEW p \in Procs, NEW q \in Procs,
           pc[p] \in {"jobs"} \cup Writing, pc[q] \in {"jobs"} \cup Writing
    PROVE  p = q
<1>1. cmd[p] = "renew" /\ cmd[p] \in Commands[p] /\ cmd[q] = "renew" /\ cmd[q] \in Commands[q]
  BY DEF RebuildInv, Writing, CertFile
<1>2. QED BY <1>1 DEF OneRenewer

\* Every step keeps PartInv.
LEMMA PartKept ==
    ASSUME TypeOK, Rebuilding, OneRenewer, RebuildInv, WriteInv, PartInv, [Next]_vars
    PROVE  PartInv'
<1>1. ASSUME NoWrite PROVE PartInv'
  <2>1. UNCHANGED disk /\ \A q \in Procs : writes'[q] = writes[q]
    BY <1>1 DEF NoWrite
  <2>2. QED BY <2>1 DEF PartInv
<1>2. CASE OutsideStep
  BY <1>1, <1>2, OutsideStill DEF NoWrite, Still
<1>3. ASSUME NEW p \in Procs, RebuildStep(p)
      PROVE  PartInv'
  <2>1. \A q \in Procs \ {p} : writes'[q] = writes[q]
    BY <1>3, OthersStill DEF Still
  <2>2. ASSUME pc[p] \in {"jobs"} \cup Writing, NEW q \in Procs \ {p}
        PROVE  writes[q] = {} /\ writes'[q] = {}
    BY <2>1, <2>2, OneWriter DEF WriteInv
  <2>3. CASE TruncateFile(p) \/ FillFile(p)
    <3>1. PICK w \in writes[p] :
             /\ w \in Certs \X CertFile \X Nat
             /\ \/ /\ TruncateFile(p) /\ pc'[p] = w[2] /\ writes' = writes
                   /\ disk' = [disk EXCEPT ![w[1]][w[2]] = Empty]
                \/ /\ FillFile(p) /\ pc[p] = w[2] /\ pc'[p] = "write"
                   /\ writes'[p] = writes[p] \ {w}
                   /\ disk' = [disk EXCEPT ![w[1]][w[2]] = w[3]]
      BY <2>3, OneFile
    <3>2. pc[p] \in {"jobs"} \cup Writing
      BY <3>1 DEF WriteInv
    <3>3. \A q \in Procs \ {p} : writes[q] = {} /\ writes'[q] = {}
      BY <2>2, <3>2
    <3>4. \A x \in writes[p] : x = <<w[1], x[2], w[3]>> /\ x[2] \in CertFile
      BY <3>1 DEF WriteInv, TypeOK
    <3>5. w = <<w[1], w[2], w[3]>> /\ w[1] \in Certs /\ w[2] \in CertFile /\ w[3] \in Nat
      BY <3>1
    <3>6. \A c \in Certs \ {w[1]} : disk'[c] = disk[c]
      BY <3>1, <3>5 DEF TypeOK
    <3>7. \A f \in CertFile \ {w[2]} : disk'[w[1]][f] = disk[w[1]][f]
      BY <3>1, <3>5 DEF TypeOK
    <3>8. ASSUME NEW f \in CertFile, <<w[1], f, w[3]>> \notin writes'[p]
          PROVE  disk'[w[1]][f] = w[3]
      <4>1. CASE f = w[2]
        <5>1. ~TruncateFile(p) \/ writes' # writes
          BY <3>1, <3>5, <3>8, <4>1
        <5>2. disk' = [disk EXCEPT ![w[1]][w[2]] = w[3]]
          BY <3>1, <5>1
        <5>3. QED BY <3>5, <4>1, <5>2 DEF TypeOK
      <4>2. CASE f # w[2]
        <5>1. <<w[1], f, w[3]>> # w
          BY <3>5, <4>2
        <5>2. <<w[1], f, w[3]>> \notin writes[p]
          BY <3>1, <3>8, <5>1
        <5>3. disk[w[1]][f] = w[3]
          BY <5>2 DEF PartInv
        <5>4. QED BY <3>7, <4>2, <5>3
      <4>3. QED BY <4>1, <4>2
    <3>9. ASSUME NEW q \in Procs, NEW x \in writes'[q], NEW f \in CertFile,
                 <<x[1], f, x[3]>> \notin writes'[q]
          PROVE  disk'[x[1]][f] = x[3]
      <4>1. q = p /\ x \in writes[p]
        BY <3>1, <3>3, <3>9
      <4>2. x[1] = w[1] /\ x[3] = w[3]
        BY <4>1 DEF WriteInv
      <4>3. QED BY <3>8, <3>9, <4>1, <4>2
    <3>10. ASSUME NEW c \in Certs, \A q \in Procs : \A x \in writes'[q] : x[1] # c,
                  NEW f \in CertFile
           PROVE  disk'[c][f] = disk'[c]["crt"] /\ disk'[c][f] \in Nat
      <4>1. CASE c = w[1]
        <5>1. writes'[p] = {}
          BY <3>1, <3>4, <3>10, <4>1
        <5>2. disk'[c][f] = w[3] /\ disk'[c]["crt"] = w[3]
          BY <3>8, <4>1, <5>1 DEF CertFile
        <5>3. QED BY <3>5, <5>2
      <4>2. CASE c # w[1]
        <5>1. \A q \in Procs : \A x \in writes[q] : x[1] # c
          BY <3>3, <3>4, <4>2
        <5>2. QED BY <3>6, <4>2, <5>1 DEF PartInv
      <4>3. QED BY <4>1, <4>2
    <3>11. QED BY <3>9, <3>10 DEF PartInv
  <2>4. ASSUME NEW c \in Certs, JobObtain(p, c)
        PROVE  PartInv'
    <3>1. /\ pc[p] = "jobs" /\ UNCHANGED disk
          /\ writes'[p] = {c} \X CertFile \X {issued[c] + 1}
      BY <2>4 DEF JobObtain, TypeOK, Goto
    <3>2. \A q \in Procs \ {p} : writes[q] = {} /\ writes'[q] = {}
      BY <2>2, <3>1
    <3>3. writes[p] = {}
      BY <3>1 DEF WriteInv, Writing, CertFile
    <3>4. \A q \in Procs : \A x \in writes'[q], f \in CertFile : <<x[1], f, x[3]>> \in writes'[q]
      BY <3>1, <3>2
    <3>5. \A b \in Certs, f \in CertFile : disk[b][f] = disk[b]["crt"] /\ disk[b][f] \in Nat
      BY <3>2, <3>3 DEF PartInv
    <3>6. QED BY <3>1, <3>4, <3>5 DEF PartInv
  <2>5. QED
    BY <1>1, <1>3, <2>3, <2>4, NoWriteStep
<1>4. QED BY <1>2, <1>3, RebuildNext

\* PartInv holds at first.
LEMMA PartStarts ==
    ASSUME Init
    PROVE  PartInv
<1>1. PICK have \in SUBSET Certs :
        disk = [c \in Certs |-> [f \in CertFile |-> IF c \in have THEN 1 ELSE 0]]
  BY DEF Init
<1>2. \A p \in Procs : writes[p] = {}
  BY DEF Init
<1>3. \A c \in Certs, f \in CertFile : disk[c][f] = disk[c]["crt"] /\ disk[c][f] \in Nat
  BY <1>1 DEF CertFile
<1>4. QED BY <1>2, <1>3 DEF PartInv

\* While no process has files to write, nginx accepts conf/.
LEMMA LoadableAtRest ==
    ASSUME TypeOK, GeneratedHaveCert, RebuildInv, PartInv,
           \A p \in Procs : writes[p] = {}
    PROVE  Loadable
<1>1. SUFFICES ASSUME NEW s \in conf \ blank
               PROVE  /\ \A f \in CertFile : disk[CertOf[s]][f] > 0
                      /\ disk[CertOf[s]]["crt"] = disk[CertOf[s]]["key"]
  BY DEF Loadable
<1> DEFINE c == CertOf[s]
<1>2. c \in Certs /\ disk[c]["crt"] # 0
  BY CertOfAssumption DEF TypeOK, GeneratedHaveCert, RebuildInv
<1>3. \A f \in CertFile : disk[c][f] = disk[c]["crt"] /\ disk[c][f] \in Nat
  BY <1>2 DEF PartInv
<1> HIDE DEF c
<1>4. \A f \in CertFile : disk[c][f] > 0
  BY <1>2, <1>3
<1>5. disk[c]["crt"] = disk[c]["key"]
  BY <1>3 DEF CertFile
<1>6. QED BY <1>4, <1>5 DEF c

\* Process p will yet load the configuration.
Pending(p) ==
    \/ pc[p] \in {"list", "purge", "check", "probe", "gen", "fill", "reload", "restart"} \cup Writing
    \/ pc[p] = "jobs" /\ got[p]

\* Whatever a running nginx has not loaded will be loaded.
ServeInv == up /\ run # Loaded => \E p \in Procs : Pending(p)

\* Every step keeps ServeInv.
LEMMA ServeKept ==
    ASSUME TypeOK, Rebuilding, OneRenewer, GeneratedHaveCert,
           RebuildInv, WriteInv, PartInv, ServeInv, [Next]_vars
    PROVE  ServeInv'
<1>1. ASSUME UNCHANGED <<up, run, conf, blank, disk>>, \A q \in Procs : Pending(q) => Pending(q)'
      PROVE  ServeInv'
  BY <1>1 DEF ServeInv, Loaded
<1>2. CASE OutsideStep
  <2>1. CASE DockerRetry
    <3>1. run' = Loaded /\ UNCHANGED <<conf, blank, disk>>
      BY <2>1 DEF DockerRetry, certVars
    <3>2. QED BY <3>1 DEF ServeInv, Loaded
  <2>2. CASE ~DockerRetry
    <3>1. UNCHANGED <<up, run>>
      BY <1>2, <2>2 DEF OutsideStep, vars, nginxVars, Tick
    <3>2. QED BY <1>1, <1>2, <3>1, OutsideStill DEF Still, Pending
  <2>3. QED BY <2>1, <2>2
<1>3. ASSUME NEW p \in Procs, RebuildStep(p)
      PROVE  ServeInv'
  <2>1. \A q \in Procs \ {p} : Pending(q)' <=> Pending(q)
    BY <1>3, OthersStill DEF Still, Pending
  <2>2. ASSUME Pending(p)' PROVE ServeInv'
    BY <2>2 DEF ServeInv
  <2>3. ASSUME UNCHANGED <<up, run, conf, blank, disk>>, ~Pending(p) PROVE ServeInv'
    BY <1>1, <2>1, <2>3
  <2>4. CASE TruncateFile(p) \/ FillFile(p)
    <3>1. pc'[p] \in Writing
      BY <2>4, OneFile DEF Writing
    <3>2. QED BY <2>2, <3>1 DEF Pending
  <2> USE DEF TypeOK, Goto, Begin, certVars, nginxVars, passVars, genVars, history
  <2>5. CASE ListDir(p) \/ PurgeOne(p) \/ PurgeAbort(p) \/ Check(p) \/ Parse(p)
             \/ (\E s \in Sites : GenerateOne(p, s)) \/ (\E c \in Certs : Probe(p, c))
    <3>1. pc'[p] \in {"purge", "probe", "gen", "fill"}
      BY <2>5 DEF ListDir, PurgeOne, PurgeAbort, Check, Probe, Parse, GenerateOne
    <3>2. QED BY <2>2, <3>1 DEF Pending
  <2>14. CASE FillConf(p)
    <3>1. pc'[p] \in {"gen", "reload"}
      BY <2>14 DEF FillConf
    <3>2. QED BY <2>2, <3>1 DEF Pending
  <2>6. CASE PurgeDone(p)
    <3>1. cmd[p] # "clean"
      BY <2>6 DEF PurgeDone, RebuildInv, Rebuilding
    <3>2. pc'[p] = "check"
      BY <2>6, <3>1 DEF PurgeDone
    <3>3. QED BY <2>2, <3>2 DEF Pending
  <2>7. CASE GenerateDone(p)
    <3>1. cmd[p] # "generate"
      BY <2>7 DEF GenerateDone, RebuildInv, OneRenewer
    <3>2. pc'[p] = "reload"
      BY <2>7, <3>1 DEF GenerateDone
    <3>3. QED BY <2>2, <3>2 DEF Pending
  <2>8. CASE WriteDone(p) \/ \E c \in Certs : JobObtain(p, c)
    <3>1. pc'[p] = "write" \/ (pc'[p] = "jobs" /\ got'[p])
      BY <2>8 DEF WriteDone, JobObtain
    <3>2. QED BY <2>2, <3>1 DEF Pending, Writing
  <2>9. CASE BeginPass(p, "renew", Certs) \/ BeginPlain(p)
    <3>1. pc[p] = "idle" /\ UNCHANGED <<up, run, conf, blank, disk>>
      BY <2>9 DEF BeginPass, BeginPlain
    <3>2. QED BY <2>3, <3>1 DEF Pending, Writing, CertFile
  <2>10. CASE \E c \in Certs : JobSkip(p, c) \/ JobFail(p, c)
    <3>1. pc' = pc /\ got' = got /\ UNCHANGED <<up, run, conf, blank, disk>>
      BY <2>10 DEF JobSkip, JobFail
    <3>2. Pending(p)' <=> Pending(p)
      BY <3>1 DEF Pending
    <3>3. QED BY <1>1, <2>1, <3>1, <3>2
  <2>11. CASE PassDone(p)
    <3>1. pc[p] = "jobs" /\ cmd[p] = "renew" /\ UNCHANGED <<up, run, conf, blank, disk>>
      BY <2>11 DEF PassDone, RebuildInv
    <3>2. CASE got[p]
      <4>1. pc'[p] = "list"
        BY <2>11, <3>1, <3>2 DEF PassDone
      <4>2. QED BY <2>2, <4>1 DEF Pending
    <3>3. CASE ~got[p]
      BY <2>3, <3>1, <3>3 DEF Pending, Writing, CertFile
    <3>4. QED BY <3>2, <3>3
  <2>12. CASE Reload(p) \/ Restart(p)
    <3>1. UNCHANGED <<conf, blank, disk>> /\ Loaded' = Loaded
      BY <2>12 DEF Reload, Restart, Loaded
    <3>2. CASE Loadable
      <4>1. up' => run' = Loaded \/ (UNCHANGED <<up, run>> /\ ~up)
        BY <2>12, <3>2 DEF Reload, Restart
      <4>2. QED BY <3>1, <4>1 DEF ServeInv
    <3>3. CASE ~Loadable
      <4>1. PICK q \in Procs : writes[q] # {}
        BY <3>3, LoadableAtRest
      <4>2. pc[q] \in Writing
        BY <4>1 DEF WriteInv
      <4>3. q # p /\ Pending(q)
        BY <2>12, <4>2 DEF Reload, Restart, Pending, Writing, CertFile
      <4>4. QED BY <2>1, <4>3 DEF ServeInv
    <3>4. QED BY <3>2, <3>3
  <2>13. QED
    BY <1>3, <2>4, <2>5, <2>6, <2>7, <2>8, <2>9, <2>10, <2>11, <2>12,
       <2>14
       DEF RebuildStep
<1>4. QED BY <1>2, <1>3, RebuildNext

\* When every command has ended, a running nginx holds the files of conf/ and
\* the issuances on disk, for any number of rebuilding processes of which one
\* renews.
THEOREM ServesDisk ==
    ASSUME Rebuilding, OneRenewer
    PROVE  Spec => []RestServesDisk
<1> DEFINE Inv == RebuildInv /\ WriteInv /\ PartInv /\ ServeInv
<1>1. Init => Inv
  BY RebuildStarts, WriteStarts, PartStarts DEF Init, ServeInv
<1>2. TypeOK /\ GeneratedHaveCert /\ Inv /\ [Next]_vars => Inv'
  BY RebuildKept, WriteKept, PartKept, ServeKept
<1>3. Inv => RestServesDisk
  BY DEF ServeInv, Pending, RestServesDisk, Quiescent, Writing, CertFile
<1> HIDE DEF Inv
<1>4. QED BY <1>1, <1>2, <1>3, DeployTypeOK, GeneratedSafe, PTL DEF Spec
=============================================================================
