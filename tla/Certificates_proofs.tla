------------------------ MODULE Certificates_proofs ------------------------
(***************************************************************************)
(* Theorems about the parts of an issuance: the account (Account), the     *)
(* names a certificate is asked for (CertJobs) and the records that prove  *)
(* them (Wedos), for any number of processes and names.                    *)
(***************************************************************************)
EXTENDS Account, CertJobs, Wedos, TLAPS

----------------------------------------------------------------------------
(* Account *)

Issuer == [at : {"idle", "key", "generate", "fillkey", "saved", "register",
                 "fillreg", "connected"}, key : Nat, kid : Nat]
AcctTypeOK ==
    /\ key \in Nat \cup {Torn} /\ reg \in Nat \cup {Torn} /\ made \in Nat
    /\ issuer \in [Issuers -> Issuer] /\ crossed \in BOOLEAN

\* A key is made while there is none, and by one process from the moment the file
\* is emptied; whoever is past the key holds that of the file.
HoldsKey(p) ==
    /\ IssuerAt(p, "generate") => key = 0
    /\ IssuerAt(p, "fillkey") => key = Torn /\ issuer[p].key # 0
    /\ issuer[p].at \in {"saved", "register", "fillreg", "connected"}
         => key \notin {0, Torn} /\ issuer[p].key = key
    /\ issuer[p].at \in {"fillreg", "connected"} => issuer[p].kid = issuer[p].key
OneKey ==
    /\ \A p \in Issuers : HoldsKey(p)
    /\ \A p, q \in Issuers : IssuerAt(p, "fillkey") /\ IssuerAt(q, "fillkey") => p = q
    /\ reg \notin {0, Torn} => reg = key

AcctInv == AcctTypeOK /\ (~crossed => OneKey)

LEMMA NoIssuerType == NoIssuer \in Issuer
BY DEF NoIssuer, Issuer

LEMMA AcctStep == AcctInv /\ [AcctNext]_acctVars => AcctInv'
<1> SUFFICES ASSUME AcctInv, [AcctNext]_acctVars PROVE AcctInv'
  OBVIOUS
<1> USE NoIssuerType DEF IssuerAt, IssuerTo
<1>0. AcctTypeOK /\ (~crossed => OneKey) /\ \A p \in Issuers : issuer[p] \in Issuer
  BY DEF AcctInv, AcctTypeOK
\* A step of p from one place to another that leaves the files as they are.
<1>a. ASSUME NEW p \in Issuers, NEW new \in Issuer, issuer' = [issuer EXCEPT ![p] = new],
             UNCHANGED <<key, reg, made, crossed>>,
             ~crossed => /\ new.at = "generate" => key = 0
                         /\ new.at # "fillkey"
                         /\ new.at \in {"saved", "register", "fillreg", "connected"}
                              => key \notin {0, Torn} /\ new.key = key
                         /\ new.at \in {"fillreg", "connected"} => new.kid = new.key
      PROVE  AcctInv'
  <2>1. AcctTypeOK'
    BY <1>0, <1>a DEF AcctTypeOK
  <2>2. \A q \in Issuers : issuer'[q] = IF q = p THEN new ELSE issuer[q]
    BY <1>0, <1>a DEF AcctTypeOK
  <2>3. ~crossed => OneKey'
    BY <1>0, <1>a, <2>2 DEF OneKey, HoldsKey
  <2> QED BY <1>a, <2>1, <2>3 DEF AcctInv
<1>1. ASSUME NEW p \in Issuers, Connect(p) PROVE AcctInv'
  <2>1. [issuer[p] EXCEPT !.at = "key"] \in Issuer
    BY <1>0 DEF Issuer
  <2> QED BY <1>0, <1>1, <1>a, <2>1 DEF Connect, Issuer
<1>2. ASSUME NEW p \in Issuers, LoadKey(p) PROVE AcctInv'
  <2>0. UNCHANGED <<key, reg, made, crossed>>
    BY <1>2 DEF LoadKey
  <2>1. CASE key = 0
    <3>1. [issuer[p] EXCEPT !.at = "generate"] \in Issuer
      BY <1>0 DEF Issuer
    <3>2. issuer' = [issuer EXCEPT ![p] = [issuer[p] EXCEPT !.at = "generate"]]
      BY <1>2, <2>1 DEF LoadKey, Torn
    <3> QED BY <1>0, <1>a, <2>0, <2>1, <3>1, <3>2 DEF Issuer
  <2>2. CASE key = Torn
    BY <1>2, <1>a, <2>0, <2>2 DEF LoadKey, Torn, NoIssuer
  <2>3. CASE key \notin {0, Torn}
    <3> DEFINE new == [issuer[p] EXCEPT !.at = "saved", !.key = key]
    <3>1. key \in Nat
      BY <1>0, <2>3 DEF AcctTypeOK
    <3>2. new \in Issuer /\ new.at = "saved" /\ new.key = key
      BY <1>0, <3>1 DEF Issuer
    <3>3. issuer' = [issuer EXCEPT ![p] = new]
      BY <1>0, <1>2, <2>3 DEF LoadKey, AcctTypeOK
    <3> HIDE DEF new
    <3> QED BY <1>a, <2>0, <2>3, <3>2, <3>3
  <2> QED BY <2>1, <2>2, <2>3
<1>3. ASSUME NEW p \in Issuers, TruncateKey(p) PROVE AcctInv'
  <2> DEFINE new == [issuer[p] EXCEPT !.at = "fillkey", !.key = made + 1]
  <2>0. made + 1 \in Nat
    BY <1>0 DEF AcctTypeOK
  <2>1. new \in Issuer /\ new.at = "fillkey" /\ new.key = made + 1
    BY <1>0, <2>0 DEF Issuer
  <2>2. /\ issuer' = [issuer EXCEPT ![p] = new] /\ key' = Torn /\ made' = made + 1
        /\ reg' = reg
    BY <1>0, <1>3 DEF TruncateKey, AcctTypeOK
  <2>3. crossed' = (crossed \/ \E q \in Issuers \ {p} : Making(q))
    BY <1>3 DEF TruncateKey
  <2> HIDE DEF new
  <2>4. AcctTypeOK'
    <3>1. crossed' \in BOOLEAN
      BY <2>3
    <3> QED BY <1>0, <2>0, <2>1, <2>2, <3>1 DEF AcctTypeOK
  <2>5. ASSUME ~crossed' PROVE OneKey'
    <3>1. OneKey /\ \A q \in Issuers \ {p} : issuer[q].at \notin {"generate", "fillkey"}
      BY <1>0, <2>3, <2>5 DEF Making
    <3>2. key = 0
      BY <1>3, <3>1 DEF OneKey, HoldsKey, TruncateKey
    <3>3. \A q \in Issuers : issuer'[q] = IF q = p THEN new ELSE issuer[q]
      BY <1>0, <2>2 DEF AcctTypeOK
    <3>4. made + 1 # 0
      BY <1>0 DEF AcctTypeOK
    <3> QED BY <2>1, <2>2, <3>1, <3>2, <3>3, <3>4 DEF OneKey, HoldsKey
  <2> QED BY <2>4, <2>5 DEF AcctInv
<1>4. ASSUME NEW p \in Issuers, FillKey(p) PROVE AcctInv'
  <2> DEFINE new == [issuer[p] EXCEPT !.at = "saved"]
  <2>1. new \in Issuer /\ new.at = "saved" /\ new.key = issuer[p].key /\ issuer[p].key \in Nat
    BY <1>0 DEF Issuer
  <2>2. /\ issuer' = [issuer EXCEPT ![p] = new] /\ key' = issuer[p].key
        /\ UNCHANGED <<reg, made, crossed>> /\ issuer[p].at = "fillkey"
    BY <1>4 DEF FillKey
  <2> HIDE DEF new
  <2>3. AcctTypeOK'
    BY <1>0, <2>1, <2>2 DEF AcctTypeOK
  <2>4. ASSUME ~crossed PROVE OneKey'
    <3>1. OneKey /\ key = Torn /\ issuer[p].key # 0
      BY <1>0, <2>2, <2>4 DEF OneKey, HoldsKey
    <3>2. \A q \in Issuers : issuer'[q] = IF q = p THEN new ELSE issuer[q]
      BY <1>0, <2>2 DEF AcctTypeOK
    <3>3. issuer[p].key # Torn
      BY <2>1 DEF Torn
    <3> QED BY <2>1, <2>2, <3>1, <3>2, <3>3 DEF OneKey, HoldsKey, Torn
  <2> QED BY <2>2, <2>3, <2>4 DEF AcctInv
<1>5. ASSUME NEW p \in Issuers, LoadSaved(p) PROVE AcctInv'
  <2>0. UNCHANGED <<key, reg, made, crossed>> /\ issuer[p].at = "saved"
    BY <1>5 DEF LoadSaved
  <2>1. CASE reg \in {0, Torn}
    <3> DEFINE new == [issuer[p] EXCEPT !.at = "register"]
    <3>1. new \in Issuer /\ new.at = "register" /\ new.key = issuer[p].key
      BY <1>0 DEF Issuer
    <3>2. issuer' = [issuer EXCEPT ![p] = new]
      BY <1>5, <2>1 DEF LoadSaved
    <3> QED BY <1>0, <1>a, <2>0, <3>1, <3>2 DEF OneKey, HoldsKey
  <2>2. CASE reg \notin {0, Torn}
    <3> DEFINE new == [issuer[p] EXCEPT !.at = "connected", !.kid = reg]
    <3>1. reg \in Nat
      BY <1>0, <2>2 DEF AcctTypeOK
    <3>2. new \in Issuer /\ new.at = "connected" /\ new.key = issuer[p].key /\ new.kid = reg
      BY <1>0, <3>1 DEF Issuer
    <3>3. issuer' = [issuer EXCEPT ![p] = new]
      BY <1>5, <2>2 DEF LoadSaved
    <3> HIDE DEF new
    <3> QED BY <1>0, <1>a, <2>0, <2>2, <3>2, <3>3 DEF OneKey, HoldsKey
  <2> QED BY <2>1, <2>2
<1>6. ASSUME NEW p \in Issuers, Register(p) PROVE AcctInv'
  <2>0. UNCHANGED <<key, made, crossed>> /\ issuer[p].at = "register"
    BY <1>6 DEF Register
  <2>1. CASE reg' = Torn /\ issuer' = [issuer EXCEPT ![p].at = "fillreg",
                                                     ![p].kid = issuer[p].key]
    <3> DEFINE new == [issuer[p] EXCEPT !.at = "fillreg", !.kid = issuer[p].key]
    <3>1. /\ new \in Issuer /\ new.at = "fillreg" /\ new.key = issuer[p].key
          /\ new.kid = issuer[p].key
      BY <1>0 DEF Issuer
    <3>2. issuer' = [issuer EXCEPT ![p] = new]
      BY <1>0, <2>1 DEF AcctTypeOK
    <3> HIDE DEF new
    <3>3. AcctTypeOK'
      BY <1>0, <2>0, <2>1, <3>1, <3>2 DEF AcctTypeOK
    <3>4. \A q \in Issuers : issuer'[q] = IF q = p THEN new ELSE issuer[q]
      BY <1>0, <3>2 DEF AcctTypeOK
    <3>5. ASSUME ~crossed PROVE OneKey'
      <4>1. OneKey /\ key \notin {0, Torn} /\ issuer[p].key = key
        BY <1>0, <2>0, <3>5 DEF OneKey, HoldsKey
      <4>2. \A q \in Issuers : HoldsKey(q)'
        BY <2>0, <3>1, <3>4, <4>1 DEF OneKey, HoldsKey
      <4>3. reg' \notin {0, Torn} => reg' = key'
        BY <2>1, <4>1 DEF OneKey
      <4>4. \A q \in Issuers : issuer'[q].at = "fillkey" => q # p /\ issuer[q].at = "fillkey"
        BY <3>1, <3>4
      <4>5. ASSUME NEW q \in Issuers, NEW r \in Issuers,
                   issuer'[q].at = "fillkey", issuer'[r].at = "fillkey"
            PROVE  q = r
        BY <4>1, <4>4, <4>5 DEF OneKey, IssuerAt
      <4> QED BY <4>2, <4>3, <4>5 DEF OneKey, IssuerAt
    <3> QED BY <2>0, <3>3, <3>5 DEF AcctInv
  <2>2. CASE reg' = reg /\ issuer' = [issuer EXCEPT ![p] = NoIssuer]
    BY <1>a, <2>0, <2>2 DEF NoIssuer
  <2> QED BY <1>6, <2>1, <2>2 DEF Register
<1>7. ASSUME NEW p \in Issuers, FillReg(p) PROVE AcctInv'
  <2> DEFINE new == [issuer[p] EXCEPT !.at = "connected"]
  <2>1. /\ new \in Issuer /\ new.at = "connected" /\ new.key = issuer[p].key
        /\ new.kid = issuer[p].kid /\ issuer[p].kid \in Nat
    BY <1>0 DEF Issuer
  <2>2. /\ issuer' = [issuer EXCEPT ![p] = new] /\ reg' = issuer[p].kid
        /\ UNCHANGED <<key, made, crossed>> /\ issuer[p].at = "fillreg"
    BY <1>7 DEF FillReg
  <2> HIDE DEF new
  <2>3. AcctTypeOK'
    BY <1>0, <2>1, <2>2 DEF AcctTypeOK
  <2>4. \A q \in Issuers : issuer'[q] = IF q = p THEN new ELSE issuer[q]
    BY <1>0, <2>2 DEF AcctTypeOK
  <2>5. ~crossed => OneKey'
    BY <1>0, <2>1, <2>2, <2>4 DEF OneKey, HoldsKey
  <2> QED BY <2>2, <2>3, <2>5 DEF AcctInv
<1>8. ASSUME NEW p \in Issuers, IssuerEnds(p) PROVE AcctInv'
  BY <1>8, <1>a DEF IssuerEnds, NoIssuer
<1>9. CASE UNCHANGED acctVars
  BY <1>9 DEF acctVars, AcctInv, AcctTypeOK, OneKey, HoldsKey
<1> QED BY <1>1, <1>2, <1>3, <1>4, <1>5, <1>6, <1>7, <1>8, <1>9 DEF AcctNext

\* Whoever connects holds the key of its account, for any number of issuers killed at
\* any point, unless two of them made a key at the same time.
THEOREM AccountHolds == AcctSpec => []AccountAccepted
<1>1. AcctInit => AcctInv
  <2> SUFFICES ASSUME AcctInit PROVE AcctInv
    OBVIOUS
  <2>1. AcctTypeOK
    BY NoIssuerType DEF AcctInit, AcctTypeOK
  <2>2. OneKey
    BY DEF AcctInit, OneKey, HoldsKey, IssuerAt, NoIssuer
  <2> QED BY <2>1, <2>2 DEF AcctInv
<1>2. AcctInv => AccountAccepted
  BY DEF AcctInv, OneKey, HoldsKey, IssuerAt, AccountAccepted
<1> QED BY <1>1, <1>2, AcctStep, PTL DEF AcctSpec
----------------------------------------------------------------------------
(* CertJobs *)

Job == [cert : Certs, names : SUBSET (Sites \cup {"*"}), kind : {"sites", "manual", "wildcard"}]
Pass == [at : {"idle", "look", "obtain", "enlist", "fillwild"}, force : BOOLEAN,
         todo : SUBSET Job, cur : SUBSET Job, enlist : SUBSET Certs,
         known : SUBSET Uses, torn : BOOLEAN]
JobsTypeOK ==
    /\ table \subseteq Uses /\ moved \subseteq Uses /\ torn \in BOOLEAN /\ wild \subseteq Certs
    /\ cert \in [Certs -> [names : SUBSET (Sites \cup {"*"}), age : {"none", "fresh", "due"}]]
    /\ pass \in [Passes -> Pass]

\* A job is for every site that had the certificate in sites.conf when the list was
\* made, if it is no wildcard's, and no manual config's that a truncated file let in.
Covers(j, known, cut) ==
    j.kind = "sites" \/ (j.kind = "manual" /\ ~cut) => SitesOf(j.cert, known) \subseteq j.names
Complete(ps) == \A j \in ps.todo \cup ps.cur : Covers(j, ps.known, ps.torn)
JobsInv == JobsTypeOK /\ \A p \in Passes : Complete(pass[p])

LEMMA NoPassType == NoPass \in Pass /\ Complete(NoPass)
BY DEF NoPass, Pass, Complete

\* The sites of a certificate in a table are sites.
LEMMA SitesOfSites ==
    ASSUME NEW c, NEW t, t \subseteq Uses
    PROVE  SitesOf(c, t) \subseteq Sites /\ \A u \in t : u[2] = c => u[1] \in SitesOf(c, t)
BY CertJobsAssumption DEF SitesOf

\* What certSites makes of the three sources covers the sites of sites.conf.
LEMMA CertSitesCover ==
    ASSUME JobsTypeOK
    PROVE  \A j \in CertSites : j \in Job /\ Covers(j, table, torn)
<1> USE DEF JobsTypeOK
<1>0. Read \subseteq Uses /\ (~torn => Read = table) /\ (torn => Read = {})
  BY DEF Read
<1>1. ASSUME NEW j \in SiteJobs PROVE j \in Job /\ Covers(j, table, torn)
  <2>1. PICK u \in Read : j = SiteJob(u[2])
    BY <1>1 DEF SiteJobs
  <2>2. u[2] \in Certs /\ SitesOf(u[2], Read) \subseteq Sites
    BY <1>0, CertJobsAssumption, SitesOfSites
  <2>3. Read = table
    BY <1>0, <2>1
  <2> QED BY <2>1, <2>2, <2>3 DEF SiteJob, Job, Covers
<1>2. ASSUME NEW j \in MovedJobs PROVE j \in Job /\ Covers(j, table, torn)
  <2>1. PICK u \in moved : SitesOf(u[2], Read) = {} /\ j = MovedJob(First(u[2]))
    BY <1>2 DEF MovedJobs
  <2>2. First(u[2]) \in moved /\ First(u[2])[2] = u[2]
    BY DEF First
  <2>3. First(u[2])[1] \in Sites /\ First(u[2])[2] \in Certs
    BY <2>2, CertJobsAssumption
  <2>4. j.cert = u[2] /\ j.kind = "manual" /\ j \in Job
    BY <2>1, <2>2, <2>3 DEF MovedJob, Job
  <2> QED BY <1>0, <2>1, <2>4 DEF Covers
<1>3. ASSUME NEW c \in wild PROVE WildJob(c) \in Job /\ Covers(WildJob(c), table, torn)
  BY DEF WildJob, Job, Covers
<1> QED BY <1>1, <1>2, <1>3 DEF CertSites, WildJobs

\* A step of one pass that takes no certificate.
LEMMA OnePass ==
    ASSUME JobsInv, NEW p \in Passes, NEW new \in Pass, Complete(new),
           pass' = [pass EXCEPT ![p] = new], wild' \subseteq Certs,
           UNCHANGED <<editVars, cert>>
    PROVE  JobsInv'
BY DEF JobsInv, JobsTypeOK, Complete, Covers, SitesOf, editVars

LEMMA JobsStep == JobsInv /\ [JobsNext]_jobsVars => JobsInv'
<1> SUFFICES ASSUME JobsInv, [JobsNext]_jobsVars PROVE JobsInv'
  OBVIOUS
<1> USE DEF PassAt
<1>0. JobsTypeOK /\ \A p \in Passes : pass[p] \in Pass /\ Complete(pass[p])
  BY DEF JobsInv, JobsTypeOK
<1>1. ASSUME NEW p \in Passes, BeginPass(p) PROVE JobsInv'
  <2>1. PICK force \in BOOLEAN, only \in {Certs} \cup {{c} : c \in Certs} :
          pass' = [pass EXCEPT ![p] = [NoPass EXCEPT !.at = "look", !.force = force,
                                         !.known = table, !.torn = torn,
                                         !.todo = {j \in CertSites : j.cert \in only}]]
    BY <1>1 DEF BeginPass
  <2> DEFINE jobs == {j \in CertSites : j.cert \in only}
             new == [NoPass EXCEPT !.at = "look", !.force = force, !.known = table,
                                   !.torn = torn, !.todo = jobs]
  <2>2. jobs \subseteq Job /\ \A j \in jobs : Covers(j, table, torn)
    BY <1>0, CertSitesCover
  <2>3. pass' = [pass EXCEPT ![p] = new] /\ UNCHANGED <<editVars, wild, cert>>
    BY <1>1, <2>1 DEF BeginPass
  <2> HIDE DEF jobs
  <2>4. table \subseteq Uses /\ torn \in BOOLEAN
    BY <1>0 DEF JobsTypeOK
  <2>5. new \in Pass /\ Complete(new)
    BY <2>2, <2>4 DEF NoPass, Pass, Complete
  <2> QED BY <1>0, <2>3, <2>5, OnePass DEF JobsTypeOK
<1>2. ASSUME NEW p \in Passes, BeginWildcard(p) PROVE JobsInv'
  <2>1. PICK c \in Certs, force \in BOOLEAN :
          pass' = [pass EXCEPT ![p] = [NoPass EXCEPT !.at = "look", !.force = force,
                                         !.known = table, !.torn = torn,
                                         !.todo = {WildJob(c)}, !.enlist = {c}]]
    BY <1>2 DEF BeginWildcard
  <2> DEFINE new == [NoPass EXCEPT !.at = "look", !.force = force, !.known = table,
                                   !.torn = torn, !.todo = {WildJob(c)}, !.enlist = {c}]
  <2>2. WildJob(c) \in Job /\ WildJob(c).kind = "wildcard"
    BY DEF WildJob, Job
  <2>3. table \subseteq Uses /\ torn \in BOOLEAN
    BY <1>0 DEF JobsTypeOK
  <2>4. new \in Pass
    BY <2>2, <2>3 DEF NoPass, Pass
  <2>5. Complete(new)
    BY <2>2, <2>3 DEF NoPass, Complete, Covers
  <2> QED BY <1>0, <1>2, <2>1, <2>4, <2>5, OnePass DEF BeginWildcard, JobsTypeOK
<1>3. ASSUME NEW p \in Passes, NEW j \in pass[p].todo, Look(p, j) PROVE JobsInv'
  <2> DEFINE skip == cert[j.cert].age = "fresh" /\ ~pass[p].force
             new == [pass[p] EXCEPT !.todo = @ \ {j}, !.at = IF skip THEN "look" ELSE "obtain",
                                    !.cur = IF skip THEN {} ELSE {j}]
  <2>1. pass' = [pass EXCEPT ![p] = new] /\ UNCHANGED <<editVars, wild, cert>>
    BY <1>3 DEF Look, JobsInv, JobsTypeOK
  <2> HIDE DEF skip
  <2>2. new \in Pass
    <3> DEFINE at == IF skip THEN "look" ELSE "obtain"
               cur == IF skip THEN {} ELSE {j}
    <3>1. at \in {"look", "obtain"}
      OBVIOUS
    <3>2. cur \in SUBSET Job /\ pass[p].todo \ {j} \in SUBSET Job
      BY <1>0 DEF Pass
    <3>3. new = [pass[p] EXCEPT !.todo = pass[p].todo \ {j}, !.at = at, !.cur = cur]
      OBVIOUS
    <3> HIDE DEF at, cur, new
    <3> QED BY <1>0, <3>1, <3>2, <3>3 DEF Pass
  <2>3. new.todo \cup new.cur \subseteq pass[p].todo \cup pass[p].cur
        /\ new.known = pass[p].known /\ new.torn = pass[p].torn
    BY <1>0 DEF Pass
  <2>4. Complete(new)
    BY <1>0, <2>3 DEF Complete
  <2> QED BY <1>0, <2>1, <2>2, <2>4, OnePass DEF JobsTypeOK
<1>4. ASSUME NEW p \in Passes, Obtained(p) PROVE JobsInv'
  <2> DEFINE at == IF pass[p].enlist = {} THEN "look" ELSE "enlist"
             new == [pass[p] EXCEPT !.at = at, !.cur = {}]
  <2>1. PICK j \in pass[p].cur :
          cert' = [cert EXCEPT ![j.cert] = [names |-> j.names, age |-> "fresh"]]
    BY <1>4 DEF Obtained
  <2>2. pass' = [pass EXCEPT ![p] = new] /\ UNCHANGED <<editVars, wild>>
    BY <1>4 DEF Obtained
  <2>3. at \in {"look", "enlist"} /\ j \in Job
    BY <1>0 DEF Pass
  <2> HIDE DEF at
  <2>4. new \in Pass /\ Complete(new)
    BY <1>0, <2>3 DEF Pass, Complete
  <2>5. cert' \in [Certs -> [names : SUBSET (Sites \cup {"*"}), age : {"none", "fresh", "due"}]]
    BY <1>0, <2>1, <2>3 DEF JobsTypeOK, Job
  <2> QED BY <1>0, <2>2, <2>4, <2>5 DEF JobsInv, JobsTypeOK, editVars
<1>5. ASSUME NEW p \in Passes, Failed(p) PROVE JobsInv'
  <2> DEFINE new == [pass[p] EXCEPT !.at = "look", !.cur = {}]
  <2>1. new \in Pass /\ Complete(new)
    BY <1>0 DEF Pass, Complete
  <2>2. pass' = [pass EXCEPT ![p] = new] /\ UNCHANGED <<editVars, wild, cert>>
    BY <1>5 DEF Failed
  <2> QED BY <1>0, <2>1, <2>2, OnePass DEF JobsTypeOK
<1>6. ASSUME NEW p \in Passes, Enlist(p) PROVE JobsInv'
  <2>1. CASE pass[p].enlist \subseteq wild
    BY <1>0, <1>6, <2>1, NoPassType, OnePass DEF Enlist, JobsTypeOK
  <2>2. CASE ~(pass[p].enlist \subseteq wild)
    <3> DEFINE new == [pass[p] EXCEPT !.at = "fillwild", !.enlist = @ \cup wild]
    <3>1. new \in Pass /\ Complete(new)
      BY <1>0 DEF Pass, Complete, JobsTypeOK
    <3>2. /\ pass' = [pass EXCEPT ![p] = new] /\ wild' = {}
          /\ UNCHANGED <<editVars, cert>>
      BY <1>6, <2>2 DEF Enlist
    <3> QED BY <1>0, <3>1, <3>2, OnePass
  <2> QED BY <2>1, <2>2
<1>7. ASSUME NEW p \in Passes, FillWild(p) PROVE JobsInv'
  <2>1. pass[p].enlist \subseteq Certs
    BY <1>0 DEF Pass
  <2> QED BY <1>0, <1>7, <2>1, NoPassType, OnePass DEF FillWild
<1>8. ASSUME NEW p \in Passes, PassOver(p) PROVE JobsInv'
  BY <1>0, <1>8, NoPassType, OnePass DEF PassOver, JobsTypeOK
<1>9. ASSUME \/ \E u \in Uses : \/ PutSite(u) \/ DropSite(u) \/ SwitchSite(u)
                                   \/ MoveSite(u) \/ OwnConfig(u)
             \/ FillConf
      PROVE  JobsInv'
  <2>1. UNCHANGED <<wild, cert, pass>> /\ table' \subseteq Uses /\ moved' \subseteq Uses
    BY <1>0, <1>9 DEF PutSite, DropSite, SwitchSite, MoveSite, OwnConfig, FillConf, Save,
                      At, Change, JobsTypeOK
  <2>2. torn' \in BOOLEAN
    BY <1>0, <1>9 DEF PutSite, DropSite, SwitchSite, MoveSite, OwnConfig, FillConf, Save,
                      JobsTypeOK
  <2> QED BY <2>1, <2>2 DEF JobsInv, JobsTypeOK, Complete, Covers, SitesOf
<1>10. ASSUME NEW c \in Certs, Due(c) PROVE JobsInv'
  <2>1. cert' = [cert EXCEPT ![c].age = "due"] /\ UNCHANGED <<editVars, wild, pass>>
    BY <1>10 DEF Due
  <2>2. JobsTypeOK'
    BY <1>0, <2>1 DEF JobsTypeOK, editVars
  <2> QED BY <1>0, <2>1, <2>2 DEF JobsInv, Complete, Covers, SitesOf
<1>11. CASE UNCHANGED jobsVars
  BY <1>11 DEF jobsVars, editVars, JobsInv, JobsTypeOK, Complete, Covers, SitesOf
<1> QED BY <1>1, <1>2, <1>3, <1>4, <1>5, <1>6, <1>7, <1>8, <1>9, <1>10, <1>11 DEF JobsNext

\* An issuance takes no name of a site from its certificate that was in sites.conf when
\* its list was made, unless it is a wildcard's, or a manual config's of a list that was
\* made while sites.conf was truncated; for any sites, certificates and passes, and
\* whatever people change in between.
THEOREM IssuanceKeepsNames == JobsSpec => NamesKept
<1>1. JobsInit => JobsInv
  <2> SUFFICES ASSUME JobsInit PROVE JobsInv
    OBVIOUS
  <2>1. NoCert \in [names : SUBSET (Sites \cup {"*"}), age : {"none", "fresh", "due"}]
    BY DEF NoCert
  <2>2. table \subseteq Uses /\ moved \subseteq Uses /\ torn \in BOOLEAN /\ wild \subseteq Certs
    BY DEF JobsInit
  <2> QED BY <2>1, <2>2, NoPassType DEF JobsInit, JobsInv, JobsTypeOK
<1>2. ASSUME JobsInv, [JobsNext]_jobsVars, NEW p \in Passes, NEW u \in table,
             u[1] \in cert[u[2]].names \ cert'[u[2]].names,
             PassAt(p, "obtain"), pass'[p] # pass[p], u \in pass[p].known
      PROVE  \E j \in pass[p].cur : j.kind = "wildcard" \/ (j.kind = "manual" /\ pass[p].torn)
  <2>0. u[1] \in Sites /\ u[2] \in Certs
    BY <1>2, CertJobsAssumption DEF JobsInv, JobsTypeOK
  <2>1. PICK q \in Passes : Obtained(q)
    <3>1. cert' # cert
      BY <1>2
    <3>2. ASSUME NEW c \in Certs, Due(c) PROVE FALSE
      <4>1. cert'[u[2]].names = cert[u[2]].names
        BY <1>2, <2>0, <3>2 DEF Due, JobsInv, JobsTypeOK
      <4> QED BY <1>2, <4>1
    <3> QED
      BY <1>2, <3>1, <3>2 DEF JobsNext, BeginPass, BeginWildcard, Failed, Enlist, FillWild,
           PassOver, Look, PutSite, DropSite, SwitchSite, MoveSite, OwnConfig, FillConf,
           Save, Change, jobsVars
  <2>2. q = p
    BY <1>2, <2>1 DEF Obtained, JobsInv, JobsTypeOK
  <2>3. PICK j \in pass[p].cur :
          cert' = [cert EXCEPT ![j.cert] = [names |-> j.names, age |-> "fresh"]]
    BY <2>1, <2>2 DEF Obtained
  <2>4. j.cert = u[2] /\ u[1] \notin j.names
    BY <1>2, <2>0, <2>3 DEF JobsInv, JobsTypeOK
  <2>5. Covers(j, pass[p].known, pass[p].torn) /\ pass[p].known \subseteq Uses /\ j \in Job
    BY <1>2 DEF JobsInv, JobsTypeOK, Complete, Pass
  <2>6. ~(SitesOf(j.cert, pass[p].known) \subseteq j.names)
    BY <1>2, <2>4, <2>5, SitesOfSites
  <2>7. j.kind \in {"sites", "manual", "wildcard"}
    BY <2>5 DEF Job
  <2> QED BY <2>5, <2>6, <2>7 DEF Covers
<1>3. JobsInv /\ [JobsNext]_jobsVars
        => [\A p \in Passes : \A u \in table :
              LET s == u[1]  c == u[2]
              IN  s \in cert[c].names \ cert'[c].names /\ PassAt(p, "obtain") /\ pass'[p] # pass[p]
                     => \/ u \notin pass[p].known
                        \/ \E j \in pass[p].cur :
                              j.kind = "wildcard" \/ (j.kind = "manual" /\ pass[p].torn)]_jobsVars
  BY <1>2
<1> QED BY <1>1, <1>3, JobsStep, PTL DEF JobsSpec, NamesKept
----------------------------------------------------------------------------
(* Wedos *)

Order == [at : {"idle", "present", "commit", "validating", "cleanup", "uncommit"},
          no : Nat, todo : SUBSET Names, up : SUBSET Names, row : SUBSET Names]
DnsTypeOK == ordered \in Nat /\ order \in [Orders -> Order]

\* The rows of an order are its own: no other order under way has its number.
Numbered(od) == od.at # "idle" => od.no <= ordered
OwnNumber ==
    /\ \A o \in Orders : Numbered(order[o])
    /\ \A o, q \in Orders : /\ ~OrderAt(o, "idle") /\ ~OrderAt(q, "idle")
                             /\ order[o].no = order[q].no => o = q

\* What is up is in the zone and published; what is being presented is in the zone.
Up(od, zone, public) ==
    /\ od.at = "idle" => od.up = {}
    /\ od.at # "commit" => od.row = {}
    /\ \A n \in od.up : [no |-> od.no, name |-> n] \in zone \cap public
    /\ \A n \in od.row : [no |-> od.no, name |-> n] \in zone
DnsInv == DnsTypeOK /\ OwnNumber /\ \A o \in Orders : Up(order[o], rows, published)

LEMMA NoOrderType == NoOrder \in Order /\ NoOrder.at = "idle" /\ Up(NoOrder, rows, published)
BY DEF NoOrder, Order, Up

\* A step of one order that keeps its number, or ends it, and takes no row of the
\* others out of the zone; if it publishes, it publishes the zone.
LEMMA OneOrder ==
    ASSUME DnsInv, NEW o \in Orders, NEW new \in Order,
           order' = [order EXCEPT ![o] = new], ordered' = ordered,
           new.at # "idle" => order[o].at # "idle" /\ new.no = order[o].no,
           Up(new, rows', published'),
           \A r \in rows : r \in rows' \/ r.no = order[o].no,
           published' \in {published, rows}, published' # published => rows' = rows,
           rows' # rows => order[o].at # "idle"
    PROVE  DnsInv'
<1>1. \A q \in Orders : order'[q] = IF q = o THEN new ELSE order[q]
  BY DEF DnsInv, DnsTypeOK
<1>2. DnsTypeOK'
  BY DEF DnsInv, DnsTypeOK
<1>3. OwnNumber'
  BY <1>1 DEF DnsInv, OwnNumber, Numbered, OrderAt
<1>4. ASSUME NEW q \in Orders, q # o PROVE Up(order[q], rows', published')
  <2>1. Up(order[q], rows, published) /\ order[q] \in Order
    BY DEF DnsInv, DnsTypeOK
  <2>2. CASE order[q].at = "idle"
    BY <2>1, <2>2 DEF Up
  <2>3. CASE order[q].at # "idle"
    <3>1. \A n \in order[q].up \cup order[q].row :
             [no |-> order[q].no, name |-> n] \in rows'
      <4>1. CASE rows' = rows
        BY <2>1, <4>1 DEF Up
      <4>2. CASE rows' # rows
        <5>1. order[q].no # order[o].no
          BY <1>4, <2>3, <4>2 DEF DnsInv, OwnNumber, OrderAt
        <5> QED BY <2>1, <5>1 DEF Up
      <4> QED BY <4>1, <4>2
    <3>2. \A n \in order[q].up : [no |-> order[q].no, name |-> n] \in published'
      BY <2>1 DEF Up
    <3> QED BY <2>1, <2>3, <3>1, <3>2 DEF Up
  <2> QED BY <2>2, <2>3
<1> QED BY <1>1, <1>2, <1>3, <1>4 DEF DnsInv

LEMMA DnsStep == DnsInv /\ [DnsNext]_dnsVars => DnsInv'
<1> SUFFICES ASSUME DnsInv, [DnsNext]_dnsVars PROVE DnsInv'
  OBVIOUS
<1> USE DEF OrderAt, OrderTo
<1>0. ordered \in Nat /\ \A o \in Orders : order[o] \in Order /\ Up(order[o], rows, published)
  BY DEF DnsInv, DnsTypeOK
<1>1. ASSUME NEW o \in Orders, BeginOrder(o) PROVE DnsInv'
  <2> DEFINE new == [NoOrder EXCEPT !.at = "present", !.todo = Names, !.no = ordered + 1]
  <2>0. ordered + 1 \in Nat
    BY <1>0
  <2>1. /\ new \in Order /\ new.no = ordered + 1 /\ new.at = "present"
        /\ Up(new, rows, published)
    BY <2>0 DEF NoOrder, Order, Up
  <2>2. /\ order' = [order EXCEPT ![o] = new] /\ ordered' = ordered + 1
        /\ UNCHANGED <<rows, published>>
    BY <1>1 DEF BeginOrder
  <2> HIDE DEF new
  <2>3. \A q \in Orders : order'[q] = IF q = o THEN new ELSE order[q]
    BY <2>2 DEF DnsInv, DnsTypeOK
  <2>4. \A q \in Orders : order[q].at # "idle" => order[q].no \in Nat /\ order[q].no <= ordered
    BY <1>0 DEF DnsInv, OwnNumber, Numbered, Order
  <2>5. OwnNumber'
    BY <1>0, <2>1, <2>2, <2>3, <2>4 DEF DnsInv, OwnNumber, Numbered
  <2>6. DnsTypeOK'
    BY <1>0, <2>1, <2>2 DEF DnsInv, DnsTypeOK
  <2> QED BY <1>0, <2>1, <2>2, <2>3, <2>5, <2>6 DEF DnsInv
<1>2. ASSUME NEW o \in Orders, NEW n \in Names, Present(o, n) PROVE DnsInv'
  <2> DEFINE new == [order[o] EXCEPT !.at = "commit", !.todo = @ \ {n}, !.row = {n}]
  <2>1. /\ new \in Order /\ new.no = order[o].no /\ new.at = "commit"
        /\ new.up = order[o].up /\ new.row = {n}
    BY <1>0 DEF Order
  <2>2. /\ order' = [order EXCEPT ![o] = new] /\ rows' = rows \cup {Row(o, n)}
        /\ UNCHANGED <<published, ordered>> /\ order[o].at = "present"
    BY <1>2 DEF Present
  <2> HIDE DEF new
  <2>3. Up(new, rows', published')
    BY <1>0, <2>1, <2>2 DEF Up, Row
  <2> QED BY <2>1, <2>2, <2>3, OneOrder
<1>3. ASSUME NEW o \in Orders, Commit(o) PROVE DnsInv'
  <2> DEFINE new == [order[o] EXCEPT !.at = "present", !.up = @ \cup order[o].row, !.row = {}]
  <2>1. /\ new \in Order /\ new.no = order[o].no /\ new.at = "present"
        /\ new.up = order[o].up \cup order[o].row /\ new.row = {}
    BY <1>0 DEF Order
  <2>2. /\ order' = [order EXCEPT ![o] = new] /\ published' = rows
        /\ UNCHANGED <<rows, ordered>> /\ order[o].at = "commit"
    BY <1>3 DEF Commit
  <2> HIDE DEF new
  <2>3. Up(new, rows', published')
    BY <1>0, <2>1, <2>2 DEF Up
  <2> QED BY <2>1, <2>2, <2>3, OneOrder
<1>4. ASSUME NEW o \in Orders, PresentFails(o) PROVE DnsInv'
  <2>1. ASSUME NEW n \in order[o].todo, order[o].at = "present",
               rows' \in {rows, rows \cup {Row(o, n)}},
               order' = [order EXCEPT ![o].todo = @ \ {n}], UNCHANGED <<published, ordered>>
        PROVE  DnsInv'
    <3> DEFINE new == [order[o] EXCEPT !.todo = @ \ {n}]
    <3>1. /\ new \in Order /\ new.no = order[o].no /\ new.at = "present"
          /\ new.up = order[o].up /\ new.row = order[o].row
      BY <1>0, <2>1 DEF Order
    <3>2. order' = [order EXCEPT ![o] = new] /\ rows \subseteq rows'
      BY <2>1
    <3> HIDE DEF new
    <3>3. Up(new, rows', published')
      BY <1>0, <2>1, <3>1, <3>2 DEF Up
    <3> QED BY <2>1, <3>1, <3>2, <3>3, OneOrder
  <2>2. ASSUME order[o].at = "commit", published' \in {published, rows},
               order' = [order EXCEPT ![o].at = "present", ![o].row = {}],
               UNCHANGED <<rows, ordered>>
        PROVE  DnsInv'
    <3> DEFINE new == [order[o] EXCEPT !.at = "present", !.row = {}]
    <3>1. /\ new \in Order /\ new.no = order[o].no /\ new.at = "present"
          /\ new.up = order[o].up /\ new.row = {}
      BY <1>0 DEF Order
    <3>2. order' = [order EXCEPT ![o] = new]
      BY <2>2 DEF DnsInv, DnsTypeOK
    <3> HIDE DEF new
    <3>3. Up(new, rows', published')
      BY <1>0, <2>2, <3>1 DEF Up
    <3> QED BY <2>2, <3>1, <3>2, <3>3, OneOrder
  <2> QED BY <1>4, <2>1, <2>2 DEF PresentFails
<1>5. ASSUME NEW o \in Orders, NEW at \in {"validating", "cleanup"}, NEW todo \in SUBSET Names,
             order[o].at \notin {"idle", "commit"}, UNCHANGED <<rows, ordered>>,
             published' \in {published, rows},
             order' = [order EXCEPT ![o] = [order[o] EXCEPT !.at = at, !.todo = todo]]
      PROVE  DnsInv'
  <2> DEFINE new == [order[o] EXCEPT !.at = at, !.todo = todo]
  <2>1. /\ new \in Order /\ new.no = order[o].no /\ new.at # "idle"
        /\ new.up = order[o].up /\ new.row = order[o].row
    BY <1>0, <1>5 DEF Order
  <2>2. order' = [order EXCEPT ![o] = new]
    BY <1>5
  <2> HIDE DEF new
  <2>3. Up(new, rows', published')
    BY <1>0, <1>5, <2>1 DEF Up
  <2> QED BY <1>5, <2>1, <2>2, <2>3, OneOrder
<1>6. ASSUME NEW o \in Orders, Validate(o) \/ Validated(o) \/ CommitDeleted(o) PROVE DnsInv'
  <2>1. order[o].todo \in SUBSET Names /\ order[o] = [order[o] EXCEPT !.todo = order[o].todo]
    BY <1>0 DEF Order
  <2>2. CASE Validate(o)
    <3>1. order' = [order EXCEPT ![o] = [order[o] EXCEPT !.at = "validating",
                                                         !.todo = order[o].todo]]
      BY <1>0, <2>2 DEF Validate, Order
    <3> QED BY <1>5, <2>1, <2>2, <3>1 DEF Validate
  <2>3. CASE Validated(o)
    BY <1>5, <2>3 DEF Validated
  <2>4. CASE CommitDeleted(o)
    <3>1. order' = [order EXCEPT ![o] = [order[o] EXCEPT !.at = "cleanup",
                                                         !.todo = order[o].todo]]
      BY <1>0, <2>4 DEF CommitDeleted, Order
    <3> QED BY <1>5, <2>1, <2>4, <3>1 DEF CommitDeleted
  <2> QED BY <1>6, <2>2, <2>3, <2>4
<1>7. ASSUME NEW o \in Orders, NEW n \in Names, order[o].at = "cleanup",
             NEW at \in {"cleanup", "uncommit"}, rows' \in {rows, rows \ {Row(o, n)}},
             UNCHANGED <<published, ordered>>,
             order' = [order EXCEPT ![o] = [order[o] EXCEPT !.at = at, !.todo = @ \ {n},
                                                            !.up = @ \ {n}]]
      PROVE  DnsInv'
  <2> DEFINE new == [order[o] EXCEPT !.at = at, !.todo = @ \ {n}, !.up = @ \ {n}]
  <2>1. /\ new \in Order /\ new.no = order[o].no /\ new.at # "idle"
        /\ new.up = order[o].up \ {n} /\ new.row = order[o].row
    BY <1>0 DEF Order
  <2>2. order' = [order EXCEPT ![o] = new]
    BY <1>7
  <2> HIDE DEF new
  <2>3. Up(new, rows', published')
    <3>1. \A m \in order[o].up \cup order[o].row :
             m # n => [no |-> order[o].no, name |-> m] # Row(o, n)
      <4>1. \A m : m # n => [no |-> order[o].no, name |-> m].name # Row(o, n).name
        BY DEF Row
      <4> QED BY <4>1
    <3>2. order[o].row = {}
      BY <1>0, <1>7 DEF Up
    <3> QED BY <1>0, <1>7, <2>1, <3>1, <3>2 DEF Up
  <2>4. \A r \in rows : r \in rows' \/ r.no = order[o].no
    BY <1>7 DEF Row
  <2> QED BY <1>7, <2>1, <2>2, <2>3, <2>4, OneOrder
<1>8. ASSUME NEW o \in Orders, NEW n \in Names, CleanUp(o, n) PROVE DnsInv'
  <2>1. /\ order[o].at = "cleanup" /\ UNCHANGED <<published, ordered>>
        /\ FindRow(o, n) \in {{}, {Row(o, n)}}
    BY <1>8 DEF CleanUp, FindRow
  <2>2. CASE FindRow(o, n) = {}
    <3>1. order[o].up = order[o].up \ {n}
      BY <1>0, <2>2 DEF Up, FindRow, Row
    <3>2. order' = [order EXCEPT ![o] = [order[o] EXCEPT !.at = "cleanup", !.todo = @ \ {n},
                                                         !.up = @ \ {n}]]
      BY <1>0, <1>8, <2>1, <2>2, <3>1 DEF CleanUp, Order
    <3>3. rows' = rows
      BY <1>8, <2>2 DEF CleanUp
    <3> QED BY <1>7, <2>1, <3>2, <3>3
  <2>3. CASE FindRow(o, n) = {Row(o, n)}
    <3>1. order' = [order EXCEPT ![o] = [order[o] EXCEPT !.at = "uncommit", !.todo = @ \ {n},
                                                         !.up = @ \ {n}]]
      BY <1>8, <2>3 DEF CleanUp
    <3>2. rows' = rows \ {Row(o, n)}
      BY <1>8, <2>3 DEF CleanUp
    <3> QED BY <1>7, <2>1, <3>1, <3>2
  <2> QED BY <2>1, <2>2, <2>3
<1>9. ASSUME NEW o \in Orders, CleanUpFails(o) PROVE DnsInv'
  <2>1. ASSUME NEW n \in order[o].todo, order[o].at = "cleanup",
               rows' \in {rows, rows \ FindRow(o, n)}, UNCHANGED <<published, ordered>>,
               order' = [order EXCEPT ![o].todo = @ \ {n}, ![o].up = @ \ {n}]
        PROVE  DnsInv'
    <3>1. n \in Names /\ rows' \in {rows, rows \ {Row(o, n)}}
      BY <1>0, <2>1 DEF Order, FindRow
    <3>2. order' = [order EXCEPT ![o] = [order[o] EXCEPT !.at = "cleanup", !.todo = @ \ {n},
                                                         !.up = @ \ {n}]]
      BY <1>0, <2>1 DEF Order, DnsInv, DnsTypeOK
    <3> QED BY <1>7, <2>1, <3>1, <3>2
  <2>2. ASSUME order[o].at = "uncommit", published' \in {published, rows},
               order' = [order EXCEPT ![o].at = "cleanup"], UNCHANGED <<rows, ordered>>
        PROVE  DnsInv'
    <3>1. order' = [order EXCEPT ![o] = [order[o] EXCEPT !.at = "cleanup",
                                                         !.todo = order[o].todo]]
      BY <1>0, <2>2 DEF Order
    <3>2. order[o].todo \in SUBSET Names
      BY <1>0 DEF Order
    <3> QED BY <1>5, <2>2, <3>1, <3>2
  <2> QED BY <1>9, <2>1, <2>2 DEF CleanUpFails
<1>10. ASSUME NEW o \in Orders, OrderOver(o) PROVE DnsInv'
  BY <1>10, NoOrderType, OneOrder DEF OrderOver, Up, NoOrder
<1>11. CASE UNCHANGED dnsVars
  BY <1>11 DEF dnsVars, DnsInv, DnsTypeOK, OwnNumber, Numbered, Up
<1> QED BY <1>1, <1>2, <1>3, <1>4, <1>6, <1>8, <1>9, <1>10, <1>11 DEF DnsNext

\* While the CA looks for the records of an order, those presented are published, for
\* any number of orders at the same record, whose calls fail and whose processes die.
THEOREM RecordsStayUp == DnsSpec => []RecordsUp
<1>1. DnsInit => DnsInv
  BY NoOrderType DEF DnsInit, DnsInv, DnsTypeOK, OwnNumber, Numbered, OrderAt
<1>2. DnsInv => RecordsUp
  BY DEF DnsInv, Up, RecordsUp, Row
<1> QED BY <1>1, <1>2, DnsStep, PTL DEF DnsSpec
============================================================================
