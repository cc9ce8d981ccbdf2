------------------------------ MODULE CertJobs ------------------------------
(***************************************************************************)
(* Which names a certificate is for: the jobs that certSites of certs.go   *)
(* makes of sites.conf, of the manual configs (manconf.go) and of the      *)
(* registered wildcards (wildcardcerts.go), and how issue and renew work   *)
(* through them while people change those three.  The files a certificate  *)
(* consists of are module Deploy's, the ACME account is module Account's;  *)
(* here an issuance is one step that succeeds or fails.                    *)
(*                                                                         *)
(* There is one domain that wildcards are issued for; its wildcard name is *)
(* "*", and with it goes the domain itself, which no site here has.        *)
(***************************************************************************)
EXTENDS Naturals, FiniteSets

CONSTANTS Passes,       \* issue and renew passes that may run at once
          Sites, Certs,
          Uses,         \* <<s, c>>: site s may have a certificate of the name c
          MaxPasses, MaxAges, MaxChanges \* bounds

ASSUME CertJobsAssumption ==
    Uses \subseteq Sites \X Certs /\ MaxPasses \in Nat /\ MaxAges \in Nat /\ MaxChanges \in Nat

VARIABLES table,    \* sites.conf as last saved, or being saved: sites with their certificates
          torn,     \* whether that save has truncated the file and not filled it yet
          moved,    \* the sites whose block is in manconf/, in revpro's shape, likewise
          wild,     \* wildcard-certs.json: certificate names; empty: unreadable
          cert,     \* cert[c]: the names it is for, and its age
          pass,     \* pass[p]: what p has under way
          passes, ages, changes

editVars == <<table, torn, moved>>
jobsVars == <<editVars, wild, cert, pass, passes, ages, changes>>

NoCert == [names |-> {}, age |-> "none"]
\* todo: the jobs left; cur: the one under way; force: --force; enlist: the registry
\* to be written.  History: known, torn: sites.conf when the list was made.
NoPass == [at |-> "idle", force |-> FALSE, todo |-> {}, cur |-> {}, enlist |-> {},
           known |-> {}, torn |-> FALSE]
PassAt(p, l) == pass[p].at = l

JobsInit ==
    /\ table = {} /\ torn = FALSE /\ moved = {} /\ wild = {}
    /\ passes = 0 /\ ages = 0 /\ changes = 0
    /\ cert = [c \in Certs |-> NoCert]
    /\ pass = [p \in Passes |-> NoPass]

----------------------------------------------------------------------------
(* The jobs *)

\* What parseSites finds: a truncated file is a table without sites.
Read == IF torn THEN {} ELSE table

SitesOf(c, t) == {u[1] : u \in {v \in t : v[2] = c}}
SiteJob(c) == [cert |-> c, names |-> SitesOf(c, Read), kind |-> "sites"]
WildJob(c) == [cert |-> c, names |-> {"*"}, kind |-> "wildcard"]
\* manconfCertSites: each manual config is a job of its own, and the first one
\* by name is kept for its certificate, if sites.conf has no site of it.
MovedJob(u) == [cert |-> u[2], names |-> {u[1]}, kind |-> "manual"]
First(c) == CHOOSE u \in moved : u[2] = c

SiteJobs == {SiteJob(u[2]) : u \in Read}
MovedJobs == {MovedJob(First(u[2])) : u \in {v \in moved : SitesOf(v[2], Read) = {}}}
WildJobs == {WildJob(c) : c \in wild}

\* Variant of the next definition: a site is a job of its own, as a config is.
CertSitesSingle ==
    {[cert |-> u[2], names |-> {u[1]}, kind |-> "sites"] : u \in Read} \cup MovedJobs \cup WildJobs
\* certSites: one job for all sites of a certificate; manual configs whose
\* certificate has no such job; every registered wildcard.
CertSites == SiteJobs \cup MovedJobs \cup WildJobs

----------------------------------------------------------------------------
(* issue and renew *)

\* issueCmd (with --force or names or neither) and a round of renewCmd.
BeginPass(p) ==
    /\ PassAt(p, "idle") /\ passes < MaxPasses
    /\ passes' = passes + 1
    /\ \E force \in BOOLEAN :
       \E only \in {Certs} \cup {{c} : c \in Certs} :
          pass' = [pass EXCEPT ![p] = [NoPass EXCEPT !.at = "look", !.force = force,
                                         !.known = table, !.torn = torn,
                                         !.todo = {j \in CertSites : j.cert \in only}]]
    /\ UNCHANGED <<editVars, wild, cert, ages, changes>>

\* issue --wildcard --cert c.
BeginWildcard(p) ==
    /\ PassAt(p, "idle") /\ passes < MaxPasses
    /\ passes' = passes + 1
    /\ \E c \in Certs : \E force \in BOOLEAN :
          pass' = [pass EXCEPT ![p] = [NoPass EXCEPT !.at = "look", !.force = force,
                                         !.known = table, !.torn = torn,
                                         !.todo = {WildJob(c)}, !.enlist = {c}]]
    /\ UNCHANGED <<editVars, wild, cert, ages, changes>>

\* The next job, the wildcards' after all others: a certificate that is not near
\* its end is passed over, whatever it is for.
Look(p, j) ==
    /\ PassAt(p, "look") /\ j \in pass[p].todo
    /\ j.kind = "wildcard" => \A k \in pass[p].todo : k.kind = "wildcard"
    /\ pass' = [pass EXCEPT ![p].todo = @ \ {j},
                  ![p].at  = IF cert[j.cert].age = "fresh" /\ ~pass[p].force
                             THEN "look" ELSE "obtain",
                  ![p].cur = IF cert[j.cert].age = "fresh" /\ ~pass[p].force
                             THEN {} ELSE {j}]
    /\ UNCHANGED <<editVars, wild, cert, passes, ages, changes>>

\* obtain: the CA issues what was asked for, and it replaces what there was.
Obtained(p) ==
    /\ PassAt(p, "obtain")
    /\ \E j \in pass[p].cur :
          cert' = [cert EXCEPT ![j.cert] = [names |-> j.names, age |-> "fresh"]]
    /\ pass' = [pass EXCEPT ![p].at = IF pass[p].enlist = {} THEN "look" ELSE "enlist",
                            ![p].cur = {}]
    /\ UNCHANGED <<editVars, wild, passes, ages, changes>>

\* It does not: the next job; of issue --wildcard, the end.
Failed(p) ==
    /\ PassAt(p, "obtain")
    /\ pass' = [pass EXCEPT ![p].at = "look", ![p].cur = {}]
    /\ UNCHANGED <<editVars, wild, cert, passes, ages, changes>>

\* registerWildcardCert: the list is read, and written with one more entry,
\* unless there is one for the certificate name.
Enlist(p) ==
    /\ PassAt(p, "enlist")
    /\ IF pass[p].enlist \subseteq wild
       THEN pass' = [pass EXCEPT ![p] = NoPass] /\ UNCHANGED wild
       ELSE /\ pass' = [pass EXCEPT ![p].at = "fillwild", ![p].enlist = @ \cup wild]
            /\ wild' = {}
    /\ UNCHANGED <<editVars, cert, passes, ages, changes>>

\* Over a list another pass wrote in between, a shorter one keeps the end of the
\* longer, and cannot be read.
FillWild(p) ==
    /\ PassAt(p, "fillwild")
    /\ \/ wild' = pass[p].enlist
       \/ wild # {} /\ wild' = {}
    /\ pass' = [pass EXCEPT ![p] = NoPass]
    /\ UNCHANGED <<editVars, cert, passes, ages, changes>>

\* The pass is done, or the process is killed.
PassOver(p) ==
    /\ ~PassAt(p, "idle")
    /\ pass' = [pass EXCEPT ![p] = NoPass]
    /\ UNCHANGED <<editVars, wild, cert, passes, ages, changes>>

----------------------------------------------------------------------------
(* What people do in between, and time *)

\* Every save writes the whole file, one at a time here (two at once are module
\* SitesConf's): os.WriteFile truncates it ...
Change == changes < MaxChanges /\ changes' = changes + 1
                         /\ UNCHANGED <<wild, cert, pass, passes, ages>>
Save(t) == Change /\ ~torn /\ torn' = TRUE /\ table' = t

At(t, s) == {u \in t : u[1] = s}

PutSite(u) == At(table \cup moved, u[1]) = {} /\ Save(table \cup {u}) /\ UNCHANGED moved
DropSite(u) == u \in table /\ Save(table \ {u}) /\ UNCHANGED moved
\* The site, or its whole group, is given another certificate.
SwitchSite(u) ==
    /\ At(table, u[1]) \notin {{}, {u}}
    /\ Save((table \ At(table, u[1])) \cup {u})
    /\ UNCHANGED moved
\* convertSiteToManual: the site's block is kept under manconf/ (module SitesConf);
\* until the table is saved, its job is as before.
MoveSite(u) == u \in table /\ Save(table \ {u}) /\ moved' = moved \cup {u}

\* ... and fills it, unless it fails or is killed and leaves some of it.
FillConf ==
    /\ torn /\ torn' = FALSE
    /\ table' \in SUBSET table
    /\ UNCHANGED <<moved, wild, cert, pass, passes, ages, changes>>

\* The config is removed, rewritten in a shape of its own, or marked "#-ignore".
OwnConfig(u) == Change /\ u \in moved /\ moved' = moved \ {u} /\ UNCHANGED <<table, torn>>

\* A certificate comes within the days before its end in which it is renewed.
Due(c) ==
    /\ cert[c].age = "fresh" /\ ages < MaxAges
    /\ ages' = ages + 1
    /\ cert' = [cert EXCEPT ![c].age = "due"]
    /\ UNCHANGED <<editVars, wild, pass, passes, changes>>

JobsNext ==
    \/ \E p \in Passes : \/ BeginPass(p) \/ BeginWildcard(p) \/ Obtained(p) \/ Failed(p)
                         \/ Enlist(p) \/ FillWild(p) \/ PassOver(p)
                         \/ \E j \in pass[p].todo : Look(p, j)
    \/ \E u \in Uses : \/ PutSite(u) \/ DropSite(u) \/ SwitchSite(u) \/ MoveSite(u)
                        \/ OwnConfig(u)
    \/ FillConf
    \/ \E c \in Certs : Due(c)

JobsSpec == JobsInit /\ [][JobsNext]_jobsVars

----------------------------------------------------------------------------
\* An issuance takes the name of a site in sites.conf from its certificate only
\* in a pass that made its list before the site had that certificate (a daemon and
\* an issue at the same time), when the certificate is made a wildcard's, or, if
\* the list was made while sites.conf was truncated, for a manual config on the
\* same certificate (certs.go 351-385, 505-515; groups.go 246).
NamesKept ==
    [][\A p \in Passes : \A u \in table :
          LET s == u[1]  c == u[2]
          IN  s \in cert[c].names \ cert'[c].names /\ PassAt(p, "obtain") /\ pass'[p] # pass[p]
                 => \/ u \notin pass[p].known
                    \/ \E j \in pass[p].cur :
                          j.kind = "wildcard" \/ (j.kind = "manual" /\ pass[p].torn)]_jobsVars

\* A site that was moved to manconf/ does not lose its name by a renewal of its
\* certificate, if the certificate is no wildcard's: what the comment on certSites
\* says (certs.go 347-350).
MovedKeepsName ==
    [][\A u \in moved :
          u[1] \in cert[u[2]].names \ cert'[u[2]].names
             => \E p \in Passes : \E j \in pass[p].cur : j.kind = "wildcard"]_jobsVars
=============================================================================
