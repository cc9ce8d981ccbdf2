-------------------------------- MODULE Guard --------------------------------
(***************************************************************************)
(* The AbuseIPDB guard: guardScan and its cache in abuseipdb.go, the list  *)
(* of client addresses in iplog.go, the ban calls of fail2ban.go and       *)
(* pruneCaches of routines.go.                                             *)
(*                                                                         *)
(* Scans (a streamed command, or the routine f2b-guard) and the routine    *)
(* prune-cache may work at the same time.  Each reads the cache file at    *)
(* the start, changes its copy and writes it back at the end, with         *)
(* os.WriteFile: the file is empty for a moment, and an empty file reads   *)
(* as an empty cache.                                                      *)
(*                                                                         *)
(* Ages are classes: Fresh (under 24 hours), Old (under 30 days), Expired. *)
(***************************************************************************)
EXTENDS Naturals, FiniteSets

CONSTANTS Jobs,        \* scans and prunes that may be at work at once
          IPs,         \* client addresses in the access logs
          Private,     \* those that isPrivateOrLoopback holds of
          MaxJobs,     \* bound: jobs begun
          MaxAged     \* bound: how often a class of age is passed

ASSUME GuardAssumption ==
    Private \subseteq IPs /\ MaxJobs \in Nat /\ MaxAged \in Nat

Fresh == 0
Old == 1
Expired == 2
Never == 3
Older(a) == IF a < Expired THEN a + 1 ELSE a

VARIABLES manual,   \* addresses banned in revpro-manual
          abuse,    \* abuseipdb-cache.json: abuse[i].age = Never for no entry
          scan,      \* scan[j]: what j has under way
          lastBad,  \* history: age of AbuseIPDB's last answer against an address
          begun, aged

guardVars == <<manual, abuse, scan, lastBad, begun, aged>>

\* bad: the score is at or above the threshold, and the address not whitelisted.
Ratings == {"good", "bad"}
NoRating == [rating |-> "good", age |-> Never]
NoAbuse == [i \in IPs |-> NoRating]

\* todo: addresses still to be looked at; banned: those found banned at the
\* start; cache: this job's copy of the cache.
NoScan == [at |-> "idle", todo |-> {}, banned |-> {}, cache |-> NoAbuse]
ScanAt(j, l) == scan[j].at = l

GuardInit ==
    /\ manual = {} /\ abuse = NoAbuse
    /\ scan = [j \in Jobs |-> NoScan]
    /\ lastBad = [i \in IPs |-> Never]
    /\ begun = 0 /\ aged = 0

BeginJob(j, state) ==
    /\ ScanAt(j, "idle") /\ begun < MaxJobs
    /\ begun' = begun + 1
    /\ scan' = [scan EXCEPT ![j] = state]

----------------------------------------------------------------------------
(* guardScan                                                                *)

\* The addresses of the access logs and the banned ones are read once, then the
\* cache.  (seen leaves out those that the other jails ban; a jail whose status
\* cannot be read counts as empty.)
BeginScan(j) ==
    /\ \E seen \in SUBSET IPs \ {{}} : \E jails \in {{}, manual} :
          BeginJob(j, [NoScan EXCEPT !.at = "scan", !.todo = seen, !.banned = jails,
                                !.cache = abuse])
    /\ UNCHANGED <<manual, abuse, lastBad, aged>>

Skipped(j, i) == i \in Private \cup scan[j].banned

\* f2bBan, which may fail; fail2ban bans an address that is banned once more.
Ban(i) == manual' \in {manual, manual \cup {i}}

ScanSkip(j, i) ==
    /\ ScanAt(j, "scan") /\ i \in scan[j].todo /\ Skipped(j, i)
    /\ scan' = [scan EXCEPT ![j].todo = @ \ {i}]
    /\ UNCHANGED <<manual, abuse, lastBad, begun, aged>>

\* Variant of the next definition: what the cache holds is used at any age.
CachedRatingAny(j, i) == scan[j].cache[i].age # Never
\* abuseCheckCached: a result younger than 24 hours is used as it is.
CachedRating(j, i) == scan[j].cache[i].age = Fresh

ScanCached(j, i) ==
    /\ ScanAt(j, "scan") /\ i \in scan[j].todo /\ ~Skipped(j, i) /\ CachedRating(j, i)
    /\ scan' = [scan EXCEPT ![j].todo = @ \ {i}]
    /\ IF scan[j].cache[i].rating = "bad" THEN Ban(i) ELSE UNCHANGED manual
    /\ UNCHANGED <<abuse, lastBad, begun, aged>>

\* AbuseIPDB is asked; its answer goes into the copy of the cache.
ScanAsk(j, i) ==
    /\ ScanAt(j, "scan") /\ i \in scan[j].todo /\ ~Skipped(j, i) /\ ~CachedRating(j, i)
    /\ \E r \in Ratings :
          /\ scan' = [scan EXCEPT ![j].todo = @ \ {i},
                                ![j].cache[i] = [rating |-> r, age |-> Fresh]]
          /\ lastBad' = [lastBad EXCEPT ![i] = IF r = "bad" THEN Fresh ELSE @]
          /\ IF r = "bad" THEN Ban(i) ELSE UNCHANGED manual
    /\ UNCHANGED <<abuse, begun, aged>>

\* It does not answer, or with an error: the address is passed over.
ScanError(j, i) ==
    /\ ScanAt(j, "scan") /\ i \in scan[j].todo /\ ~Skipped(j, i) /\ ~CachedRating(j, i)
    /\ scan' = [scan EXCEPT ![j].todo = @ \ {i}]
    /\ UNCHANGED <<manual, abuse, lastBad, begun, aged>>

\* saveAbuseCache, by a scan or by pruneCaches.
ScanDone(j) ==
    /\ ScanAt(j, "scan") /\ scan[j].todo = {}
    /\ abuse' = NoAbuse
    /\ scan' = [scan EXCEPT ![j].at = "fill"]
    /\ UNCHANGED <<manual, lastBad, begun, aged>>

FillAbuse(j) ==
    /\ ScanAt(j, "fill")
    /\ abuse' = scan[j].cache
    /\ scan' = [scan EXCEPT ![j] = NoScan]
    /\ UNCHANGED <<manual, lastBad, begun, aged>>

----------------------------------------------------------------------------
(* pruneCaches: the cache is read, and written when it held expired entries *)

PruneAbuse(j) ==
    LET kept == [i \in IPs |-> IF abuse[i].age = Expired THEN NoRating ELSE abuse[i]]
    IN  /\ kept # abuse
        /\ BeginJob(j, [NoScan EXCEPT !.at = "scan", !.cache = kept])
        /\ UNCHANGED <<manual, abuse, lastBad, aged>>

----------------------------------------------------------------------------
\* A person bans or unbans: handleF2BBan, handleF2BUnban, fail2ban ban/unban.
BanByHand(i) ==
    /\ manual' \in {manual \cup {i}, manual \ {i}}
    /\ UNCHANGED <<abuse, scan, lastBad, begun, aged>>

Aged(cache) == [i \in IPs |-> IF cache[i].age = Never THEN NoRating
                              ELSE [cache[i] EXCEPT !.age = Older(@)]]

\* Time passes until what was Fresh is Old and what was Old is Expired.
AgePassed ==
    /\ aged < MaxAged
    /\ aged' = aged + 1
    /\ abuse' = Aged(abuse)
    /\ lastBad' = [i \in IPs |-> Older(lastBad[i])]
    /\ scan' = [j \in Jobs |-> [scan[j] EXCEPT !.cache = Aged(@)]]
    /\ UNCHANGED <<manual, begun>>

\* A streamed command ends with its request, at any point.
KillJob(j) ==
    /\ ~ScanAt(j, "idle")
    /\ scan' = [scan EXCEPT ![j] = NoScan]
    /\ UNCHANGED <<manual, abuse, lastBad, begun, aged>>

GuardNext ==
    \/ \E j \in Jobs :
          \/ BeginScan(j) \/ PruneAbuse(j) \/ ScanDone(j) \/ FillAbuse(j) \/ KillJob(j)
          \/ \E i \in IPs : \/ ScanSkip(j, i) \/ ScanCached(j, i)
                            \/ ScanAsk(j, i) \/ ScanError(j, i)
    \/ \E i \in IPs : BanByHand(i)
    \/ AgePassed

GuardSpec == GuardInit /\ [][GuardNext]_guardVars

----------------------------------------------------------------------------
\* A scan bans an address only when AbuseIPDB has called it bad within the last
\* day, and never a private one, although the copies of the cache that scans and
\* prunes write over one another are of different ages (abuseipdb.go 116-126, 276-299).
BansAreFounded ==
    [][\A i \in IPs :
          (\E j \in Jobs : ScanAt(j, "scan") /\ i \in scan[j].todo \ scan'[j].todo)
             /\ i \in manual' \ manual
          => lastBad'[i] = Fresh /\ i \notin Private]_guardVars
==============================================================================
