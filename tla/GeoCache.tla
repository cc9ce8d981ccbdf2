------------------------------ MODULE GeoCache ------------------------------
(***************************************************************************)
(* Where client addresses are: geoip.go and the pages of web.go that show  *)
(* it, the table of addresses, the list of one jail and the overview. A    *)
(* page reads geoip-cache.json, goes through its addresses one by one,     *)
(* looks some up at ip-api.com, and writes its copy of the cache back if   *)
(* it has changed. Several pages, and the routine prune-cache, may be at   *)
(* it at once; their writes empty the file before they fill it.            *)
(***************************************************************************)
EXTENDS Naturals, FiniteSets

CONSTANTS Pages,    \* requests, and prunes, that may be at work at once
          Addrs,    \* addresses that a page may have to show
          Local,    \* those that isPrivateOrLoopback holds of
          MaxLive,  \* maxLiveGeoLookupsPerRequest, or maxLive of a jail
          MaxPages, \* bound: pages and prunes begun
          MaxDays   \* bound: how often geoCacheTTL passes

ASSUME GeoAssumption ==
    Local \subseteq Addrs /\ MaxLive \in Nat /\ MaxPages \in Nat /\ MaxDays \in Nat

VARIABLES geo,   \* the addresses in the file: "none", "fresh" or "expired"
          page,  \* page[p]: what request p has under way
          shown, \* pages and prunes begun
          days

geoVars == <<geo, page, shown, days>>

NoGeo == [a \in Addrs |-> "none"]

\* rows: addresses still to be shown; cache: this request's copy; live: the
\* counter of boundedGeoLookup; calls: the lookups really made (history);
\* dirty: geoDirty.
NoPage == [at |-> "idle", rows |-> {}, cache |-> NoGeo, live |-> 0, calls |-> 0,
           dirty |-> FALSE]
PageAt(p, l) == page[p].at = l

GeoInit == geo = NoGeo /\ page = [p \in Pages |-> NoPage] /\ shown = 0 /\ days = 0

\* handleSecurityIPs, handleF2BJailDetail and handleCurrent read the cache.
OpenPage(p) ==
    /\ PageAt(p, "idle") /\ shown < MaxPages
    /\ shown' = shown + 1
    /\ \E rows \in SUBSET Addrs \ {{}} :
          page' = [page EXCEPT ![p] = [NoPage EXCEPT !.at = "rows", !.rows = rows,
                                                     !.cache = geo]]
    /\ UNCHANGED <<geo, days>>

\* boundedGeoLookup, without a lookup: the cache has the address, or the page
\* has waited often enough.
ShowCached(p, a) ==
    /\ PageAt(p, "rows") /\ a \in page[p].rows
    /\ page[p].cache[a] = "fresh" \/ page[p].live >= MaxLive
    /\ page' = [page EXCEPT ![p].rows = @ \ {a}]
    /\ UNCHANGED <<geo, shown, days>>

\* Variant of the next definition: a lookup is counted when it has succeeded.
LocatedFound(p, a, found) ==
    [page[p] EXCEPT !.rows = @ \ {a},
                    !.live = IF found THEN @ + 1 ELSE @,
                    !.calls = IF a \in Local THEN @ ELSE @ + 1,
                    !.cache = IF found THEN [@ EXCEPT ![a] = "fresh"] ELSE @,
                    !.dirty = @ \/ found]
\* geoLookupCached: a local address is entered without a call, any other one
\* when ip-api.com has found it.
Located(p, a, found) ==
    [page[p] EXCEPT !.rows = @ \ {a},
                    !.live = @ + 1,
                    !.calls = IF a \in Local THEN @ ELSE @ + 1,
                    !.cache = IF found THEN [@ EXCEPT ![a] = "fresh"] ELSE @,
                    !.dirty = @ \/ found]

Lookup(p, a) ==
    /\ PageAt(p, "rows") /\ a \in page[p].rows
    /\ page[p].cache[a] # "fresh" /\ page[p].live < MaxLive
    /\ \E found \in (IF a \in Local THEN {TRUE} ELSE BOOLEAN) :
          page' = [page EXCEPT ![p] = Located(p, a, found)]
    /\ UNCHANGED <<geo, shown, days>>

\* saveGeoCache, when there is something to save.
ClosePage(p) ==
    /\ PageAt(p, "rows") /\ page[p].rows = {}
    /\ IF page[p].dirty
       THEN geo' = NoGeo /\ page' = [page EXCEPT ![p].at = "fill"]
       ELSE UNCHANGED geo /\ page' = [page EXCEPT ![p] = NoPage]
    /\ UNCHANGED <<shown, days>>

FillGeo(p) ==
    /\ PageAt(p, "fill")
    /\ geo' = page[p].cache
    /\ page' = [page EXCEPT ![p] = NoPage]
    /\ UNCHANGED <<shown, days>>

\* pruneCaches reads the file and, if entries have expired, will write the rest.
PruneGeo(p) ==
    /\ PageAt(p, "idle") /\ shown < MaxPages
    /\ \E a \in Addrs : geo[a] = "expired"
    /\ shown' = shown + 1
    /\ page' = [page EXCEPT ![p] =
                  [NoPage EXCEPT !.at = "rows", !.dirty = TRUE,
                     !.cache = [a \in Addrs |-> IF geo[a] = "fresh" THEN "fresh" ELSE "none"]]]
    /\ UNCHANGED <<geo, days>>

Outdated(cache) == [a \in Addrs |-> IF cache[a] = "none" THEN "none" ELSE "expired"]

\* geoCacheTTL passes.
Month ==
    /\ days < MaxDays
    /\ days' = days + 1
    /\ geo' = Outdated(geo)
    /\ page' = [p \in Pages |-> [page[p] EXCEPT !.cache = Outdated(@)]]
    /\ UNCHANGED shown

GeoNext ==
    \/ \E p \in Pages : \/ OpenPage(p) \/ ClosePage(p) \/ FillGeo(p) \/ PruneGeo(p)
                        \/ \E a \in Addrs : ShowCached(p, a) \/ Lookup(p, a)
    \/ Month

GeoSpec == GeoInit /\ [][GeoNext]_geoVars

\* A page waits for at most MaxLive lookups, whether they succeed, fail or time
\* out, and whatever other pages do to the cache (web.go 1516-1529).
LookupsBounded == \A p \in Pages : page[p].calls <= MaxLive
=============================================================================
