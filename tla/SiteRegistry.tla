---------------------------- MODULE SiteRegistry ----------------------------
(***************************************************************************)
(* What the editors of sites.conf promise, without files or texts: revpro  *)
(* knows a set of generated sites and a set of hand-written ones, and one  *)
(* save adds a site, removes a site, turns a generated site into a         *)
(* hand-written one, gives a group of sites another domain, or puts in     *)
(* place the table that was asked for.  Only while it is saved may the     *)
(* table lose generated sites, by a crash or a failed write, and only      *)
(* after that may a move take its hand-written file back.                  *)
(***************************************************************************)
CONSTANTS
    Name,   \* subdomain names
    Domain, \* group domains
    Saves   \* the tables one may ask for

Site == Name \X Domain

VARIABLES
    table,  \* the sites generated from the routing table
    manual, \* the sites served from a hand-written file alone
    phase   \* "saving" while a save is under way, "failed" after one that failed

Init ==
    /\ table \subseteq Site /\ manual \subseteq Site /\ table \cap manual = {}
    /\ phase = "rest"

\* The table becomes T.  A hand-written file that a site of T has too stays,
\* but the site is no longer served from it alone; a site that had one besides
\* its line now is.
Become(T) ==
    /\ table' = T
    /\ \E left \in SUBSET (table \ T) : manual' = (manual \cup left) \ T

Add(f) == Become(table \cup {f})

Remove(f) ==
    /\ table' = table \ {f}
    /\ UNCHANGED manual

ToManual(f) ==
    /\ f \in table
    /\ table' = table \ {f}
    /\ manual' = manual \cup {f}

\* The names ns of domain d get domain e; those that another group of domain d
\* has too, all but gone, keep theirs as well.
Rename(ns, gone, d, e) ==
    /\ ns \X {d} \subseteq table /\ gone \subseteq ns
    /\ Become((table \ (gone \X {d})) \cup (ns \X {e}))

Save == \E T \in Saves : Become(T)

Rewrite == UNCHANGED <<table, manual>>

Begin ==
    /\ phase = "rest" /\ phase' = "saving"
    /\ \/ Save \/ Rewrite
       \/ \E f \in Site : Add(f) \/ Remove(f) \/ ToManual(f)
       \/ \E ns, gone \in SUBSET Name, d, e \in Domain : Rename(ns, gone, d, e)

End ==
    /\ phase # "rest" /\ phase' = "rest"
    /\ UNCHANGED <<table, manual>>

Lose ==
    /\ phase = "saving" /\ phase' \in {"rest", "failed"}
    /\ \E T \in SUBSET table : Become(T)

Withdraw(f) ==
    /\ phase = "failed" /\ phase' = "rest"
    /\ manual' = manual \ {f}
    /\ UNCHANGED table

Next == Begin \/ End \/ Lose \/ \E f \in Site : Withdraw(f)

Spec == Init /\ [][Next]_<<table, manual, phase>>
=============================================================================
