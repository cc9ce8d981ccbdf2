-------------------------------- MODULE Wedos --------------------------------
(***************************************************************************)
(* The DNS-01 challenge: the provider of dns_wedos.go, which adds a TXT    *)
(* row per name to be validated and deletes it afterwards.  Changes to a   *)
(* zone are published by a commit, which publishes all of them, whoever    *)
(* made them.  The order of the calls on the provider is the library's: it *)
(* presents the names of an order one after another, has those validated   *)
(* that were presented without an error, and cleans all of them up.        *)
(* Orders of several processes may be under way at once; the values of     *)
(* their challenges are never the same, the names of their records are.    *)
(*                                                                         *)
(* Each call on WEDOS may fail without effect, or fail although it has had *)
(* its effect (the answer is lost); none has a timeout.                    *)
(***************************************************************************)
EXTENDS Naturals, FiniteSets

CONSTANTS Orders,   \* orders that may be under way at once
          Names,    \* the names of an order, all validated at one record
          MaxOrders \* bound: orders begun

ASSUME WedosAssumption == MaxOrders \in Nat

VARIABLES rows,      \* the TXT rows of the zone, committed or not
          published, \* what the zone's name servers answer
          order,     \* order[o]: what has become of it
          ordered

dnsVars == <<rows, published, order, ordered>>

\* no: the number of the order; todo: names still to be presented or cleaned up;
\* up: names whose Present has succeeded; row: the name being presented.
NoOrder == [at |-> "idle", no |-> 0, todo |-> {}, up |-> {}, row |-> {}]
OrderAt(o, l) == order[o].at = l
OrderTo(o, l) == order' = [order EXCEPT ![o].at = l]
\* The row for a name of the order: its value is the order's and the name's.
Row(o, n) == [no |-> order[o].no, name |-> n]

DnsInit ==
    /\ rows = {} /\ published = {} /\ ordered = 0
    /\ order = [o \in Orders |-> NoOrder]

BeginOrder(o) ==
    /\ OrderAt(o, "idle") /\ ordered < MaxOrders
    /\ ordered' = ordered + 1
    /\ order' = [order EXCEPT ![o] = [NoOrder EXCEPT !.at = "present", !.todo = Names,
                                                     !.no = ordered + 1]]
    /\ UNCHANGED <<rows, published>>

----------------------------------------------------------------------------
(* Present *)

\* splitZone and dns-row-add.
Present(o, n) ==
    /\ OrderAt(o, "present") /\ n \in order[o].todo
    /\ rows' = rows \cup {Row(o, n)}
    /\ order' = [order EXCEPT ![o].at = "commit", ![o].todo = @ \ {n}, ![o].row = {n}]
    /\ UNCHANGED <<published, ordered>>

\* commit: the name is up when it succeeds.
Commit(o) ==
    /\ OrderAt(o, "commit")
    /\ published' = rows
    /\ order' = [order EXCEPT ![o].at = "present", ![o].up = @ \cup order[o].row,
                              ![o].row = {}]
    /\ UNCHANGED <<rows, ordered>>

\* A call of Present fails: no zone found, no row, no commit, or an answer lost;
\* the library goes on with the next name.
PresentFails(o) ==
    /\ \/ /\ OrderAt(o, "present")
          /\ \E n \in order[o].todo :
                /\ rows' \in {rows, rows \cup {Row(o, n)}}
                /\ order' = [order EXCEPT ![o].todo = @ \ {n}]
          /\ UNCHANGED published
       \/ /\ OrderAt(o, "commit")
          /\ published' \in {published, rows}
          /\ order' = [order EXCEPT ![o].at = "present", ![o].row = {}]
          /\ UNCHANGED rows
    /\ UNCHANGED ordered

\* The CA is asked to look at the records of the names that are up.
Validate(o) ==
    /\ OrderAt(o, "present") /\ order[o].todo = {}
    /\ OrderTo(o, "validating")
    /\ UNCHANGED <<rows, published, ordered>>

\* It has found them, or not.
Validated(o) ==
    /\ OrderAt(o, "validating")
    /\ order' = [order EXCEPT ![o].at = "cleanup", ![o].todo = Names]
    /\ UNCHANGED <<rows, published, ordered>>

----------------------------------------------------------------------------
(* CleanUp *)

\* Variant of the next definition: a row of the record's name is taken.
FindRowByName(o, n) == rows
\* findRow: the row of that name and value, if it is there.
FindRow(o, n) == rows \cap {Row(o, n)}

\* splitZone, findRow and dns-row-delete; nothing more when there is no row.
CleanUp(o, n) ==
    /\ OrderAt(o, "cleanup") /\ n \in order[o].todo
    /\ IF FindRow(o, n) = {}
       THEN order' = [order EXCEPT ![o].todo = @ \ {n}] /\ UNCHANGED rows
       ELSE /\ \E r \in FindRow(o, n) : rows' = rows \ {r}
            /\ order' = [order EXCEPT ![o].at = "uncommit", ![o].todo = @ \ {n},
                                      ![o].up = @ \ {n}]
    /\ UNCHANGED <<published, ordered>>

CommitDeleted(o) ==
    /\ OrderAt(o, "uncommit")
    /\ published' = rows
    /\ OrderTo(o, "cleanup")
    /\ UNCHANGED <<rows, ordered>>

\* A call of CleanUp fails: the library goes on with the next name.
CleanUpFails(o) ==
    /\ \/ /\ OrderAt(o, "cleanup")
          /\ \E n \in order[o].todo :
                /\ rows' \in {rows, rows \ FindRow(o, n)}
                /\ order' = [order EXCEPT ![o].todo = @ \ {n}, ![o].up = @ \ {n}]
          /\ UNCHANGED published
       \/ /\ OrderAt(o, "uncommit")
          /\ published' \in {published, rows}
          /\ OrderTo(o, "cleanup")
          /\ UNCHANGED rows
    /\ UNCHANGED ordered

\* The order is done; or its process is killed, and its rows stay.
OrderOver(o) ==
    /\ ~OrderAt(o, "idle")
    /\ order' = [order EXCEPT ![o] = NoOrder]
    /\ UNCHANGED <<rows, published, ordered>>

DnsNext ==
    \E o \in Orders :
       \/ BeginOrder(o) \/ Commit(o) \/ PresentFails(o) \/ Validate(o) \/ Validated(o)
       \/ CommitDeleted(o) \/ CleanUpFails(o) \/ OrderOver(o)
       \/ \E n \in Names : Present(o, n) \/ CleanUp(o, n)

DnsSpec == DnsInit /\ [][DnsNext]_dnsVars

----------------------------------------------------------------------------
\* While the CA looks for the records of an order, those presented are published,
\* whatever other orders add, delete and commit at the same record, and however
\* their calls fail (dns_wedos.go 63-157).
RecordsUp ==
    \A o \in Orders : OrderAt(o, "validating") =>
        \A n \in order[o].up : Row(o, n) \in published
=============================================================================
