-------------------------------- MODULE Ports --------------------------------
(***************************************************************************)
(* The next free port on a machine: ports.go, the machine slugs of         *)
(* machines.go, and the two port handlers of web.go.  An asker reads       *)
(* sites.conf (whose targets parseSites resolves through machines.conf),   *)
(* then machines.conf once more for the machine it was asked about, and    *)
(* then tries the ports of a category one by one; a port that sites.conf   *)
(* does not use is probed, and what answers there may change meanwhile, so *)
(* every probe may turn out either way.  Others add sites, and set and     *)
(* remove slugs; os.WriteFile leaves machines.conf empty for a moment, and *)
(* an empty one has no slugs.                                              *)
(***************************************************************************)
EXTENDS Integers, FiniteSets, FiniteSetsExt

CONSTANTS Askers,       \* port suggest, on the command line or the page
          Setters,      \* machines set and rm
          Slugs, Boxes, \* short names of machines, and their addresses
          Category,     \* the ports of the category asked for
          PortNumbers,  \* the ports that targets may have
          MaxProbes,    \* how many ports are probed at most
          MaxAsks, MaxTargets, MaxSets \* bounds

\* The last port that a range of ports.conf may name.
LastPort == 65535

ASSUME PortsAssumption ==
    /\ Category \subseteq 1..LastPort /\ PortNumbers \subseteq 1..LastPort
    /\ MaxProbes \in Nat /\ MaxAsks \in Nat /\ MaxTargets \in Nat /\ MaxSets \in Nat

VARIABLES targets,  \* sites.conf: the targets of its sites, as written
          machines, \* machines.conf: the address of a slug, {} for none
          ask,      \* ask[q]: what q has under way
          setter,   \* setter[w]: the machines.conf that w is writing, in a set
          asks, sets

portVars == <<targets, machines, ask, setter, asks, sets>>

NoSlugs == [s \in Slugs |-> {}]
\* sites, slugs: sites.conf and machines.conf as read at first; box: the machine,
\* resolved; left: ports not tried yet; busy: those where something answered;
\* probed: how many were probed; port: the answer, in a set.
NoAsk == [at |-> "idle", machine |-> "none", sites |-> {}, slugs |-> NoSlugs,
          box |-> "none", left |-> {}, busy |-> {}, probe |-> TRUE, probed |-> 0,
          port |-> {}]
AskAt(q, l) == ask[q].at = l

PortsInit ==
    /\ targets = {} /\ machines = NoSlugs /\ asks = 0 /\ sets = 0
    /\ ask = [q \in Askers |-> NoAsk]
    /\ setter = [w \in Setters |-> {}]

\* resolveMachine: the address of a slug; anything else is itself.
Resolve(slugs, m) == IF m \in Slugs /\ slugs[m] # {} THEN CHOOSE b \in slugs[m] : TRUE ELSE m

\* Variant of the next definition: targets are taken as they are written.
UsedWritten(q) == {t.port : t \in {u \in ask[q].sites : u.to = ask[q].box}}
\* usedPortsByMachine, of the machine asked about.
Used(q) == {t.port : t \in {u \in ask[q].sites : Resolve(ask[q].slugs, u.to) = ask[q].box}}

----------------------------------------------------------------------------
(* suggestPort *)

BeginAsk(q) ==
    /\ AskAt(q, "idle") /\ asks < MaxAsks
    /\ asks' = asks + 1
    /\ \E m \in Slugs \cup Boxes : \E probe \in BOOLEAN :
          ask' = [ask EXCEPT ![q] = [NoAsk EXCEPT !.at = "resolve", !.machine = m,
                                       !.sites = targets, !.slugs = machines,
                                       !.probe = probe]]
    /\ UNCHANGED <<targets, machines, setter, sets>>

ResolveAsk(q) ==
    /\ AskAt(q, "resolve")
    /\ ask' = [ask EXCEPT ![q].at = "try", ![q].left = Category,
                          ![q].box = Resolve(machines, ask[q].machine)]
    /\ UNCHANGED <<targets, machines, setter, asks, sets>>

\* Variant of the next definition: the highest of all ports the machine uses.
HighestAny(q) == IF Used(q) = {} THEN 0 ELSE Max(Used(q))
\* The highest port in use within the category.
Highest(q) == IF Used(q) \cap Category = {} THEN 0 ELSE Max(Used(q) \cap Category)

\* scanOrder: upwards from the highest port in use, and then from the beginning.
NextPort(q) ==
    LET tail == {p \in ask[q].left : p > Highest(q)}
    IN  IF tail # {} THEN Min(tail) ELSE Min(ask[q].left)

Stop(q, l, port) == ask' = [ask EXCEPT ![q].at = l, ![q].port = port]

TryPort(q) ==
    /\ AskAt(q, "try") /\ ask[q].left # {}
    /\ LET p == NextPort(q)
       IN  CASE p \in Used(q) -> ask' = [ask EXCEPT ![q].left = @ \ {p}]
             [] p \notin Used(q) /\ ~ask[q].probe -> Stop(q, "done", {p})
             [] p \notin Used(q) /\ ask[q].probe /\ ask[q].probed >= MaxProbes ->
                   Stop(q, "done", {})
             [] OTHER ->
                   \/ ask' = [ask EXCEPT ![q].left = @ \ {p}, ![q].busy = @ \cup {p},
                                         ![q].probed = @ + 1]
                   \/ ask' = [ask EXCEPT ![q].at = "done", ![q].port = {p},
                                         ![q].probed = @ + 1]
    /\ UNCHANGED <<targets, machines, setter, asks, sets>>

\* "no free port left in category".
NonePort(q) ==
    /\ AskAt(q, "try") /\ ask[q].left = {}
    /\ Stop(q, "done", {})
    /\ UNCHANGED <<targets, machines, setter, asks, sets>>

\* Whoever asked has seen the answer; or the request is abandoned.
AskOver(q) ==
    /\ ~AskAt(q, "idle")
    /\ ask' = [ask EXCEPT ![q] = NoAsk]
    /\ UNCHANGED <<targets, machines, setter, asks, sets>>

----------------------------------------------------------------------------
(* Others *)

\* A site is added to sites.conf, with a slug or an address.
Route ==
    /\ Cardinality(targets) < MaxTargets
    /\ \E m \in Slugs \cup Boxes : \E p \in PortNumbers :
          targets' = targets \cup {[to |-> m, port |-> p]}
    /\ UNCHANGED <<machines, ask, setter, asks, sets>>

\* machinesSet and machinesRm: the file is read and written back with one line
\* replaced, added or left out.
SetSlug(w) ==
    /\ setter[w] = {} /\ sets < MaxSets
    /\ sets' = sets + 1
    /\ \E s \in Slugs : \E box \in {{}} \cup {{b} : b \in Boxes} :
          /\ box # machines[s]
          /\ setter' = [setter EXCEPT ![w] = {[machines EXCEPT ![s] = box]}]
    /\ machines' = NoSlugs
    /\ UNCHANGED <<targets, ask, asks>>

FillSlugs(w) ==
    /\ setter[w] # {}
    /\ machines' = CHOOSE m \in setter[w] : TRUE
    /\ setter' = [setter EXCEPT ![w] = {}]
    /\ UNCHANGED <<targets, ask, asks, sets>>

PortsNext ==
    \/ Route
    \/ \E q \in Askers : \/ BeginAsk(q) \/ ResolveAsk(q) \/ TryPort(q) \/ NonePort(q)
                         \/ AskOver(q)
    \/ \E w \in Setters : SetSlug(w) \/ FillSlugs(w)

PortsSpec == PortsInit /\ [][PortsNext]_portVars

----------------------------------------------------------------------------
\* The port suggested is in the category and has nothing on it, by any name of
\* its machine, if the slugs have not changed between the two readings; above the
\* highest port in use unless every port there was found busy; below, the first
\* that was not (ports.go 119-220).
NextFree ==
    \A q \in Askers : \A p \in ask[q].port :
        LET Taken == {t.port : t \in {u \in ask[q].sites :
                        Resolve(ask[q].slugs, u.to) = Resolve(ask[q].slugs, ask[q].machine)}}
            Tail  == {r \in Category : \A u \in Taken \cap Category : u < r}
            Free  == Category \ (Taken \cup ask[q].busy)
        IN  Resolve(ask[q].slugs, ask[q].machine) = ask[q].box =>
               /\ p \in Free
               /\ p \notin Tail => Tail \subseteq ask[q].busy
               /\ \A r \in Free : r < p => p \in Tail /\ r \notin Tail
=============================================================================
