----------------------------- MODULE MCSitesConf -----------------------------
\* Instances of SitesConf for TLC.
EXTENDS SitesConf

CONSTANTS na, nb, dx, dy, p1, p2

LineOn(name, port) == [name |-> name, port |-> port]
Group(dom, machine, lines) == [dom |-> dom, machine |-> machine, lines |-> lines]

\* A group with two sites, one on a bare port, beside an empty group.
MCOneGroup == {<<Group(dx, TRUE, <<LineOn(na, FALSE), LineOn(nb, TRUE)>>), Group(dy, FALSE, <<>>)>>}

\* Two groups with a site, one on a bare port.
MCTwoGroups == {<<Group(dx, TRUE, <<LineOn(na, TRUE)>>), Group(dy, FALSE, <<LineOn(na, FALSE)>>)>>}

\* Texts for the raw editor: one site alone; the groups the other way round, with
\* the other site alone; a bare port without a machine.  (None is without sites
\* or with both, for then a save that loses them all, or adds two for one, would
\* be one that was asked for.)
MCSubmissions == {<<Group(dy, FALSE, <<LineOn(na, FALSE)>>)>>,
                  <<Group(dy, TRUE, <<>>), Group(dx, TRUE, <<LineOn(na, TRUE)>>)>>,
                  <<Group(dx, FALSE, <<LineOn(na, TRUE)>>)>>}
MCNoSubmissions == {}

\* Every operation.
MCAllOps == [p \in Procs |-> Op]
\* Both move a site to manconf/; one also saves a group.
MCMoveOrSave == [p \in Procs |-> IF p = p1 THEN {"manualize"} ELSE {"manualize", "group"}]
MCMoveOrGroup == [p \in Procs |-> IF p = p1 THEN {"manualize"} ELSE {"newgroup"}]

MCAllSites == [p \in Procs |-> Names \X Domains]
MCOwnSites == [p \in Procs |-> IF p = p1 THEN {na} \X Domains ELSE {nb} \X Domains]

MCNoExtends == {}
MCExtends == {<<dx, dy>>}
=============================================================================
