------------------------------ MODULE SitesConf ------------------------------
(***************************************************************************)
(* The editors of sites.conf, revpro's routing table: the web UI's handlers *)
(* (raw editor, group save/add/delete, "Edit config" which moves a site to *)
(* manconf/) and the add and edit-site commands.  All of them read the     *)
(* whole file, compute a new text and write the whole file; nothing locks  *)
(* it.  Each file access is a step.  os.WriteFile truncates the file and   *)
(* then writes from its start: another editor can read, and a crash can    *)
(* leave, an empty file, which parses as a table without sites; and when   *)
(* two editors have truncated before either writes, the file ends as the   *)
(* later text followed by what sticks out of a longer earlier one.  A      *)
(* write that fails leaves a piece of its text.                            *)
(*                                                                         *)
(* Abstracted: the text is its sequence of ==domain blocks; a block has    *)
(* its domain, whether its header names a [machine], and its site lines; a *)
(* line has its name and whether its target is a bare port, which only a   *)
(* block with a machine may hold, or is one that parseSites refuses (of    *)
(* one word, say).  Comments, flags and certificates do not influence who  *)
(* wins, and are left out, and so are lengths: how much of a longer text   *)
(* sticks out, and how much of a failed one is written, is any.            *)
(***************************************************************************)
EXTENDS Integers, Sequences, SequencesExt

CONSTANTS
    Names,      \* subdomain names; "@" is one like the others here
    Unreadable, \* stands for the name of a line that parseSites refuses
    Domains,    \* group domains
    Extends,    \* <<d, e>>: the text of domain e begins with the text of d
    Procs,      \* editors: web requests and commands
    Ops,        \* Ops[p]: the operations p performs
    Targets,    \* Targets[p]: the sites p manualizes or edits
    Contents,   \* the possible initial texts
    Submissions,  \* the texts the raw editor's browser may submit
    Faults,     \* TRUE: the host may go down, a streamed command be killed, a write fail
    MaxOps,     \* bound on the operations begun
    MaxBlocks,  \* bound on the blocks an operation may start from
    MaxLines    \* bound on the lines of a block an operation may start from

\* A group save is a "rename" when it changes the group's domain; "readd" is
\* the second half of an "edit", never begun by itself.
Op == {"manualize", "edit", "readd", "add", "conf", "group", "rename", "delete", "newgroup"}
Streamed == {"edit", "readd", "add"}

ASSUME OpsAssumption == Ops \in [Procs -> SUBSET Op]
ASSUME TargetsAssumption == Targets \in [Procs -> SUBSET (Names \X Domains)]
ASSUME ExtendsAssumption == Extends \subseteq Domains \X Domains
ASSUME BoundsAssumption == MaxOps \in Nat /\ MaxBlocks \in Nat /\ MaxLines \in Nat
ASSUME SitesFaultsAssumption == Faults \in BOOLEAN

Fqdn == Names \X Domains
Line == [name : Names \cup {Unreadable}, port : BOOLEAN]
Block == [dom : Domains, machine : BOOLEAN, lines : Seq(Line)]

ASSUME SitesAssumption == Names # {} /\ Domains # {}
ASSUME UnreadableAssumption == Unreadable \notin Names
ASSUME ContentsAssumption == Contents \subseteq Seq(Block) /\ Submissions \subseteq Seq(Block)

\* Whether block b of text t has site f's line.
Holds(t, b, f) == t[b].dom = f[2] /\ \E j \in DOMAIN t[b].lines : t[b].lines[j].name = f[1]
Fqdns(t) == {f \in Fqdn : \E b \in DOMAIN t : Holds(t, b, f)}

\* parseSites accepts the text: a bare port needs the group's machine.
Parses(t) ==
    \A b \in DOMAIN t : \A j \in DOMAIN t[b].lines :
        /\ t[b].lines[j].name # Unreadable
        /\ t[b].lines[j].port => t[b].machine

\* Variant of the next definition: every text passes.
ValidAny(t) == TRUE

\* The web server's editors parse the new text, in a temporary file, before
\* they write it.
Valid(t) == Parses(t)

AnySite == CHOOSE f \in Fqdn : TRUE
Refused == [name |-> Unreadable, port |-> FALSE]

\* What is left of some lines behind a longer write: the last of them, the
\* first of these from its middle, which reads as any line, or is refused.
LeftOver(ls) ==
    LET lasts == {SubSeq(ls, j, Len(ls)) : j \in 1 .. Len(ls) + 1}
    IN lasts \cup UNION {{<<l>> \o last : last \in lasts} :
                              l \in {Refused} \cup [name : Names, port : BOOLEAN]}

\* Text t, the lines ls, which come under its last header, and the blocks u.
\* Lines without a header parseSites refuses.
Glued(t, ls, u) ==
    IF t = <<>>
    THEN <<[dom |-> AnySite[2], machine |-> FALSE,
            lines |-> <<Refused>> \o ls]>> \o u
    ELSE [t EXCEPT ![Len(t)].lines = @ \o ls] \o u

\* What the file may hold once t is written from the start of text u: t, and
\* the end of u when that is the longer text.
Overlaid(t, u) ==
    {t} \cup {t \o SubSeq(u, b, Len(u)) : b \in DOMAIN u}
        \cup UNION {{Glued(t, ls, SubSeq(u, b + 1, Len(u))) : ls \in LeftOver(u[b].lines)} :
                        b \in DOMAIN u}

\* A line of which the end is missing: its target reads differently, or the
\* line is refused.
Broken(l) == {Refused} \cup {[l EXCEPT !.port = q] : q \in BOOLEAN}

\* What a failed write of t writes.
CutLines(ls) ==
    {<<>>} \cup UNION {{Append(SubSeq(ls, 1, j - 1), l) : l \in Broken(ls[j])} : j \in DOMAIN ls}
Cut(t) ==
    {<<>>} \cup UNION {{Append(SubSeq(t, 1, b - 1), [t[b] EXCEPT !.lines = ls]) :
                            ls \in CutLines(t[b].lines)} : b \in DOMAIN t}

VARIABLES
    conf,    \* the text of sites.conf
    bak,     \* the text of sites.conf.bak
    man,     \* the sites with a file manconf/<fqdn>.conf
    pc,      \* pc[p]: where editor p is
    req,     \* req[p]: the request it serves
    page,    \* page[p]: the text its browser was shown
    next,    \* next[p]: the text it is about to write
    whole,   \* history: the text the last save found, or finished writing
    bare,    \* history: that text was truncated without a backup of it
    spoilt,  \* history: a write was laid over another one, or failed
    begun,   \* history: how many operations have begun
    known    \* history: the sites of the table and of manconf/ to begin with

disk == <<conf, bak, man>>
history == <<whole, bare, spoilt, known>>
vars == <<disk, pc, req, page, next, history, begun>>

Label == {"idle", "page", "stat", "putman", "parse", "remove", "append", "regroup",
          "backup", "truncate", "unbacked", "fill", "undo"}

\* site and to: the site removed and the site added; gi: a block's index.
Request == [op : Op, site : Fqdn, to : Fqdn, port : BOOLEAN, gi : Nat,
            dom : Domains, machine : BOOLEAN]

TypeOK ==
    /\ conf \in Seq(Block) /\ bak \in Seq(Block) /\ whole \in Seq(Block)
    /\ man \subseteq Fqdn
    /\ pc \in [Procs -> Label]
    /\ req \in [Procs -> Request]
    /\ page \in [Procs -> Seq(Block)]
    /\ next \in [Procs -> Seq(Block)]
    /\ known \subseteq Fqdn
    /\ bare \in BOOLEAN /\ spoilt \in BOOLEAN /\ begun \in Nat

Quiescent == \A p \in Procs : pc[p] = "idle"

NoRequest == [op |-> "group", site |-> AnySite, to |-> AnySite, port |-> FALSE, gi |-> 0,
              dom |-> AnySite[2], machine |-> FALSE]

Init ==
    /\ conf \in Contents /\ bak = conf /\ whole = conf
    /\ man \in SUBSET Fqdn /\ man \cap Fqdns(conf) = {}
    /\ known = Fqdns(conf) \cup man
    /\ bare = FALSE /\ spoilt = FALSE /\ begun = 0
    /\ pc = [p \in Procs |-> "idle"]
    /\ req = [p \in Procs |-> NoRequest]
    /\ page = [p \in Procs |-> <<>>]
    /\ next = [p \in Procs |-> <<>>]

Goto(p, l) == pc' = [pc EXCEPT ![p] = l]

\* The editor ends.
Stop(p) ==
    /\ Goto(p, "idle")
    /\ req' = [req EXCEPT ![p] = NoRequest]
    /\ page' = [page EXCEPT ![p] = <<>>]
    /\ next' = [next EXCEPT ![p] = <<>>]

\* The bounds on how often an operation starts, and what it starts from.
Bounded(t) == Len(t) <= MaxBlocks /\ \A b \in DOMAIN t : Len(t[b].lines) <= MaxLines
Count == begun < MaxOps /\ begun' = begun + 1

Begin(p, r, first) ==
    /\ pc[p] = "idle" /\ r.op \in Ops[p] /\ Bounded(conf) /\ Count
    /\ req' = [req EXCEPT ![p] = r]
    /\ Goto(p, first)
    /\ UNCHANGED <<disk, page, next, history>>

(***************************************************************************)
(* Moving a site to manconf/, and the removal edit-site begins with.       *)
(***************************************************************************)

\* handleSiteManualize: the site must be in the table when the request comes.
BeginManualize(p, f) ==
    /\ f \in Targets[p] \cap Fqdns(conf) /\ Parses(conf)
    /\ Begin(p, [NoRequest EXCEPT !.op = "manualize", !.site = f], "stat")

BeginEdit(p, f, g, port) ==
    /\ f \in Targets[p]
    /\ Begin(p, [NoRequest EXCEPT !.op = "edit", !.site = f, !.to = g, !.port = port], "parse")

\* convertSiteToManual refuses when a manual file of that name exists.
Stat(p) ==
    /\ pc[p] = "stat"
    /\ \/ /\ req[p].site \in man
          /\ Stop(p)
       \/ /\ req[p].site \notin man
          /\ Goto(p, "putman")
          /\ UNCHANGED <<req, page, next>>
    /\ UNCHANGED <<disk, history>>

PutMan(p) ==
    /\ pc[p] = "putman"
    /\ man' = man \cup {req[p].site}
    /\ Goto(p, "parse")
    /\ UNCHANGED <<conf, bak, req, page, next, history>>

\* Writing the manual file fails: a piece of it may be left.
PutManFails(p) ==
    /\ Faults /\ pc[p] = "putman"
    /\ man' \in {man, man \cup {req[p].site}}
    /\ Stop(p)
    /\ UNCHANGED <<conf, bak, history>>

\* What a failed removal does: the manual file is deleted again; the others
\* just give up.
Refuse(p) ==
    /\ \/ /\ req[p].op = "manualize"
          /\ Goto(p, "undo")
          /\ UNCHANGED <<req, page, next>>
       \/ /\ req[p].op # "manualize"
          /\ Stop(p)
    /\ UNCHANGED <<disk, history>>

\* removeSiteLine's first read: parseSites gives the index of the site's block.
ParseIndex(p) ==
    /\ pc[p] = "parse"
    /\ LET at == {b \in DOMAIN conf : Holds(conf, b, req[p].site)} IN
        \/ /\ ~Parses(conf) \/ at = {}
           /\ Refuse(p)
        \/ /\ Parses(conf) /\ at # {}
           /\ req' = [req EXCEPT ![p].gi = CHOOSE b \in at : \A c \in at : b <= c]
           /\ Goto(p, "remove")
           /\ UNCHANGED <<disk, page, next, history>>

\* Variant of the next definition: the block's first line.
LineFirst(block, name) == IF block.lines = <<>> THEN 0 ELSE 1

\* The first line of that name in a block, 0 if there is none.
LineOf(block, name) ==
    LET at == {j \in DOMAIN block.lines : block.lines[j].name = name}
    IN IF at = {} THEN 0 ELSE CHOOSE j \in at : \A k \in at : j <= k

\* removeSiteLine's second read, readConfBlocks: the line of that name is
\* removed from the block at that index.  The result is parsed before use.
RemoveLine(p) ==
    /\ pc[p] = "remove"
    /\ LET b == req[p].gi
           j == IF b <= Len(conf) THEN LineOf(conf[b], req[p].site[1]) ELSE 0
           t == IF j = 0 THEN conf ELSE [conf EXCEPT ![b].lines = RemoveAt(@, j)]
       IN \/ /\ j = 0 \/ ~Valid(t)
             /\ Refuse(p)
          \/ /\ j # 0 /\ Valid(t)
             /\ next' = [next EXCEPT ![p] = t]
             /\ Goto(p, "backup")
             /\ UNCHANGED <<disk, req, page, history>>

Undo(p) ==
    /\ pc[p] = "undo"
    /\ man' = man \ {req[p].site}
    /\ Stop(p)
    /\ UNCHANGED <<conf, bak, history>>

(***************************************************************************)
(* add, and the second half of edit-site.                                  *)
(***************************************************************************)

BeginAdd(p, g, port) ==
    Begin(p, [NoRequest EXCEPT !.op = "add", !.to = g, !.port = port], "append")

\* Variant of the next definition: a new line comes without its header.
AddBareLine(t, g, port) ==
    LET line == [name |-> g[1], port |-> port]
    IN IF \E b \in DOMAIN t : t[b].dom = g[2]
       THEN [b \in DOMAIN t |-> IF t[b].dom = g[2] THEN [t[b] EXCEPT !.lines = <<line>> \o @]
                                ELSE t[b]]
       ELSE Append(t, line)

\* Variant of the next definition: the line goes under every header found.
AddLineFound(t, g, port) ==
    LET line == [name |-> g[1], port |-> port]
        hit  == {b \in DOMAIN t : t[b].dom = g[2] \/ <<g[2], t[b].dom>> \in Extends}
    IN IF hit # {}
       THEN [b \in DOMAIN t |-> IF b \in hit THEN [t[b] EXCEPT !.lines = <<line>> \o @] ELSE t[b]]
       ELSE Append(t, [dom |-> g[2], machine |-> FALSE, lines |-> <<line>>])

\* add searches the text for the header: a domain that extends this one
\* counts as found; the line then goes under every header that equals it.
AddLine(t, g, port) ==
    LET line  == [name |-> g[1], port |-> port]
        found == \E b \in DOMAIN t : t[b].dom = g[2] \/ <<g[2], t[b].dom>> \in Extends
    IN IF found
       THEN [b \in DOMAIN t |-> IF t[b].dom = g[2] THEN [t[b] EXCEPT !.lines = <<line>> \o @]
                                ELSE t[b]]
       ELSE Append(t, [dom |-> g[2], machine |-> FALSE, lines |-> <<line>>])

\* add reads, and writes without parsing and without a backup; edit-site has
\* made one when it removed the site.
AppendLine(p) ==
    /\ pc[p] = "append"
    /\ next' = [next EXCEPT ![p] = AddLine(conf, req[p].to, req[p].port)]
    /\ Goto(p, IF req[p].op = "add" THEN "unbacked" ELSE "truncate")
    /\ UNCHANGED <<disk, req, page, history>>

(***************************************************************************)
(* The browser's forms: they show a text loaded earlier.                   *)
(***************************************************************************)

LoadPage(p) ==
    /\ pc[p] = "idle" /\ Ops[p] \cap {"conf", "group", "rename", "delete", "newgroup"} # {}
    /\ Bounded(conf) /\ Count
    /\ page' = [page EXCEPT ![p] = conf]
    /\ Goto(p, "page")
    /\ UNCHANGED <<disk, req, next, history>>

\* handleConfSave: any text, whatever the page showed, if it parses.
SubmitConf(p, t) ==
    /\ pc[p] = "page" /\ "conf" \in Ops[p]
    /\ Valid(t)
    /\ next' = [next EXCEPT ![p] = t]
    /\ req' = [req EXCEPT ![p].op = "conf"]
    /\ Goto(p, "backup")
    /\ UNCHANGED <<disk, page, history>>

\* handleGroupSave, handleGroupDelete, handleGroupAdd: the group is named by
\* its index on the page; its new header is whatever the form holds.
SubmitGroup(p, op, b, d, machine) ==
    /\ pc[p] = "page" /\ op \in Ops[p]
    /\ op # "newgroup" => b \in DOMAIN page[p]
    /\ op = "group" => d = page[p][b].dom
    /\ op = "rename" => d # page[p][b].dom
    /\ req' = [req EXCEPT ![p] = [NoRequest EXCEPT !.op = op, !.gi = b, !.dom = d,
                                                   !.machine = machine]]
    /\ Goto(p, "regroup")
    /\ UNCHANGED <<disk, page, next, history>>

\* What saveGroup, deleteGroup and addGroup make of the text they read.
Regrouped(t, r) ==
    CASE r.op \in {"group", "rename"} -> [t EXCEPT ![r.gi].dom = r.dom, ![r.gi].machine = r.machine]
      [] r.op = "delete" -> RemoveAt(t, r.gi)
      [] r.op = "newgroup" -> Append(t, [dom |-> r.dom, machine |-> r.machine, lines |-> <<>>])

\* When they refuse: no such index, a group that still has sites, an
\* identical group.
GroupRefused(t, r) ==
    \/ r.op # "newgroup" /\ r.gi \notin DOMAIN t
    \/ r.op = "delete" /\ r.gi \in DOMAIN t /\ t[r.gi].lines # <<>>
    \/ r.op = "newgroup" /\ \E b \in DOMAIN t : t[b].dom = r.dom /\ t[b].machine = r.machine

\* writeAndValidateBlocks is reached, and finds that the new text parses.
Regroups(t, r) == ~GroupRefused(t, r) /\ Valid(Regrouped(t, r))

Regroup(p) ==
    /\ pc[p] = "regroup"
    /\ \/ /\ ~Regroups(conf, req[p])
          /\ Refuse(p)
       \/ /\ Regroups(conf, req[p])
          /\ next' = [next EXCEPT ![p] = Regrouped(conf, req[p])]
          /\ Goto(p, "backup")
          /\ UNCHANGED <<disk, req, page, history>>

(***************************************************************************)
(* Writing.                                                                *)
(***************************************************************************)

\* Variant of the next definition: no backup is made.
BackupSkipped(p) ==
    /\ pc[p] = "backup"
    /\ whole' = conf /\ bare' = FALSE
    /\ Goto(p, "truncate")
    /\ UNCHANGED <<disk, req, page, next, spoilt, known>>

\* The current text is copied to sites.conf.bak.
Backup(p) ==
    /\ pc[p] = "backup"
    /\ bak' = conf
    /\ whole' = conf /\ bare' = FALSE
    /\ Goto(p, "truncate")
    /\ UNCHANGED <<conf, man, req, page, next, spoilt, known>>

\* The copy fails.  The raw editor then refuses to save; the others do not
\* look, and save all the same.
BackupFails(p) ==
    /\ Faults /\ pc[p] = "backup"
    /\ bak' \in {bak} \cup Cut(conf)
    /\ whole' = conf /\ bare' = FALSE
    /\ \/ /\ req[p].op = "conf"
          /\ Stop(p)
       \/ /\ req[p].op # "conf"
          /\ Goto(p, "unbacked")
          /\ UNCHANGED <<req, page, next>>
    /\ UNCHANGED <<conf, man, spoilt, known>>

Truncate(p) ==
    /\ pc[p] \in {"truncate", "unbacked"}
    /\ conf' = <<>>
    /\ bare' = (bare \/ pc[p] = "unbacked")
    /\ Goto(p, "fill")
    /\ UNCHANGED <<bak, man, req, page, next, whole, spoilt, known>>

\* edit-site goes on to add the site under its new name, and has saved when
\* that is done.
Fill(p) ==
    /\ pc[p] = "fill"
    /\ conf' \in Overlaid(next[p], conf)
    /\ spoilt' = (spoilt \/ conf # <<>>)
    /\ \/ /\ req[p].op = "edit"
          /\ req' = [req EXCEPT ![p].op = "readd"]
          /\ Goto(p, "append")
          /\ UNCHANGED <<page, next, whole, bare>>
       \/ /\ req[p].op # "edit"
          /\ whole' = next[p] /\ bare' = FALSE
          /\ Stop(p)
    /\ UNCHANGED <<bak, man, known>>

\* sites.conf cannot be opened, or the text cannot be written to its end.
WriteFails(p) ==
    /\ Faults
    /\ \/ /\ pc[p] \in {"truncate", "unbacked"}
          /\ UNCHANGED <<conf, spoilt>>
       \/ /\ pc[p] = "fill"
          /\ conf' \in UNION {Overlaid(t, conf) : t \in Cut(next[p])}
          /\ spoilt' = TRUE
    /\ \/ /\ req[p].op = "manualize"
          /\ Goto(p, "undo")
          /\ UNCHANGED <<req, page, next>>
       \/ /\ req[p].op # "manualize"
          /\ Stop(p)
    /\ UNCHANGED <<bak, man, whole, bare, known>>

(***************************************************************************)
(* Faults.                                                                 *)
(***************************************************************************)

\* A streamed command is killed when its browser goes away or it takes too
\* long; the web server's own handlers run to the end.
Kill(p) ==
    /\ Faults /\ pc[p] # "idle" /\ req[p].op \in Streamed
    /\ Stop(p)
    /\ UNCHANGED <<disk, history>>

\* The host goes down and comes back.
Reboot ==
    /\ Faults
    /\ \E p \in Procs : pc[p] # "idle"
    /\ pc' = [p \in Procs |-> "idle"]
    /\ req' = [p \in Procs |-> NoRequest]
    /\ page' = [p \in Procs |-> <<>>]
    /\ next' = [p \in Procs |-> <<>>]
    /\ UNCHANGED <<disk, history>>

Begins(p) ==
    \/ \E f \in Fqdn : BeginManualize(p, f)
    \/ \E f, g \in Fqdn, port \in BOOLEAN : BeginEdit(p, f, g, port)
    \/ \E g \in Fqdn, port \in BOOLEAN : BeginAdd(p, g, port)
    \/ LoadPage(p)

Submits(p) ==
    \/ \E t \in Submissions : SubmitConf(p, t)
    \/ \E op \in {"group", "rename", "delete", "newgroup"}, b \in 1 .. MaxBlocks, d \in Domains,
          machine \in BOOLEAN : SubmitGroup(p, op, b, d, machine)

Work(p) ==
    \/ Stat(p) \/ PutMan(p) \/ ParseIndex(p) \/ RemoveLine(p) \/ Undo(p)
    \/ AppendLine(p) \/ Regroup(p) \/ Backup(p) \/ Truncate(p) \/ Fill(p)

Fault(p) == PutManFails(p) \/ BackupFails(p) \/ WriteFails(p) \/ Kill(p)

Next ==
    \/ \E p \in Procs : Begins(p)
    \/ /\ \/ \E p \in Procs : Submits(p) \/ Work(p) \/ Fault(p)
          \/ Reboot
       /\ UNCHANGED begun

Spec == Init /\ [][Next]_vars

(***************************************************************************)
(* Properties.                                                             *)
(***************************************************************************)

\* sites.conf parses, at every moment and whatever the web server's editors
\* interleave, until a write is laid over another one or fails: a torn file is
\* an empty table, and each text was parsed before it was written, although
\* the file may have changed in between.  (Without add and edit-site, which do
\* not parse what they write.)
ParsesAlways == ~spoilt => Parses(conf)

\* Editors moving different sites to manconf/ at the same time, beside saves
\* that keep a group's domain, lose no site as long as no two of their writes
\* overlap: a move that read a torn file, or a table it then finds changed,
\* takes its manual file away only when its site is back in, or still in, the
\* table.  (groups.go promises the same of a group operation: it "preserves
\* every other group's exact text untouched".)
NoSiteLost == Quiescent /\ ~spoilt => known \subseteq Fqdns(conf) \cup man

\* When a lone editor's save is interrupted at any moment, or its write of
\* sites.conf fails, the text it found or the text it wrote is still there, in
\* sites.conf or in its backup, although edit-site saves twice and backs up
\* once; except when the file was truncated without a backup, because that
\* failed or because add makes none.
Recoverable == Quiescent /\ ~bare => whole \in {conf, bak}

\* A lone editor implements the registry: a save changes the table by one
\* site, by one group's domain or as the submitted text says; a site leaves it
\* for manconf/ in one step; only a save that is interrupted or fails loses
\* sites, and what it loses is not replaced by something else; and only a move
\* whose save failed takes its manual file back.  The table changes where the
\* file is truncated; until it is filled the new text stands for it.
Torn == {p \in Procs : pc[p] = "fill"}
Table == IF Torn = {} THEN Fqdns(conf) ELSE Fqdns(next[CHOOSE p \in Torn : TRUE])
Phase ==
    IF Torn # {} THEN "saving"
    ELSE IF \E p \in Procs : pc[p] = "undo" /\ req[p].site \notin Table THEN "failed"
    ELSE "rest"
Saves == {Fqdns(t) : t \in {u \in Submissions : Parses(u)}}
Registry == INSTANCE SiteRegistry WITH Name <- Names, Domain <- Domains, table <- Table,
                                       manual <- man \ Table, phase <- Phase
ImplementsRegistry == Registry!Spec
=============================================================================
