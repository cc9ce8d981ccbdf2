------------------------------- MODULE ConfText -------------------------------
(***************************************************************************)
(* The text of sites.conf as groups.go and sites.go read and write it.     *)
(* Every edit of a group, and every removal of a site, splits the whole    *)
(* text into a preamble and blocks (readConfBlocks), changes one block and *)
(* renders everything again (writeConfBlocks); parseSites reads the same   *)
(* text by a loop of its own.  SitesConf has who writes when; this module  *)
(* has what the text looks like afterwards.                                *)
(*                                                                         *)
(* Abstracted: the text is the sequence of its lines, as strings.Split     *)
(* returns them (a text that ends with a newline ends with a blank line);  *)
(* a line is blank, a comment, a site or a header.  A header line is what  *)
(* parseGroupHeader makes of it, and whether it ends with a comment.       *)
(***************************************************************************)
EXTENDS Integers, Sequences, SequencesExt, FiniteSetsExt

CONSTANTS
    Words,     \* names, parts of domains, labels and certificates; "" for none
    Texts,     \* the initial texts
    Names,     \* the names of site lines
    Domains,   \* the domains the group form may be filled with
    Labels,    \* the labels it may be filled with, "" for none
    Certs,     \* the group certificates, "" for none
    MaxBlocks  \* bound on the groups added

VARIABLES
    text,   \* sites.conf
    edit    \* history: the last edit, and the block it was made to

vars == <<text, edit>>

Blank == [kind |-> "blank"]
Note(c) == [kind |-> "note", text |-> c]
Site(n) == [kind |-> "site", name |-> n]

\* dom is the sequence of words that stand before the [machine] and <flags>.
Group(dom, flags, cert) == [dom |-> dom, flags |-> flags, cert |-> cert]
Header(g, remark) == [kind |-> "head", group |-> g, remark |-> remark]

Groups == [dom : Seq(Words), flags : {"default", "set"}, cert : Words]
Line ==
    {Blank} \cup [kind : {"note"}, text : Words] \cup [kind : {"site"}, name : Words]
        \cup [kind : {"head"}, group : Groups, remark : BOOLEAN]

ASSUME TextsAssumption == Texts \subseteq Seq(Line)
ASSUME WordsAssumption == "" \in Words /\ Names \cup Domains \cup Labels \cup Certs \subseteq Words

IsNote(t, i) == t[i].kind = "note"
IsHead(t, i) == t[i].kind = "head"

\* renderGroupHeader leaves out default flags, and parseGroupHeader looks for
\* the certificate only behind a <...>: without one it is read as a part of
\* the domain.
RenderHead(g) ==
    IF g.flags = "default" /\ g.cert # ""
    THEN Header(Group(Append(g.dom, g.cert), "default", ""), FALSE)
    ELSE Header(g, FALSE)

(***************************************************************************)
(* readConfBlocks and writeConfBlocks.                                     *)
(***************************************************************************)

\* The elements of S, in increasing order.
InOrder(S) ==
    CHOOSE p \in [1 .. Cardinality(S) -> S] : \A j, k \in DOMAIN p : j < k => p[j] < p[k]

HeadsOf(t) == InOrder({i \in DOMAIN t : IsHead(t, i)})

\* pendingComment when scanUpToHeader, begun at line a, reaches line h: the
\* comment directly above.
Pending(t, a, h) == IF h > a /\ IsNote(t, h - 1) THEN t[h - 1].text ELSE ""

\* The first of the comment lines directly above line h.
RunStart(t, a, h) == Min({j \in a .. h : \A k \in j .. h - 1 : IsNote(t, k)})

\* Variant of the next definition: the label is left in the block above.
ScanKeepingLabel(t, a, h) == SubSeq(t, a, h - 1)

\* Variant of the next definition: the line above the label is taken too.
ScanOneShort(t, a, h) ==
    SubSeq(t, a, IF Pending(t, a, h) # "" THEN RunStart(t, a, h) - 2 ELSE h - 1)

\* The lines from a up to line h that scanUpToHeader returns: without the run
\* of comments that ends in the label.
Scan(t, a, h) ==
    SubSeq(t, a, IF Pending(t, a, h) # "" THEN RunStart(t, a, h) - 1 ELSE h - 1)

Preamble(t) == LET hs == HeadsOf(t) IN IF hs = <<>> THEN t ELSE Scan(t, 1, hs[1])

Blocks(t) ==
    LET hs == HeadsOf(t)
        end(k) == IF k = Len(hs) THEN Len(t) + 1 ELSE hs[k + 1]
    IN [k \in DOMAIN hs |->
          [label |-> Pending(t, IF k = 1 THEN 1 ELSE hs[k - 1] + 1, hs[k]),
           group |-> t[hs[k]].group,
           body  |-> Scan(t, hs[k] + 1, end(k))]]

SiteCount(b) == Cardinality({i \in DOMAIN b.body : b.body[i].kind = "site"})

TrimTrailingBlank(lines) ==
    SubSeq(lines, 1, Max({0} \cup {i \in DOMAIN lines : lines[i] # Blank}))

\* The preamble is written with one newline at its end.
Terminated(pre) ==
    IF pre \in {<<>>, <<Blank>>} THEN <<>>
    ELSE IF Last(pre) = Blank THEN Front(pre) ELSE pre

RenderBlock(b) ==
    <<Blank>> \o (IF b.label # "" THEN <<Note(b.label)>> ELSE <<>>)
              \o <<RenderHead(b.group)>> \o TrimTrailingBlank(b.body)

Write(pre, blocks) ==
    Terminated(pre) \o FlattenSeq([k \in DOMAIN blocks |-> RenderBlock(blocks[k])]) \o <<Blank>>

(***************************************************************************)
(* parseSites: the groups it finds, each with its sites.                   *)
(***************************************************************************)

\* A site line before the first header is an error.
Parses(t) == \A i \in DOMAIN t : t[i].kind = "site" => \E h \in 1 .. i : IsHead(t, h)

\* The site lines among these lines, in order.
SitesOf(lines) ==
    LET at == InOrder({i \in DOMAIN lines : lines[i].kind = "site"})
    IN [k \in DOMAIN at |-> lines[at[k]]]

\* The sites of the k-th group, with what its header says of them.
ParsedGroup(t, k) ==
    LET hs == HeadsOf(t)
        end == IF k = Len(hs) THEN Len(t) ELSE hs[k + 1] - 1
    IN [group |-> t[hs[k]].group,
        sites |-> SitesOf(SubSeq(t, hs[k] + 1, end))]

(***************************************************************************)
(* The edits, each as one step.                                            *)
(***************************************************************************)

Init ==
    /\ text \in {t \in Texts : Parses(t)}
    /\ edit = [op |-> "none", at |-> 0]

Put(op, i, blocks) ==
    /\ text' = Write(Preamble(text), blocks)
    /\ edit' = [op |-> op, at |-> i]

SaveGroup(i, g, label) ==
    /\ i \in DOMAIN Blocks(text)
    /\ Put("save", i, [Blocks(text) EXCEPT ![i].group = g, ![i].label = label])

AddGroup(g, label) ==
    LET blocks == Blocks(text) IN
    /\ Len(blocks) < MaxBlocks
    /\ \A k \in DOMAIN blocks : blocks[k].group.dom # g.dom \/ blocks[k].group.flags # g.flags
    /\ Put("add", Len(blocks) + 1, Append(blocks, [label |-> label, group |-> g, body |-> <<>>]))

DeleteGroup(i) ==
    LET blocks == Blocks(text) IN
    /\ i \in DOMAIN blocks /\ SiteCount(blocks[i]) = 0
    /\ Put("delete", i, RemoveAt(blocks, i))

\* removeSiteLine: the first line of that name in the block.
RemoveSite(i, n) ==
    LET blocks == Blocks(text) IN
    /\ i \in DOMAIN blocks
    /\ LET at == {j \in DOMAIN blocks[i].body : blocks[i].body[j] = Site(n)} IN
        /\ at # {}
        /\ Put("remove", i, [blocks EXCEPT ![i].body = RemoveAt(@, Min(at))])

Form == {Group(<<d>>, f, c) : d \in Domains, f \in {"default", "set"}, c \in Certs}

Next ==
    \/ \E i \in 1 .. MaxBlocks, g \in Form, label \in Labels : SaveGroup(i, g, label)
    \/ \E g \in Form, label \in Labels : AddGroup(g, label)
    \/ \E i \in 1 .. MaxBlocks : DeleteGroup(i)
    \/ \E i \in 1 .. MaxBlocks, n \in Names : RemoveSite(i, n)

Spec == Init /\ [][Next]_vars

(***************************************************************************)
(* Properties.                                                             *)
(***************************************************************************)

\* Once written by revpro the text is stable: reading it and writing it back
\* unedited changes nothing, so that edits do not pile up blank lines, copies
\* of labels or certificates, however many come one after the other.
Stable == edit.op # "none" => Write(Preamble(text), Blocks(text)) = text

\* What there is to keep of the k-th group: what parseSites reads of it, and the
\* label and the lines readConfBlocks gives it.
Content(t, k) ==
    LET b == Blocks(t)[k]
    IN [parsed |-> ParsedGroup(t, k), label |-> b.label, lines |-> TrimTrailingBlank(b.body)]

\* All that may be lost is a certificate behind default flags, which renders as
\* a part of the domain (HeaderSticks).
Same(now, before) ==
    LET g == before.parsed.group IN
    /\ now.label = before.label /\ now.lines = before.lines
    /\ now.parsed.sites = before.parsed.sites
    /\ (g.flags = "default" => g.cert = "") => now.parsed.group = g

\* groups.go 3-4: an edit of one group keeps all the others: their lines, their
\* labels, and to parseSites their sites and headers, in order, although they
\* were cut out of the text and rendered again by code that reads it differently.
OthersKept ==
    [][LET i == edit'.at
           n == Len(HeadsOf(text))
           to(k) == IF edit'.op = "delete" /\ k > i THEN k - 1 ELSE k
       IN /\ Len(HeadsOf(text')) = CASE edit'.op = "add" -> n + 1
                                     [] edit'.op = "delete" -> n - 1
                                     [] OTHER -> n
          /\ \A k \in 1 .. n : k # i => Same(Content(text', to(k)), Content(text, k))]_vars

\* groups.go, renderGroupHeader: it renders "==domain [machine] <flags>
\* --cert=name", omitting default parts: a group that has been saved or added
\* is found again with a domain of one word, the one the form was filled with.
HeaderSticks ==
    edit.op \in {"save", "add"} => Len(Blocks(text)[edit.at].group.dom) = 1
=============================================================================
