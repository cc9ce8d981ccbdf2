----------------------------- MODULE MCConfText -----------------------------
\* Instances of ConfText for TLC.
EXTENDS ConfText

CONSTANT MaxLen

MCLines == {Blank, Note("x"), Note(""), Site("a"),
            Header(Group(<<"d">>, "default", ""), TRUE), Header(Group(<<"e">>, "set", "c"), FALSE),
            Header(Group(<<"e">>, "default", "c"), FALSE)}

\* Every text of at most MaxLen of these lines, and every one that begins with
\* a header, two lines longer, of blank lines, labels, sites and one other header.
MCTexts == UNION {[1 .. n -> MCLines] : n \in 0 .. MaxLen}
MCHeaded ==
    LET h == Header(Group(<<"d">>, "default", ""), TRUE)
        others == {Blank, Note("x"), Site("a"), Header(Group(<<"e">>, "set", "c"), FALSE)}
    IN MCTexts \cup {<<h>> \o t : t \in [1 .. MaxLen + 1 -> others]}
=============================================================================
