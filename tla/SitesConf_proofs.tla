--------------------------- MODULE SitesConf_proofs ---------------------------
(***************************************************************************)
(* Proofs about the editors of sites.conf, for any number of sites, groups *)
(* and initial texts:                                                      *)
(*   - any number of editors keep the types (TypeCorrect);                 *)
(*   - without add and edit-site, any number of editors leave a text that  *)
(*     parses, until two writes overlap or one fails (AlwaysParses);       *)
(*   - a lone editor, whatever it does, wherever it is cut off and         *)
(*     whichever of its writes fails, implements the registry              *)
(*     (LoneEditorImplements) and leaves what it found or what it wrote    *)
(*     (LoneEditorRecoverable);                                            *)
(*   - any number of editors moving their own sites and saving groups lose *)
(*     no site, until two writes overlap (MovesLoseNoSite).                *)
(***************************************************************************)
EXTENDS SitesConf, SequenceTheorems, WellFoundedInduction, TLAPS

(***************************************************************************)
(* What the operators on texts do.                                         *)
(***************************************************************************)

\* A set of natural numbers that is not empty has a least element.
LEMMA Least ==
    ASSUME NEW S \in SUBSET Nat, S # {}
    PROVE  \E n \in S : \A m \in S : n <= m
<1> DEFINE R == OpToRel(<, Nat)
<1>1. IsWellFoundedOn(R, Nat)
  BY NatLessThanWellFounded
<1> HIDE DEF R
<1>2. PICK n \in S : \A m \in S : ~(<<m, n>> \in R)
  BY <1>1, WFMin
<1>3. ASSUME NEW m \in S PROVE ~(m < n)
  BY <1>2 DEF R, OpToRel
<1>4. QED
  BY <1>3

\* What is left of a sequence when its i-th element is removed.
LEMMA RemoveAtProperties ==
    ASSUME NEW S, NEW s \in Seq(S), NEW i \in 1 .. Len(s)
    PROVE  /\ RemoveAt(s, i) \in Seq(S)
           /\ Len(RemoveAt(s, i)) = Len(s) - 1
           /\ \A j \in 1 .. Len(s) - 1 : RemoveAt(s, i)[j] = IF j < i THEN s[j] ELSE s[j + 1]
<1> DEFINE a == SubSeq(s, 1, i - 1)
           c == SubSeq(s, i + 1, Len(s))
<1>0. Len(s) \in Nat /\ \A j \in 1 .. Len(s) : s[j] \in S
  OBVIOUS
<1>1. a \in Seq(S) /\ Len(a) = i - 1 /\ \A j \in 1 .. i - 1 : a[j] = s[j]
  <2>1. \A j \in 1 .. i - 1 : s[j] \in S
    BY <1>0
  <2>2. QED
    BY <1>0, <2>1, SubSeqProperties
<1>2. c \in Seq(S) /\ Len(c) = Len(s) - i /\ \A j \in 1 .. Len(s) - i : c[j] = s[i + j]
  <2>1. \A j \in i + 1 .. Len(s) : s[j] \in S
    BY <1>0
  <2>2. QED
    BY <1>0, <2>1, SubSeqProperties
<1>3. RemoveAt(s, i) = a \o c
  BY DEF RemoveAt
<1> HIDE DEF a, c
<1>4. /\ a \o c \in Seq(S) /\ Len(a \o c) = Len(s) - 1
      /\ \A j \in 1 .. Len(s) - 1 : (a \o c)[j] = IF j <= i - 1 THEN a[j] ELSE c[j - (i - 1)]
  <2>1. /\ a \o c \in Seq(S) /\ Len(a \o c) = Len(a) + Len(c)
        /\ \A j \in 1 .. Len(a) + Len(c) :
               (a \o c)[j] = IF j <= Len(a) THEN a[j] ELSE c[j - Len(a)]
    BY <1>1, <1>2, ConcatProperties
  <2>2. Len(a) + Len(c) = Len(s) - 1
    BY <1>0, <1>1, <1>2
  <2>3. QED
    BY <1>1, <2>1, <2>2
<1>5. ASSUME NEW j \in 1 .. Len(s) - 1
      PROVE  (a \o c)[j] = IF j < i THEN s[j] ELSE s[j + 1]
  <2>1. CASE j < i
    BY <1>0, <1>1, <1>4, <2>1
  <2>2. CASE ~(j < i)
    <3>1. j - (i - 1) \in 1 .. Len(s) - i /\ i + (j - (i - 1)) = j + 1 /\ ~(j <= i - 1)
      BY <1>0, <2>2
    <3>2. QED
      BY <1>2, <1>4, <2>2, <3>1
  <2>3. QED
    BY <2>1, <2>2
<1>6. QED
  BY <1>3, <1>4, <1>5

\* The first line of a name is a line of that name.
LEMMA LineOfProperties ==
    ASSUME NEW block \in Block, NEW name
    PROVE  LET at == {j \in DOMAIN block.lines : block.lines[j].name = name}
           IN  IF at = {} THEN LineOf(block, name) = 0 ELSE LineOf(block, name) \in at
<1> DEFINE at == {j \in DOMAIN block.lines : block.lines[j].name = name}
<1>1. block.lines \in Seq(Line)
  BY DEF Block
<1>2. at \in SUBSET Nat
  BY <1>1
<1>3. CASE at = {}
  BY <1>3 DEF LineOf
<1>4. CASE at # {}
  <2>1. \E j \in at : \A k \in at : j <= k
    BY <1>2, <1>4, Least
  <2>2. (CHOOSE j \in at : \A k \in at : j <= k) \in at
    BY <2>1
  <2>3. QED
    BY <1>4, <2>2 DEF LineOf
<1>5. QED
  BY <1>3, <1>4

\* A torn file has no site.
LEMMA EmptyFqdns == Fqdns(<<>>) = {}
BY DEF Fqdns

Named(block, n) == \E j \in DOMAIN block.lines : block.lines[j].name = n

\* A text has a site when a group of its domain has a line of its name.
LEMMA FqdnsNamed ==
    ASSUME NEW t, NEW f
    PROVE  f \in Fqdns(t) <=>
               f \in Fqdn /\ \E b \in DOMAIN t : t[b].dom = f[2] /\ Named(t[b], f[1])
BY DEF Fqdns, Holds, Named

\* What the blocks of a text consist of.
LEMMA BlockParts ==
    ASSUME NEW t \in Seq(Block), NEW b \in DOMAIN t
    PROVE  /\ t[b] \in Block /\ t[b].dom \in Domains /\ t[b].machine \in BOOLEAN
           /\ t[b].lines \in Seq(Line) /\ Len(t[b].lines) \in Nat
           /\ DOMAIN t[b].lines = 1 .. Len(t[b].lines)
           /\ \A j \in DOMAIN t[b].lines : t[b].lines[j] \in Line
<1>1. t[b] \in Block
  OBVIOUS
<1>2. t[b].dom \in Domains /\ t[b].machine \in BOOLEAN /\ t[b].lines \in Seq(Line)
  BY <1>1 DEF Block
<1>3. Len(t[b].lines) \in Nat /\ DOMAIN t[b].lines = 1 .. Len(t[b].lines)
  BY <1>2
<1>4. ASSUME NEW j \in DOMAIN t[b].lines
      PROVE  t[b].lines[j] \in Line
  BY <1>2
<1>5. QED
  BY <1>1, <1>2, <1>3, <1>4

\* Block b of a text is given other lines.
Relined(t, b, lines) == [t EXCEPT ![b].lines = lines]

\* A text with the lines of one block replaced.
LEMMA LinesReplaced ==
    ASSUME NEW t \in Seq(Block), NEW b \in DOMAIN t, NEW r \in Seq(Line)
    PROVE  LET u == Relined(t, b, r)
           IN  /\ u \in Seq(Block)
               /\ DOMAIN u = DOMAIN t /\ \A c \in DOMAIN t : u[c].dom = t[c].dom
               /\ u[b].lines = r
               /\ \A c \in DOMAIN t : c # b => u[c] = t[c]
<1> DEFINE e == [t[b] EXCEPT !.lines = r]
           u == [t EXCEPT ![b] = e]
<1>1. t[b] \in Block
  OBVIOUS
<1>2. e \in Block /\ e.dom = t[b].dom /\ e.lines = r
  BY <1>1 DEF Block
<1> HIDE DEF e
<1>3. /\ u \in Seq(Block) /\ DOMAIN u = DOMAIN t
      /\ \A c \in DOMAIN t : u[c] = IF c = b THEN e ELSE t[c]
  BY <1>2, ExceptSeq
<1>4. Relined(t, b, r) = u
  BY DEF e, Relined
<1> HIDE DEF u
<1>5. QED
  BY <1>2, <1>3, <1>4

\* Taking a line from a block takes at most the site it names.
LEMMA LineRemoved ==
    ASSUME NEW t \in Seq(Block), NEW b \in DOMAIN t, NEW j \in DOMAIN t[b].lines,
           NEW n \in Names, t[b].lines[j].name = n, NEW r, r = RemoveAt(t[b].lines, j)
    PROVE  LET u == Relined(t, b, r)
               f == <<n, t[b].dom>>
           IN  /\ u \in Seq(Block)
               /\ DOMAIN u = DOMAIN t /\ \A c \in DOMAIN t : u[c].dom = t[c].dom
               /\ f \in Fqdns(t)
               /\ Fqdns(u) \subseteq Fqdns(t) /\ Fqdns(t) \subseteq Fqdns(u) \cup {f}
<1> DEFINE l == t[b].lines
           u == Relined(t, b, r)
           f == <<n, t[b].dom>>
<1>1. /\ t[b] \in Block /\ l \in Seq(Line) /\ j \in 1 .. Len(l) /\ Len(l) \in Nat
      /\ DOMAIN l = 1 .. Len(l)
  BY BlockParts
<1>2. /\ r \in Seq(Line) /\ Len(r) = Len(l) - 1 /\ DOMAIN r = 1 .. Len(l) - 1
      /\ \A i \in 1 .. Len(l) - 1 : r[i] = IF i < j THEN l[i] ELSE l[i + 1]
  <2>1. /\ r \in Seq(Line) /\ Len(r) = Len(l) - 1
        /\ \A i \in 1 .. Len(l) - 1 : r[i] = IF i < j THEN l[i] ELSE l[i + 1]
    BY <1>1, RemoveAtProperties
  <2>2. QED
    BY <2>1
<1>3. /\ u \in Seq(Block) /\ DOMAIN u = DOMAIN t /\ \A c \in DOMAIN t : u[c].dom = t[c].dom
      /\ u[b].lines = r /\ \A c \in DOMAIN t : c # b => u[c] = t[c]
  BY <1>2, LinesReplaced
<1> HIDE DEF u
<1>4. l[j] \in Line /\ n \in Names /\ t[b].dom \in Domains
  BY BlockParts
<1>5. f \in Fqdns(t)
  <2>1. f \in Fqdn /\ f[1] = n /\ f[2] = t[b].dom
    BY <1>4 DEF Fqdn
  <2> HIDE DEF f
  <2>2. QED
    BY <2>1, FqdnsNamed DEF Named
<1>6. ASSUME NEW m, Named(u[b], m) PROVE Named(t[b], m)
  <2>1. PICK i \in 1 .. Len(l) - 1 : r[i].name = m
    BY <1>2, <1>3, <1>6 DEF Named
  <2>2. \E k \in 1 .. Len(l) : l[k] = r[i]
    BY <1>1, <1>2
  <2>3. QED
    BY <1>1, <2>1, <2>2 DEF Named
<1>7. ASSUME NEW m, Named(t[b], m), m # n PROVE Named(u[b], m)
  <2>1. PICK i \in 1 .. Len(l) : l[i].name = m
    BY <1>1, <1>7 DEF Named
  <2>2. \E k \in 1 .. Len(l) - 1 : r[k] = l[i]
    <3>1. CASE i < j
      BY <1>1, <1>2, <3>1
    <3>2. CASE j < i
      <4>1. i - 1 \in 1 .. Len(l) - 1 /\ ~(i - 1 < j) /\ (i - 1) + 1 = i
        BY <1>1, <3>2
      <4>2. r[i - 1] = l[i]
        BY <1>2, <4>1
      <4>3. QED
        BY <4>1, <4>2
    <3>3. QED
      BY <1>1, <1>7, <2>1, <3>1, <3>2
  <2>3. QED
    BY <1>2, <1>3, <2>1, <2>2 DEF Named
<1>8. Fqdns(u) \subseteq Fqdns(t)
  BY <1>3, <1>6, FqdnsNamed
<1>9. ASSUME NEW g \in Fqdns(t), g # f PROVE g \in Fqdns(u)
  <2>1. PICK c \in DOMAIN t : t[c].dom = g[2] /\ Named(t[c], g[1])
    BY <1>9, FqdnsNamed
  <2>2. g \in Fqdn
    BY <1>9, FqdnsNamed
  <2>3. CASE c = b /\ g[1] = n
    BY <1>9, <2>1, <2>2, <2>3 DEF Fqdn
  <2>4. CASE c # b \/ g[1] # n
    BY <1>3, <1>7, <2>1, <2>2, <2>4, FqdnsNamed
  <2>5. QED
    BY <2>3, <2>4
<1>10. QED
  BY <1>3, <1>5, <1>8, <1>9 DEF u

\* Putting a line on top of a sequence of lines.
LEMMA PrependedNames ==
    ASSUME NEW l \in Seq(Line), NEW line \in Line
    PROVE  /\ <<line>> \o l \in Seq(Line)
           /\ \A block, top : block.lines = l /\ top.lines = <<line>> \o l =>
                  \A m : Named(top, m) <=> Named(block, m) \/ m = line.name
<1> DEFINE r == <<line>> \o l
<1>1. <<line>> \in Seq(Line) /\ Len(<<line>>) = 1 /\ <<line>>[1] = line
  OBVIOUS
<1>2. /\ r \in Seq(Line) /\ Len(r) = 1 + Len(l)
      /\ \A i \in 1 .. 1 + Len(l) : r[i] = IF i <= 1 THEN <<line>>[i] ELSE l[i - 1]
  BY <1>1, ConcatProperties
<1> HIDE DEF r
<1>3. Len(l) \in Nat /\ DOMAIN l = 1 .. Len(l) /\ DOMAIN r = 1 .. 1 + Len(l)
  BY <1>2
<1>4. 1 \in DOMAIN r /\ r[1] = line
  BY <1>1, <1>2, <1>3
<1>5. ASSUME NEW i \in DOMAIN l PROVE i + 1 \in DOMAIN r /\ r[i + 1] = l[i]
  BY <1>2, <1>3
<1>6. ASSUME NEW i \in DOMAIN r, i # 1 PROVE i - 1 \in DOMAIN l /\ r[i] = l[i - 1]
  BY <1>2, <1>3, <1>6
<1>7. ASSUME NEW block, NEW top, block.lines = l, top.lines = r, NEW m
      PROVE  Named(top, m) <=> Named(block, m) \/ m = line.name
  BY <1>4, <1>5, <1>6, <1>7 DEF Named
<1>8. QED
  BY <1>2, <1>7 DEF r

\* Appending a group adds the sites of its lines.
LEMMA BlockAppended ==
    ASSUME NEW t \in Seq(Block), NEW block \in Block
    PROVE  /\ Append(t, block) \in Seq(Block)
           /\ Fqdns(Append(t, block)) =
                  Fqdns(t) \cup {f \in Fqdn : f[2] = block.dom /\ Named(block, f[1])}
<1> DEFINE u == Append(t, block)
<1>1. /\ u \in Seq(Block) /\ Len(u) = Len(t) + 1 /\ u[Len(t) + 1] = block
      /\ \A i \in 1 .. Len(t) : u[i] = t[i]
  BY AppendProperties
<1>2. Len(t) \in Nat /\ DOMAIN t = 1 .. Len(t) /\ DOMAIN u = 1 .. Len(t) + 1
  BY <1>1
<1> HIDE DEF u
<1>3. DOMAIN u = DOMAIN t \cup {Len(t) + 1}
  BY <1>2
<1>4. ASSUME NEW f \in Fqdn
      PROVE  f \in Fqdns(u) <=> f \in Fqdns(t) \/ (f[2] = block.dom /\ Named(block, f[1]))
  BY <1>1, <1>2, <1>3, FqdnsNamed
<1>5. \A x : Fqdns(x) \subseteq Fqdn
  BY DEF Fqdns
<1>6. Fqdns(u) = Fqdns(t) \cup {f \in Fqdn : f[2] = block.dom /\ Named(block, f[1])}
  BY <1>4, <1>5
<1>7. QED
  BY <1>1, <1>6 DEF u

\* Deleting a group without sites takes no site.
LEMMA BlockDeleted ==
    ASSUME NEW t \in Seq(Block), NEW b \in DOMAIN t, t[b].lines = <<>>
    PROVE  RemoveAt(t, b) \in Seq(Block) /\ Fqdns(RemoveAt(t, b)) = Fqdns(t)
<1> DEFINE u == RemoveAt(t, b)
<1>1. Len(t) \in Nat /\ DOMAIN t = 1 .. Len(t)
  OBVIOUS
<1>2. /\ u \in Seq(Block) /\ Len(u) = Len(t) - 1
      /\ \A i \in 1 .. Len(t) - 1 : u[i] = IF i < b THEN t[i] ELSE t[i + 1]
  BY <1>1, RemoveAtProperties
<1> HIDE DEF u
<1>3. DOMAIN u = 1 .. Len(t) - 1
  BY <1>2
<1>4. \A m : ~Named(t[b], m)
  BY DEF Named
<1>5. ASSUME NEW i \in DOMAIN u PROVE \E c \in DOMAIN t : t[c] = u[i]
  <2>1. i \in 1 .. Len(t) - 1 /\ i \in 1 .. Len(t) /\ i + 1 \in 1 .. Len(t)
    BY <1>1, <1>3
  <2>2. u[i] = t[i] \/ u[i] = t[i + 1]
    BY <1>2, <2>1
  <2>3. QED
    BY <1>1, <2>1, <2>2
<1>6. ASSUME NEW c \in DOMAIN t, c # b PROVE \E i \in DOMAIN u : u[i] = t[c]
  <2>1. CASE c < b
    BY <1>1, <1>2, <1>3, <2>1
  <2>2. CASE b < c
    <3>1. c - 1 \in 1 .. Len(t) - 1 /\ ~(c - 1 < b) /\ (c - 1) + 1 = c
      BY <1>1, <2>2
    <3>2. QED
      BY <1>2, <1>3, <3>1
  <2>3. QED
    BY <1>1, <1>6, <2>1, <2>2
<1>7. ASSUME NEW f PROVE f \in Fqdns(u) <=> f \in Fqdns(t)
  BY <1>4, <1>5, <1>6, FqdnsNamed
<1>8. QED
  BY <1>2, <1>7 DEF u

\* Block b of a text gets another header.
Headed(t, b, dom, machine) == [t EXCEPT ![b].dom = dom, ![b].machine = machine]

\* The table T is the table S once names of domain d have domain e, some of
\* them instead of d.
Renamed(S, T, d, e) ==
    \E ns, gone \in SUBSET Names :
        /\ ns \X {d} \subseteq S /\ gone \subseteq ns
        /\ T = (S \ (gone \X {d})) \cup (ns \X {e})

\* A group that keeps its domain keeps its sites; one that gets another takes
\* its sites there.
LEMMA BlockHeaded ==
    ASSUME NEW t \in Seq(Block), NEW b \in DOMAIN t, NEW d \in Domains, NEW m \in BOOLEAN
    PROVE  LET u == Headed(t, b, d, m)
           IN  /\ u \in Seq(Block) /\ DOMAIN u = DOMAIN t
               /\ d = t[b].dom => /\ \A c \in DOMAIN t : u[c].dom = t[c].dom
                                  /\ Fqdns(u) = Fqdns(t)
               /\ Renamed(Fqdns(t), Fqdns(u), t[b].dom, d)
<1> DEFINE e == [t[b] EXCEPT !.dom = d, !.machine = m]
           w == [t EXCEPT ![b] = e]
           u == Headed(t, b, d, m)
<1>1. t[b] \in Block
  BY BlockParts
<1>2. e \in Block /\ e.dom = d /\ e.lines = t[b].lines
  BY <1>1 DEF Block
<1>3. u = w
  BY DEF Headed
<1> HIDE DEF e, u
<1>4. /\ w \in Seq(Block) /\ DOMAIN w = DOMAIN t
      /\ \A c \in DOMAIN t : w[c] = IF c = b THEN e ELSE t[c]
  BY <1>2, ExceptSeq
<1> HIDE DEF w
<1>5. ASSUME d = t[b].dom
      PROVE  (\A c \in DOMAIN t : w[c].dom = t[c].dom) /\ Fqdns(w) = Fqdns(t)
  <2>1. \A c \in DOMAIN t : w[c].dom = t[c].dom
    BY <1>2, <1>4, <1>5
  <2>2. \A c \in DOMAIN t : w[c].lines = t[c].lines
    BY <1>2, <1>4
  <2>3. \A c \in DOMAIN t : \A n : Named(w[c], n) <=> Named(t[c], n)
    BY <2>2 DEF Named
  <2>4. \A f : f \in Fqdns(w) <=> f \in Fqdns(t)
    BY <1>4, <2>1, <2>3, FqdnsNamed
  <2>5. QED
    BY <2>1, <2>4
<1>6. Renamed(Fqdns(t), Fqdns(w), t[b].dom, d)
  <2> DEFINE c0 == t[b].dom
             ns == {n \in Names : Named(t[b], n)}
             gone == {n \in ns : ~ \E c \in DOMAIN t : c # b /\ t[c].dom = c0 /\ Named(t[c], n)}
             T == (Fqdns(t) \ (gone \X {c0})) \cup (ns \X {d})
  <2>1. c0 \in Domains
    BY BlockParts
  <2>2. ns \X {c0} \subseteq Fqdns(t)
    <3>1. ASSUME NEW n \in ns PROVE <<n, c0>> \in Fqdns(t)
      <4>1. <<n, c0>> \in Fqdn /\ <<n, c0>>[1] = n /\ <<n, c0>>[2] = t[b].dom
        BY <2>1 DEF Fqdn
      <4>2. Named(t[b], n)
        OBVIOUS
      <4>3. QED
        BY <4>1, <4>2, FqdnsNamed
    <3> HIDE DEF ns
    <3>2. QED
      BY <3>1
  <2>3. ASSUME NEW c \in DOMAIN t, c # b, NEW n
        PROVE  w[c].dom = t[c].dom /\ (Named(w[c], n) <=> Named(t[c], n))
    BY <1>4, <2>3
  <2>4. \A n : Named(w[b], n) <=> Named(t[b], n)
    BY <1>2, <1>4 DEF Named
  <2>5. w[b].dom = d
    BY <1>2, <1>4
  <2>6. ASSUME NEW f \in Fqdn PROVE f \in Fqdns(w) <=> f \in T
    <3>1. f[1] \in Names /\ f[2] \in Domains /\ f = <<f[1], f[2]>>
      BY DEF Fqdn
    <3> DEFINE n == f[1]
               out == \E c \in DOMAIN t : c # b /\ t[c].dom = f[2] /\ Named(t[c], n)
    <3>2. f \in Fqdns(w) <=> out \/ (d = f[2] /\ Named(t[b], n))
      BY <1>4, <2>3, <2>4, <2>5, FqdnsNamed
    <3>3. f \in Fqdns(t) <=> out \/ (c0 = f[2] /\ Named(t[b], n))
      BY FqdnsNamed
    <3>4. f \in ns \X {d} <=> d = f[2] /\ Named(t[b], n)
      BY <3>1
    <3>5. f \in gone \X {c0} <=> c0 = f[2] /\ Named(t[b], n) /\ ~out
      BY <3>1
    <3> HIDE DEF out, ns, gone, n, c0
    <3>6. QED
      BY <3>2, <3>3, <3>4, <3>5
  <2>7. T \subseteq Fqdn
    <3>1. Fqdns(t) \subseteq Fqdn /\ ns \subseteq Names
      BY DEF Fqdns
    <3> HIDE DEF ns, gone
    <3>2. QED
      BY <3>1 DEF Fqdn
  <2>8. Fqdns(w) \subseteq Fqdn
    BY DEF Fqdns
  <2>9. Fqdns(w) = T
    <3> HIDE DEF T
    <3>1. QED
      BY <2>6, <2>7, <2>8
  <2>10. ns \in SUBSET Names /\ gone \in SUBSET Names /\ gone \subseteq ns
    OBVIOUS
  <2>11. /\ ns \X {t[b].dom} \subseteq Fqdns(t)
         /\ Fqdns(w) = (Fqdns(t) \ (gone \X {t[b].dom})) \cup (ns \X {d})
    BY <2>2, <2>9
  <2> HIDE DEF ns, gone
  <2>12. QED
    BY <2>10, <2>11 DEF Renamed
<1>7. QED
  BY <1>3, <1>4, <1>5, <1>6 DEF u

\* What add makes of a text has one more site or the sites it had.
LEMMA LineAdded ==
    ASSUME NEW t \in Seq(Block), NEW g \in Fqdn, NEW port \in BOOLEAN
    PROVE  /\ AddLine(t, g, port) \in Seq(Block)
           /\ Fqdns(AddLine(t, g, port)) \in {Fqdns(t), Fqdns(t) \cup {g}}
<1> DEFINE line == [name |-> g[1], port |-> port]
           found == \E b \in DOMAIN t : t[b].dom = g[2] \/ <<g[2], t[b].dom>> \in Extends
           under(b) == [t[b] EXCEPT !.lines = <<line>> \o @]
           u == [b \in DOMAIN t |-> IF t[b].dom = g[2] THEN under(b) ELSE t[b]]
           new == [dom |-> g[2], machine |-> FALSE, lines |-> <<line>>]
           v == Append(t, new)
<1>1. g[1] \in Names /\ g[2] \in Domains /\ line \in Line /\ line.name = g[1]
  BY DEF Fqdn, Line
<1>2. AddLine(t, g, port) = IF found THEN u ELSE v
  BY DEF AddLine
<1> HIDE DEF line, found
<1>3. v \in Seq(Block) /\ Fqdns(v) \in {Fqdns(t), Fqdns(t) \cup {g}}
  <2>1. <<line>> \in Seq(Line) /\ DOMAIN <<line>> = {1} /\ <<line>>[1] = line
    BY <1>1
  <2>2. new \in Block /\ new.dom = g[2] /\ new.lines = <<line>>
    BY <1>1, <2>1 DEF Block
  <2> HIDE DEF new
  <2>3. \A m : Named(new, m) <=> m = g[1]
    BY <1>1, <2>1, <2>2 DEF Named
  <2>4. {f \in Fqdn : f[2] = new.dom /\ Named(new, f[1])} = {g}
    BY <2>2, <2>3 DEF Fqdn
  <2>5. QED
    BY <2>2, <2>4, BlockAppended
<1>4. u \in Seq(Block) /\ Fqdns(u) \in {Fqdns(t), Fqdns(t) \cup {g}}
  <2>1. Len(t) \in Nat /\ DOMAIN t = 1 .. Len(t)
    OBVIOUS
  <2>2. ASSUME NEW b \in DOMAIN t
        PROVE  /\ under(b) \in Block /\ under(b).dom = t[b].dom
               /\ \A m : Named(under(b), m) <=> Named(t[b], m) \/ m = g[1]
    <3> DEFINE r == <<line>> \o t[b].lines
               e == [t[b] EXCEPT !.lines = r]
    <3>1. t[b] \in Block /\ t[b].lines \in Seq(Line)
      BY BlockParts
    <3>2. r \in Seq(Line)
      BY <1>1, <3>1, PrependedNames
    <3>3. e = under(b)
      OBVIOUS
    <3>4. e \in Block /\ e.dom = t[b].dom /\ e.lines = r
      <4> HIDE DEF r
      <4>1. e \in Block
        BY <3>1, <3>2 DEF Block
      <4>2. e.dom = t[b].dom /\ e.lines = r
        BY <3>1 DEF Block
      <4>3. QED
        BY <4>1, <4>2
    <3> HIDE DEF e
    <3>5. \A m : Named(e, m) <=> Named(t[b], m) \/ m = g[1]
      <4>1. line \in Line /\ t[b].lines \in Seq(Line) /\ e.lines = <<line>> \o t[b].lines
        BY <1>1, <3>1, <3>4
      <4> HIDE DEF r
      <4>2. \A m : Named(e, m) <=> Named(t[b], m) \/ m = line.name
        BY <4>1, PrependedNames
      <4>3. QED
        BY <1>1, <4>2
    <3>6. QED
      BY <3>3, <3>4, <3>5
  <2> HIDE DEF under
  <2>3. \A b \in DOMAIN t : u[b] \in Block
    BY <2>2
  <2>4. u \in [1 .. Len(t) -> Block] /\ DOMAIN u = DOMAIN t
    BY <2>1, <2>3
  <2>5. u \in Seq(Block)
    BY <2>1, <2>4, SeqDef
  <2>6. \A b \in DOMAIN t : /\ u[b].dom = t[b].dom
                            /\ \A m : Named(u[b], m) <=>
                                      Named(t[b], m) \/ (m = g[1] /\ t[b].dom = g[2])
    BY <2>2
  <2> HIDE DEF u
  <2>7. ASSUME NEW f \in Fqdn
        PROVE  f \in Fqdns(u) <=> f \in Fqdns(t) \/ (f = g /\ \E b \in DOMAIN t : t[b].dom = g[2])
    <3>1. f = g <=> f[1] = g[1] /\ f[2] = g[2]
      BY DEF Fqdn
    <3>2. QED
      BY <2>4, <2>6, <3>1, FqdnsNamed
  <2>8. \A x : Fqdns(x) \subseteq Fqdn
    BY DEF Fqdns
  <2>9. CASE \E b \in DOMAIN t : t[b].dom = g[2]
    <3>1. Fqdns(u) = Fqdns(t) \cup {g}
      BY <2>7, <2>8, <2>9
    <3>2. QED
      BY <2>5, <3>1
  <2>10. CASE ~ \E b \in DOMAIN t : t[b].dom = g[2]
    <3>1. Fqdns(u) = Fqdns(t)
      BY <2>7, <2>8, <2>10
    <3>2. QED
      BY <2>5, <3>1
  <2>11. QED
    BY <2>9, <2>10
<1>5. QED
  BY <1>2, <1>3, <1>4

GroupOps == {"group", "rename", "delete", "newgroup"}

\* What saveGroup, deleteGroup and addGroup make of a text they do not refuse
\* is a text; it has the same sites when a saved group keeps its domain, and
\* else those of the group under another domain.
LEMMA GroupsSaved ==
    ASSUME NEW t \in Seq(Block), NEW r \in Request, r.op \in GroupOps, ~GroupRefused(t, r)
    PROVE  LET u == Regrouped(t, r)
           IN  /\ u \in Seq(Block)
               /\ (r.op \in {"group", "rename"} => r.dom = t[r.gi].dom) => Fqdns(u) = Fqdns(t)
               /\ \/ Fqdns(u) = Fqdns(t)
                  \/ \E d, e \in Domains : Renamed(Fqdns(t), Fqdns(u), d, e)
<1>1. r.dom \in Domains /\ r.machine \in BOOLEAN
  BY DEF Request
<1>2. CASE r.op \in {"group", "rename"}
  <2>1. r.gi \in DOMAIN t
    BY <1>2 DEF GroupRefused
  <2>2. Regrouped(t, r) = Headed(t, r.gi, r.dom, r.machine)
    BY <1>2 DEF Regrouped, Headed
  <2>3. t[r.gi].dom \in Domains
    BY <2>1, BlockParts
  <2>4. QED
    BY <1>1, <1>2, <2>1, <2>2, <2>3, BlockHeaded
<1>3. CASE r.op = "delete"
  <2>1. r.gi \in DOMAIN t /\ t[r.gi].lines = <<>>
    BY <1>3 DEF GroupRefused
  <2>2. Regrouped(t, r) = RemoveAt(t, r.gi)
    BY <1>3 DEF Regrouped
  <2>3. QED
    BY <2>1, <2>2, BlockDeleted
<1>4. CASE r.op = "newgroup"
  <2> DEFINE new == [dom |-> r.dom, machine |-> r.machine, lines |-> <<>>]
  <2>1. Regrouped(t, r) = Append(t, new)
    BY <1>4 DEF Regrouped
  <2>2. new \in Block /\ new.lines = <<>>
    BY <1>1 DEF Block
  <2> HIDE DEF new
  <2>3. {f \in Fqdn : f[2] = new.dom /\ Named(new, f[1])} = {}
    BY <2>2 DEF Named
  <2>4. /\ Append(t, new) \in Seq(Block)
        /\ Fqdns(Append(t, new)) =
               Fqdns(t) \cup {f \in Fqdn : f[2] = new.dom /\ Named(new, f[1])}
    BY <2>2, BlockAppended
  <2>5. Fqdns(Append(t, new)) = Fqdns(t)
    BY <2>3, <2>4
  <2>6. QED
    BY <2>1, <2>4, <2>5
<1>5. QED
  BY <1>2, <1>3, <1>4 DEF GroupOps

\* The placeholder of an editor that has no request.
LEMMA NoRequestTyped ==
    /\ NoRequest \in Request
    /\ NoRequest.op = "group" /\ NoRequest.gi = 0
<1>1. Fqdn # {}
  <2>1. PICK n \in Names, d \in Domains : TRUE
    BY SitesAssumption
  <2>2. <<n, d>> \in Fqdn
    BY DEF Fqdn
  <2>3. QED
    BY <2>2
<1>2. AnySite \in Fqdn
  BY <1>1 DEF AnySite
<1>3. AnySite[2] \in Domains
  BY <1>2 DEF Fqdn
<1>4. "group" \in Op
  BY DEF Op
<1>5. NoRequest \in [op : Op, site : Fqdn, to : Fqdn, port : BOOLEAN, gi : Nat,
                      dom : Domains, machine : BOOLEAN]
  BY <1>2, <1>3, <1>4 DEF NoRequest
<1>6. QED
  BY <1>5 DEF NoRequest, Request

\* The lines behind a longer write, and what they are glued to, are texts.
LEMMA LeftOverTyped ==
    ASSUME NEW ls \in Seq(Line), NEW x \in LeftOver(ls)
    PROVE  x \in Seq(Line)
<1> DEFINE lasts  == {SubSeq(ls, j, Len(ls)) : j \in 1 .. Len(ls) + 1}
           firsts == {Refused} \cup [name : Names, port : BOOLEAN]
<1>1. Len(ls) \in Nat /\ \A j \in 1 .. Len(ls) : ls[j] \in Line
  OBVIOUS
<1>2. ASSUME NEW j \in 1 .. Len(ls) + 1 PROVE SubSeq(ls, j, Len(ls)) \in Seq(Line)
  <2>1. \A k \in j .. Len(ls) : ls[k] \in Line
    BY <1>1
  <2>2. QED
    BY <1>1, <2>1, SubSeqProperties
<1>3. \A y \in lasts : y \in Seq(Line)
  BY <1>2
<1>4. ASSUME NEW l \in firsts PROVE l \in Line
  <2>1. Refused \in Line
    BY DEF Line, Refused
  <2>2. \A m \in [name : Names, port : BOOLEAN] : m \in Line
    BY DEF Line
  <2>3. QED
    BY <2>1, <2>2
<1>5. \A l \in Line, y \in Seq(Line) : <<l>> \o y \in Seq(Line)
  BY PrependedNames
<1>6. LeftOver(ls) = lasts \cup UNION {{<<l>> \o last : last \in lasts} : l \in firsts}
  BY DEF LeftOver
<1> HIDE DEF lasts, firsts
<1>7. x \in lasts \/ \E l \in firsts, y \in lasts : x = <<l>> \o y
  BY <1>6
<1>8. QED
  BY <1>3, <1>4, <1>5, <1>7

\* The last group of a text gets more lines, and the text more groups.
LEMMA GluedTyped ==
    ASSUME NEW t \in Seq(Block), NEW ls \in Seq(Line), NEW u \in Seq(Block)
    PROVE  Glued(t, ls, u) \in Seq(Block)
<1>1. CASE t = <<>>
  <2> DEFINE head == <<Refused>> \o ls
             block == [dom |-> AnySite[2], machine |-> FALSE, lines |-> head]
  <2>1. Refused \in Line
    BY DEF Line, Refused
  <2>2. head \in Seq(Line)
    BY <2>1, PrependedNames
  <2> HIDE DEF head
  <2>3. block \in Block
    BY <2>2, NoRequestTyped DEF Block, Request, NoRequest
  <2>4. Glued(t, ls, u) = <<block>> \o u
    BY <1>1 DEF Glued, head
  <2> HIDE DEF block
  <2>5. <<block>> \in Seq(Block)
    BY <2>3
  <2>6. QED
    BY <2>4, <2>5, ConcatProperties
<1>2. CASE t # <<>>
  <2> DEFINE n == Len(t)
             r == t[n].lines \o ls
  <2>1. n \in DOMAIN t
    BY <1>2
  <2>2. t[n].lines \in Seq(Line)
    BY <2>1, BlockParts
  <2>3. r \in Seq(Line)
    BY <2>2, ConcatProperties
  <2>4. Glued(t, ls, u) = Relined(t, n, r) \o u
    BY <1>2 DEF Glued, Relined
  <2> HIDE DEF r, n
  <2>5. Relined(t, n, r) \in Seq(Block)
    BY <2>1, <2>3, LinesReplaced
  <2>6. QED
    BY <2>4, <2>5, ConcatProperties
<1>3. QED
  BY <1>1, <1>2

\* A write that overlaps no other leaves its text, and any leaves a text.
LEMMA OverlaidAlone == ASSUME NEW t PROVE Overlaid(t, <<>>) = {t}
BY DEF Overlaid

LEMMA OverlaidTyped ==
    ASSUME NEW t \in Seq(Block), NEW u \in Seq(Block), NEW x \in Overlaid(t, u)
    PROVE  x \in Seq(Block)
<1>1. Len(u) \in Nat /\ DOMAIN u = 1 .. Len(u) /\ \A b \in 1 .. Len(u) : u[b] \in Block
  OBVIOUS
<1>2. ASSUME NEW b \in 1 .. Len(u) + 1 PROVE SubSeq(u, b, Len(u)) \in Seq(Block)
  <2>1. \A k \in b .. Len(u) : u[k] \in Block
    BY <1>1
  <2>2. QED
    BY <1>1, <2>1, SubSeqProperties
<1>3. ASSUME NEW b \in DOMAIN u, x = t \o SubSeq(u, b, Len(u)) PROVE x \in Seq(Block)
  <2>1. SubSeq(u, b, Len(u)) \in Seq(Block)
    BY <1>1, <1>2
  <2>2. QED
    BY <1>3, <2>1, ConcatProperties
<1>4. ASSUME NEW b \in DOMAIN u, NEW ls \in LeftOver(u[b].lines),
             x = Glued(t, ls, SubSeq(u, b + 1, Len(u)))
      PROVE  x \in Seq(Block)
  <2>1. u[b].lines \in Seq(Line)
    BY BlockParts
  <2>2. ls \in Seq(Line)
    BY <2>1, LeftOverTyped
  <2>3. b + 1 \in 1 .. Len(u) + 1
    BY <1>1
  <2>4. SubSeq(u, b + 1, Len(u)) \in Seq(Block)
    BY <1>2, <2>3
  <2>5. QED
    BY <1>4, <2>2, <2>4, GluedTyped
<1>5. \/ x = t
      \/ \E b \in DOMAIN u : x = t \o SubSeq(u, b, Len(u))
      \/ \E b \in DOMAIN u : \E ls \in LeftOver(u[b].lines) :
             x = Glued(t, ls, SubSeq(u, b + 1, Len(u)))
  BY DEF Overlaid
<1>6. QED
  BY <1>3, <1>4, <1>5

\* Lines of which the end is missing are lines, of names that were there.
LEMMA LinesCut ==
    ASSUME NEW ls \in Seq(Line), NEW x \in CutLines(ls)
    PROVE  /\ x \in Seq(Line)
           /\ \A i \in DOMAIN x : \/ x[i].name = Unreadable
                                  \/ \E j \in DOMAIN ls : ls[j].name = x[i].name
<1>1. Len(ls) \in Nat /\ DOMAIN ls = 1 .. Len(ls) /\ \A j \in 1 .. Len(ls) : ls[j] \in Line
  OBVIOUS
<1>2. CASE x = <<>>
  BY <1>2
<1>3. ASSUME NEW j \in DOMAIN ls, NEW l \in Broken(ls[j]), x = Append(SubSeq(ls, 1, j - 1), l)
      PROVE  /\ x \in Seq(Line)
             /\ \A i \in DOMAIN x : \/ x[i].name = Unreadable
                                    \/ \E k \in DOMAIN ls : ls[k].name = x[i].name
  <2> DEFINE a == SubSeq(ls, 1, j - 1)
  <2>1. a \in Seq(Line) /\ Len(a) = j - 1 /\ \A k \in 1 .. j - 1 : a[k] = ls[k]
    <3>1. \A k \in 1 .. j - 1 : ls[k] \in Line
      BY <1>1
    <3>2. QED
      BY <1>1, <3>1, SubSeqProperties
  <2>2. l \in Line /\ (l.name = Unreadable \/ l.name = ls[j].name)
    <3>1. ls[j] \in Line
      OBVIOUS
    <3>2. l = Refused \/ \E q \in BOOLEAN : l = [ls[j] EXCEPT !.port = q]
      BY DEF Broken
    <3>3. CASE l = Refused
      BY <3>3 DEF Refused, Line
    <3>4. ASSUME NEW q \in BOOLEAN, l = [ls[j] EXCEPT !.port = q]
          PROVE  l \in Line /\ l.name = ls[j].name
      BY <3>1, <3>4 DEF Line
    <3>5. QED
      BY <3>2, <3>3, <3>4
  <2> HIDE DEF a
  <2>3. /\ x \in Seq(Line) /\ Len(x) = j /\ x[j] = l
        /\ \A k \in 1 .. j - 1 : x[k] = a[k]
    <3>1. x = Append(a, l)
      BY <1>3 DEF a
    <3>2. /\ Append(a, l) \in Seq(Line) /\ Len(Append(a, l)) = Len(a) + 1
          /\ Append(a, l)[Len(a) + 1] = l
          /\ \A k \in 1 .. Len(a) : Append(a, l)[k] = a[k]
      BY <2>1, <2>2, AppendProperties
    <3>3. Len(a) = j - 1 /\ Len(a) + 1 = j
      BY <1>1, <2>1
    <3>4. QED
      BY <3>1, <3>2, <3>3
  <2>4. ASSUME NEW i \in DOMAIN x
        PROVE  x[i].name = Unreadable \/ \E k \in DOMAIN ls : ls[k].name = x[i].name
    <3>1. i \in 1 .. j
      BY <2>3
    <3>2. CASE i = j
      BY <2>2, <2>3, <3>2
    <3>3. CASE i # j
      <4>1. i \in 1 .. j - 1 /\ i \in DOMAIN ls
        BY <1>1, <3>1, <3>3
      <4>2. QED
        BY <2>1, <2>3, <4>1
    <3>4. QED
      BY <3>2, <3>3
  <2>5. QED
    BY <2>3, <2>4
<1>4. x = <<>> \/ \E j \in DOMAIN ls : \E l \in Broken(ls[j]) : x = Append(SubSeq(ls, 1, j - 1), l)
  BY DEF CutLines
<1>5. QED
  BY <1>2, <1>3, <1>4

\* What a failed write leaves is a text without sites that were not written.
LEMMA TextCut ==
    ASSUME NEW t \in Seq(Block), NEW x \in Cut(t)
    PROVE  x \in Seq(Block) /\ Fqdns(x) \subseteq Fqdns(t)
<1>1. Len(t) \in Nat /\ DOMAIN t = 1 .. Len(t)
  OBVIOUS
<1>2. CASE x = <<>>
  BY <1>2, EmptyFqdns
<1>3. ASSUME NEW b \in DOMAIN t, NEW ls \in CutLines(t[b].lines),
             x = Append(SubSeq(t, 1, b - 1), [t[b] EXCEPT !.lines = ls])
      PROVE  x \in Seq(Block) /\ Fqdns(x) \subseteq Fqdns(t)
  <2> DEFINE a == SubSeq(t, 1, b - 1)
             e == [t[b] EXCEPT !.lines = ls]
  <2>1. a \in Seq(Block) /\ Len(a) = b - 1 /\ \A k \in 1 .. b - 1 : a[k] = t[k]
    <3>1. \A k \in 1 .. b - 1 : t[k] \in Block
      BY <1>1
    <3>2. QED
      BY <1>1, <3>1, SubSeqProperties
  <2>2. t[b] \in Block /\ t[b].lines \in Seq(Line)
    BY BlockParts
  <2>3. /\ ls \in Seq(Line)
        /\ \A i \in DOMAIN ls : \/ ls[i].name = Unreadable
                                \/ \E j \in DOMAIN t[b].lines : t[b].lines[j].name = ls[i].name
    BY <2>2, LinesCut
  <2>4. e \in Block /\ e.dom = t[b].dom /\ e.lines = ls
    BY <2>2, <2>3 DEF Block
  <2> HIDE DEF a, e
  <2>5. x = Append(a, e)
    BY <1>3 DEF a, e
  <2>6. /\ x \in Seq(Block)
        /\ Fqdns(x) = Fqdns(a) \cup {f \in Fqdn : f[2] = e.dom /\ Named(e, f[1])}
    BY <2>1, <2>4, <2>5, BlockAppended
  <2>7. Fqdns(a) \subseteq Fqdns(t)
    <3>1. DOMAIN a \subseteq DOMAIN t /\ \A c \in DOMAIN a : a[c] = t[c]
      BY <1>1, <2>1
    <3>2. QED
      BY <3>1, FqdnsNamed
  <2>8. ASSUME NEW f \in Fqdn, f[2] = e.dom, Named(e, f[1]) PROVE f \in Fqdns(t)
    <3>1. f[1] \in Names
      BY DEF Fqdn
    <3>2. f[1] # Unreadable
      BY <3>1, UnreadableAssumption
    <3>3. Named(t[b], f[1])
      BY <2>3, <2>4, <2>8, <3>2 DEF Named
    <3>4. QED
      BY <2>4, <2>8, <3>3, FqdnsNamed
  <2>9. QED
    BY <2>6, <2>7, <2>8
<1>4. x = <<>> \/ \E b \in DOMAIN t : \E ls \in CutLines(t[b].lines) :
                     x = Append(SubSeq(t, 1, b - 1), [t[b] EXCEPT !.lines = ls])
  BY DEF Cut
<1>5. QED
  BY <1>2, <1>3, <1>4

(***************************************************************************)
(* Types.                                                                  *)
(***************************************************************************)

\* The text removeSiteLine makes of text t when the site's block is b.
Taken(t, b, name) ==
    LET j == IF b <= Len(t) THEN LineOf(t[b], name) ELSE 0
    IN IF j = 0 THEN t ELSE [t EXCEPT ![b].lines = RemoveAt(@, j)]

\* removeSiteLine leaves the groups alone and takes no site but the one it names.
LEMMA SiteTaken ==
    ASSUME NEW t \in Seq(Block), NEW b \in Nat, b # 0, NEW name \in Names
    PROVE  LET f == <<name, t[b].dom>>
           IN  /\ Taken(t, b, name) \in Seq(Block)
               /\ Taken(t, b, name) # t =>
                      /\ b \in DOMAIN t
                      /\ f \in Fqdns(t)
                      /\ Fqdns(Taken(t, b, name)) \subseteq Fqdns(t)
                      /\ Fqdns(t) \subseteq Fqdns(Taken(t, b, name)) \cup {f}
               /\ DOMAIN Taken(t, b, name) = DOMAIN t
               /\ \A c \in DOMAIN t : Taken(t, b, name)[c].dom = t[c].dom
<1> DEFINE j == IF b <= Len(t) THEN LineOf(t[b], name) ELSE 0
           u == [t EXCEPT ![b].lines = RemoveAt(@, j)]
<1>1. Taken(t, b, name) = IF j = 0 THEN t ELSE u
  BY DEF Taken
<1>2. CASE j = 0
  BY <1>1, <1>2
<1>3. CASE j # 0
  <2>1. b \in DOMAIN t
    BY <1>3
  <2>2. t[b] \in Block
    BY <2>1, BlockParts
  <2>3. j \in DOMAIN t[b].lines /\ t[b].lines[j].name = name
    BY <1>3, <2>1, <2>2, LineOfProperties
  <2> HIDE DEF j
  <2> DEFINE r == RemoveAt(t[b].lines, j)
  <2>4. u = Relined(t, b, r)
    BY DEF Relined
  <2> HIDE DEF u, r
  <2>5. r = RemoveAt(t[b].lines, j)
    BY DEF r
  <2> DEFINE v == Relined(t, b, r)
             f == <<name, t[b].dom>>
  <2>6. /\ v \in Seq(Block) /\ DOMAIN v = DOMAIN t /\ f \in Fqdns(t)
        /\ \A c \in DOMAIN t : v[c].dom = t[c].dom
        /\ Fqdns(v) \subseteq Fqdns(t) /\ Fqdns(t) \subseteq Fqdns(v) \cup {f}
    <3>1. j \in DOMAIN t[b].lines /\ t[b].lines[j].name = name
      BY <2>3
    <3>2. QED
      BY <2>1, <2>5, <3>1, LineRemoved
  <2>7. Taken(t, b, name) = v
    BY <1>1, <1>3, <2>3, <2>4
  <2> HIDE DEF v
  <2>8. /\ Fqdns(Taken(t, b, name)) \subseteq Fqdns(t) /\ f \in Fqdns(t)
        /\ Fqdns(t) \subseteq Fqdns(Taken(t, b, name)) \cup {f}
    BY <2>6, <2>7
  <2>9. /\ Taken(t, b, name) \in Seq(Block) /\ DOMAIN Taken(t, b, name) = DOMAIN t
        /\ \A c \in DOMAIN t : Taken(t, b, name)[c].dom = t[c].dom
    BY <2>6, <2>7
  <2> HIDE DEF f
  <2>10. QED
    BY <2>1, <2>8, <2>9 DEF f
<1>4. QED
  BY <1>2, <1>3

\* The index a removal uses was found, and only the group forms lead to their
\* handlers.
Indexed ==
    \A p \in Procs : /\ pc[p] = "remove" => req[p].gi # 0
                     /\ pc[p] = "regroup" => req[p].op \in GroupOps
TypeInv == TypeOK /\ Indexed

\* The part of the types that an editor's step into another place leaves.
Stored ==
    /\ conf \in Seq(Block) /\ bak \in Seq(Block) /\ whole \in Seq(Block)
    /\ man \subseteq Fqdn /\ known \subseteq Fqdn
    /\ bare \in BOOLEAN /\ spoilt \in BOOLEAN /\ begun \in Nat

\* What stays the same stays well typed.
LEMMA StoredSame ==
    ASSUME TypeInv, UNCHANGED <<disk, history>>, begun' \in Nat
    PROVE  Stored'
BY DEF TypeInv, TypeOK, Stored, disk, history

\* A step of editor p that keeps the other variables' types.
LEMMA TypeStep ==
    ASSUME TypeInv, NEW p \in Procs, NEW l \in Label, NEW r \in Request, NEW g \in Seq(Block),
           NEW n \in Seq(Block), l = "remove" => r.gi # 0, l = "regroup" => r.op \in GroupOps,
           Stored', pc' = [pc EXCEPT ![p] = l], req' = [req EXCEPT ![p] = r],
           page' = [page EXCEPT ![p] = g], next' = [next EXCEPT ![p] = n]
    PROVE  TypeInv'
BY DEF TypeInv, TypeOK, Indexed, Stored

\* An editor that stops keeps the types.
LEMMA TypeStop ==
    ASSUME TypeInv, NEW p \in Procs, Stop(p), Stored'
    PROVE  TypeInv'
<1>1. "idle" \in Label /\ "idle" \notin {"remove", "regroup"} /\ <<>> \in Seq(Block)
  BY DEF Label
<1>2. QED
  BY <1>1, NoRequestTyped, TypeStep DEF Stop, Goto

\* A step to another place, with the request and the texts the editor has.
LEMMA TypeMove ==
    ASSUME TypeInv, NEW p \in Procs, NEW l \in Label, l \notin {"remove", "regroup"},
           Goto(p, l), UNCHANGED <<req, page, next>>, Stored'
    PROVE  TypeInv'
BY DEF TypeInv, TypeOK, Indexed, Goto, Stored

\* The refusal of an operation.
LEMMA TypeRefuse ==
    ASSUME TypeInv, NEW p \in Procs, Refuse(p), begun' \in Nat
    PROVE  TypeInv'
<1>1. Stored'
  BY StoredSame DEF Refuse
<1>2. "undo" \in Label
  BY DEF Label
<1>3. CASE Stop(p)
  BY <1>1, <1>3, TypeStop
<1>4. CASE Goto(p, "undo") /\ UNCHANGED <<req, page, next>>
  BY <1>1, <1>2, <1>4, TypeMove
<1>5. QED
  BY <1>3, <1>4 DEF Refuse

\* The beginning of an operation.
LEMMA TypeBegin ==
    ASSUME TypeInv, NEW p \in Procs, NEW r \in Request, NEW l \in Label,
           l \notin {"remove", "regroup"},
           Begin(p, r, l)
    PROVE  TypeInv'
<1>1. begun' \in Nat
  BY DEF Begin, Count, TypeInv, TypeOK
<1>2. Stored'
  BY <1>1, StoredSame DEF Begin
<1>3. QED
  BY <1>2 DEF TypeInv, TypeOK, Indexed, Begin, Goto, Stored

\* A step that leaves p with a text to write.
LEMMA TypePrepare ==
    ASSUME TypeInv, NEW p \in Procs, NEW l \in Label, NEW t \in Seq(Block),
           l \notin {"remove", "regroup"},
           Goto(p, l), next' = [next EXCEPT ![p] = t],
           UNCHANGED <<disk, req, page, history>>, begun' \in Nat
    PROVE  TypeInv'
<1>1. Stored'
  BY StoredSame
<1>2. QED
  BY <1>1 DEF TypeInv, TypeOK, Indexed, Goto, Stored

\* A page that is submitted, with the text it makes.
LEMMA TypeSubmit ==
    ASSUME TypeInv, NEW p \in Procs, NEW r \in Request, NEW t \in Seq(Block),
           Goto(p, "backup"), next' = [next EXCEPT ![p] = t], req' = [req EXCEPT ![p] = r],
           UNCHANGED <<disk, page, history>>, begun' \in Nat
    PROVE  TypeInv'
<1>1. pc' = [pc EXCEPT ![p] = "backup"] /\ "backup" \in Label
  BY DEF Goto, Label
<1>2. Stored'
  BY StoredSame
<1>3. TypeOK'
  BY <1>1, <1>2 DEF TypeInv, TypeOK, Stored
<1>4. Indexed'
  BY <1>1 DEF TypeInv, TypeOK, Indexed
<1>5. QED
  BY <1>3, <1>4 DEF TypeInv

\* The types hold at first.
LEMMA TypeInit == Init => TypeInv
<1>1. "idle" \in Label /\ "idle" \notin {"remove", "regroup"} /\ <<>> \in Seq(Block)
  BY DEF Label
<1>2. \A t : Fqdns(t) \subseteq Fqdn
  BY DEF Fqdns
<1> SUFFICES ASSUME Init PROVE TypeInv
  OBVIOUS
<1>3. conf \in Seq(Block)
  BY ContentsAssumption DEF Init
<1>4. QED
  BY <1>1, <1>2, <1>3, NoRequestTyped DEF Init, TypeInv, TypeOK, Indexed

\* A request that begins keeps them.
LEMMA TypeBegins ==
    ASSUME TypeInv, NEW p \in Procs, Begins(p)
    PROVE  TypeInv'
<1> USE DEF Label
<1>1. ASSUME NEW f \in Fqdn, BeginManualize(p, f) PROVE TypeInv'
  <2> DEFINE r == [NoRequest EXCEPT !.op = "manualize", !.site = f]
  <2>1. r \in Request
    BY NoRequestTyped DEF Request, Op
  <2>2. Begin(p, r, "stat")
    BY <1>1 DEF BeginManualize
  <2> HIDE DEF r
  <2>3. QED
    BY <2>1, <2>2, TypeBegin
<1>2. ASSUME NEW f \in Fqdn, NEW g \in Fqdn, NEW port \in BOOLEAN, BeginEdit(p, f, g, port)
      PROVE  TypeInv'
  <2> DEFINE r == [NoRequest EXCEPT !.op = "edit", !.site = f, !.to = g, !.port = port]
  <2>1. r \in Request
    BY NoRequestTyped DEF Request, Op
  <2>2. Begin(p, r, "parse")
    BY <1>2 DEF BeginEdit
  <2> HIDE DEF r
  <2>3. QED
    BY <2>1, <2>2, TypeBegin
<1>3. ASSUME NEW g \in Fqdn, NEW port \in BOOLEAN, BeginAdd(p, g, port) PROVE TypeInv'
  <2> DEFINE r == [NoRequest EXCEPT !.op = "add", !.to = g, !.port = port]
  <2>1. r \in Request
    BY NoRequestTyped DEF Request, Op
  <2>2. Begin(p, r, "append")
    BY <1>3 DEF BeginAdd
  <2> HIDE DEF r
  <2>3. QED
    BY <2>1, <2>2, TypeBegin
<1>4. CASE LoadPage(p)
  <2>1. begun' \in Nat
    BY <1>4 DEF LoadPage, Count, TypeInv, TypeOK
  <2>2. Stored'
    BY <1>4, <2>1, StoredSame DEF LoadPage
  <2>3. QED
    BY <1>4, <2>2 DEF LoadPage, TypeInv, TypeOK, Indexed, Goto, Stored
<1>5. QED
  BY <1>1, <1>2, <1>3, <1>4 DEF Begins

\* So does a page that is submitted.
LEMMA TypeSubmits ==
    ASSUME TypeInv, NEW p \in Procs, Submits(p), begun' \in Nat
    PROVE  TypeInv'
<1>1. ASSUME NEW t \in Submissions, SubmitConf(p, t) PROVE TypeInv'
  <2> DEFINE r == [req[p] EXCEPT !.op = "conf"]
  <2>1. req[p] \in Request /\ t \in Seq(Block)
    BY ContentsAssumption DEF TypeInv, TypeOK
  <2>2. r \in Request
    BY <2>1 DEF Request, Op
  <2>3. /\ next' = [next EXCEPT ![p] = t] /\ req' = [req EXCEPT ![p] = r]
        /\ Goto(p, "backup") /\ UNCHANGED <<disk, page, history>>
    BY <1>1 DEF SubmitConf
  <2> HIDE DEF r
  <2>4. QED
    BY <2>1, <2>2, <2>3, TypeSubmit
<1>2. ASSUME NEW op \in GroupOps, NEW b \in 1 .. MaxBlocks, NEW d \in Domains,
             NEW machine \in BOOLEAN, SubmitGroup(p, op, b, d, machine)
      PROVE  TypeInv'
  <2> DEFINE r == [NoRequest EXCEPT !.op = op, !.gi = b, !.dom = d, !.machine = machine]
  <2>1. r \in Request /\ r.op = op
    <3>1. b \in Nat /\ op \in Op
      BY BoundsAssumption DEF Op, GroupOps
    <3>2. r \in Request
      BY <3>1, NoRequestTyped DEF Request
    <3>3. r.op = op
      BY NoRequestTyped DEF Request
    <3>4. QED
      BY <3>2, <3>3
  <2>2. req' = [req EXCEPT ![p] = r]
    BY <1>2 DEF SubmitGroup
  <2>3. Stored'
    BY <1>2, StoredSame DEF SubmitGroup
  <2> HIDE DEF r
  <2>4. QED
    BY <1>2, <2>1, <2>2, <2>3 DEF SubmitGroup, TypeInv, TypeOK, Indexed, Goto, Label, Stored
<1>3. QED
  BY <1>1, <1>2 DEF Submits, GroupOps

\* So does every step of one under way.
LEMMA TypeWork ==
    ASSUME TypeInv, NEW p \in Procs, Work(p), begun' \in Nat
    PROVE  TypeInv'
<1> USE DEF Label
<1>a. /\ conf \in Seq(Block) /\ bak \in Seq(Block) /\ whole \in Seq(Block) /\ man \subseteq Fqdn
      /\ known \subseteq Fqdn /\ req[p] \in Request /\ page[p] \in Seq(Block)
      /\ next[p] \in Seq(Block) /\ bare \in BOOLEAN /\ spoilt \in BOOLEAN
  BY DEF TypeInv, TypeOK
<1>b. req[p].site \in Fqdn /\ req[p].to \in Fqdn /\ req[p].port \in BOOLEAN /\ req[p].gi \in Nat
  BY <1>a DEF Request
<1>1. CASE Stat(p)
  <2>1. Stored'
    BY <1>1, StoredSame DEF Stat
  <2>2. QED
    BY <1>1, <2>1, TypeStop, TypeMove DEF Stat
<1>2. CASE PutMan(p)
  <2>1. Stored'
    BY <1>a, <1>b, <1>2 DEF PutMan, history, Stored
  <2>2. QED
    BY <1>2, <2>1, TypeMove DEF PutMan
<1>3. CASE ParseIndex(p)
  <2> DEFINE at == {b \in DOMAIN conf : Holds(conf, b, req[p].site)}
             i  == CHOOSE b \in at : \A c \in at : b <= c
  <2>1. CASE Refuse(p)
    BY <2>1, TypeRefuse
  <2>2. CASE /\ at # {}
             /\ req' = [req EXCEPT ![p].gi = i]
             /\ Goto(p, "remove")
             /\ UNCHANGED <<disk, page, next, history>>
    <3> DEFINE r == [req[p] EXCEPT !.gi = i]
    <3>1. at \in SUBSET DOMAIN conf /\ DOMAIN conf \subseteq Nat \ {0}
      BY <1>a
    <3>2. i \in at
      <4> HIDE DEF at
      <4>1. \E b \in at : \A c \in at : b <= c
        BY <2>2, <3>1, Least
      <4>2. QED
        BY <4>1
    <3>3. i \in Nat /\ i # 0
      <4> HIDE DEF at, i
      <4>1. QED
        BY <3>1, <3>2
    <3> HIDE DEF i
    <3>4. r \in Request /\ r.gi = i
      BY <1>a, <3>3 DEF Request
    <3>5. req' = [req EXCEPT ![p] = r]
      BY <2>2
    <3> HIDE DEF r
    <3>6. Stored'
      BY <2>2, StoredSame
    <3>7. QED
      BY <2>2, <3>3, <3>4, <3>5, <3>6 DEF TypeInv, TypeOK, Indexed, Goto, Stored
  <2>3. QED
    BY <1>3, <2>1, <2>2 DEF ParseIndex
<1>4. CASE RemoveLine(p)
  <2> DEFINE t == Taken(conf, req[p].gi, req[p].site[1])
  <2>1. CASE Refuse(p)
    BY <2>1, TypeRefuse
  <2>2. CASE /\ next' = [next EXCEPT ![p] = t]
             /\ Goto(p, "backup")
             /\ UNCHANGED <<disk, req, page, history>>
    <3>1. req[p].gi # 0
      BY <1>4 DEF RemoveLine, TypeInv, Indexed
    <3>2. t \in Seq(Block)
      <4>1. req[p].site[1] \in Names
        BY <1>b DEF Fqdn
      <4>2. QED
        BY <1>a, <1>b, <3>1, <4>1, SiteTaken
    <3> HIDE DEF t
    <3>3. QED
      BY <2>2, <3>2, TypePrepare
  <2>3. QED
    BY <1>4, <2>1, <2>2 DEF RemoveLine, Taken
<1>5. CASE Undo(p)
  <2>1. Stored'
    BY <1>a, <1>5 DEF Undo, history, Stored
  <2>2. QED
    BY <1>5, <2>1, TypeStop DEF Undo
<1>6. CASE AppendLine(p)
  <2> DEFINE l == IF req[p].op = "add" THEN "unbacked" ELSE "truncate"
             t == AddLine(conf, req[p].to, req[p].port)
  <2>1. t \in Seq(Block)
    BY <1>a, <1>b, LineAdded
  <2>2. Goto(p, l) /\ next' = [next EXCEPT ![p] = t] /\ UNCHANGED <<disk, req, page, history>>
    BY <1>6 DEF AppendLine
  <2>3. l \in Label \ {"remove", "regroup"}
    OBVIOUS
  <2> HIDE DEF t, l
  <2>4. QED
    BY <2>1, <2>2, <2>3, TypePrepare
<1>7. CASE Regroup(p)
  <2> DEFINE t == Regrouped(conf, req[p])
  <2>1. CASE Refuse(p)
    BY <2>1, TypeRefuse
  <2>2. CASE /\ ~GroupRefused(conf, req[p])
             /\ next' = [next EXCEPT ![p] = t]
             /\ Goto(p, "backup")
             /\ UNCHANGED <<disk, req, page, history>>
    <3>1. t \in Seq(Block)
      BY <1>a, <1>7, <2>2, GroupsSaved DEF Regroup, TypeInv, Indexed
    <3> HIDE DEF t
    <3>2. QED
      BY <2>2, <3>1, TypePrepare
  <2>3. QED
    BY <1>7, <2>1, <2>2 DEF Regroup, Regroups
<1>8. CASE Backup(p)
  <2>1. Stored'
    BY <1>a, <1>8 DEF Backup, Stored
  <2>2. QED
    BY <1>8, <2>1, TypeMove DEF Backup
<1>9. CASE Truncate(p)
  <2>1. Stored'
    BY <1>a, <1>9, EmptySeq DEF Truncate, Stored
  <2>2. QED
    BY <1>9, <2>1, TypeMove DEF Truncate
<1>10. CASE Fill(p)
  <2>1. Stored'
    <3>1. conf' \in Seq(Block)
      BY <1>a, <1>10, OverlaidTyped DEF Fill
    <3>2. whole' \in Seq(Block) /\ bare' \in BOOLEAN /\ spoilt' \in BOOLEAN
      BY <1>a, <1>10 DEF Fill
    <3>3. QED
      BY <1>a, <1>10, <3>1, <3>2 DEF Fill, Stored
  <2>2. CASE Stop(p)
    BY <2>1, <2>2, TypeStop
  <2>3. CASE /\ req' = [req EXCEPT ![p].op = "readd"]
             /\ Goto(p, "append")
             /\ UNCHANGED <<page, next>>
    <3> DEFINE r == [req[p] EXCEPT !.op = "readd"]
    <3>1. r \in Request
      BY <1>a DEF Request, Op
    <3>2. req' = [req EXCEPT ![p] = r]
      BY <2>3
    <3> HIDE DEF r
    <3>3. QED
      BY <2>1, <2>3, <3>1, <3>2 DEF TypeInv, TypeOK, Indexed, Goto, Stored
  <2>4. QED
    BY <1>10, <2>2, <2>3 DEF Fill
<1>11. QED
  BY <1>1, <1>2, <1>3, <1>4, <1>5, <1>6, <1>7, <1>8, <1>9, <1>10 DEF Work

\* So does a fault of an editor.
LEMMA TypeFault ==
    ASSUME TypeInv, NEW p \in Procs, Fault(p), begun' \in Nat
    PROVE  TypeInv'
<1> USE DEF Label
<1>a. /\ conf \in Seq(Block) /\ bak \in Seq(Block) /\ whole \in Seq(Block) /\ man \subseteq Fqdn
      /\ known \subseteq Fqdn /\ req[p] \in Request /\ next[p] \in Seq(Block)
      /\ bare \in BOOLEAN /\ spoilt \in BOOLEAN /\ req[p].site \in Fqdn
  BY DEF TypeInv, TypeOK, Request
<1>1. CASE PutManFails(p)
  <2>1. Stored'
    BY <1>a, <1>1 DEF PutManFails, history, Stored
  <2>2. QED
    BY <1>1, <2>1, TypeStop DEF PutManFails
<1>2. CASE BackupFails(p)
  <2>1. bak' \in Seq(Block)
    BY <1>a, <1>2, TextCut DEF BackupFails
  <2>2. Stored'
    BY <1>a, <1>2, <2>1 DEF BackupFails, Stored
  <2>3. QED
    BY <1>2, <2>2, TypeStop, TypeMove DEF BackupFails
<1>3. CASE WriteFails(p)
  <2>1. ASSUME NEW t \in Cut(next[p]), conf' \in Overlaid(t, conf) PROVE conf' \in Seq(Block)
    <3>1. t \in Seq(Block)
      BY <1>a, TextCut
    <3>2. QED
      BY <1>a, <2>1, <3>1, OverlaidTyped
  <2>2. conf' \in Seq(Block) /\ spoilt' \in BOOLEAN
    <3>1. \/ UNCHANGED <<conf, spoilt>>
          \/ spoilt' = TRUE /\ \E t \in Cut(next[p]) : conf' \in Overlaid(t, conf)
      BY <1>3 DEF WriteFails
    <3>2. QED
      BY <1>a, <2>1, <3>1
  <2>3. Stored'
    BY <1>a, <1>3, <2>2 DEF WriteFails, Stored
  <2>4. QED
    BY <1>3, <2>3, TypeStop, TypeMove DEF WriteFails
<1>4. CASE Kill(p)
  <2>1. Stored'
    BY <1>4, StoredSame DEF Kill
  <2>2. QED
    BY <1>4, <2>1, TypeStop DEF Kill
<1>5. QED
  BY <1>1, <1>2, <1>3, <1>4 DEF Fault

\* So does every step.
LEMMA TypeNext == TypeInv /\ [Next]_vars => TypeInv'
<1> SUFFICES ASSUME TypeInv, [Next]_vars PROVE TypeInv'
  OBVIOUS
<1>a. begun \in Nat
  BY DEF TypeInv, TypeOK
<1>1. CASE Reboot /\ UNCHANGED begun
  <2>1. "idle" \in Label /\ "idle" \notin {"remove", "regroup"} /\ <<>> \in Seq(Block)
    BY DEF Label
  <2>2. Stored'
    BY <1>a, <1>1, StoredSame DEF Reboot
  <2>3. QED
    BY <1>1, <2>1, <2>2, NoRequestTyped DEF Reboot, TypeInv, TypeOK, Indexed, Stored
<1>2. CASE UNCHANGED vars
  BY <1>2 DEF vars, disk, history, TypeInv, TypeOK, Indexed
<1>3. ASSUME NEW p \in Procs, Submits(p) \/ Work(p) \/ Fault(p), UNCHANGED begun
      PROVE  TypeInv'
  BY <1>a, <1>3, TypeSubmits, TypeWork, TypeFault
<1>4. QED
  BY <1>1, <1>2, <1>3, TypeBegins DEF Next

\* The types hold at all times.
LEMMA TypeInvariant == Spec => []TypeInv
BY TypeInit, TypeNext, PTL DEF Spec

\* Whatever the editors read between two accesses of another, what they write
\* is a text, and what they hold is a request of theirs.
THEOREM TypeCorrect == Spec => []TypeOK
BY TypeInvariant, PTL DEF TypeInv

(***************************************************************************)
(* Every text parses.                                                      *)
(***************************************************************************)

WebOnly == \A p \in Procs : Ops[p] \cap Streamed = {}
ContentsParse == \A t \in Contents : Parses(t)

\* What an editor is about to write was parsed, and none is in add's branch,
\* the one that writes what it has not parsed.
EditorOK(p) ==
    /\ "op" \in DOMAIN req[p] /\ req[p].op \notin Streamed
    /\ pc[p] # "append"
    /\ pc[p] \in {"backup", "truncate", "unbacked", "fill"} => Parses(next[p])

ParseInv ==
    /\ ParsesAlways
    /\ DOMAIN pc = Procs /\ DOMAIN req = Procs /\ DOMAIN next = Procs
    /\ \A p \in Procs : EditorOK(p)

\* A torn file is an empty table, which parses.
LEMMA TornParses == Parses(<<>>)
BY DEF Parses

\* A step that leaves the file alone leaves it readable.
LEMMA SameParses ==
    ASSUME ParseInv, UNCHANGED <<conf, spoilt>>
    PROVE  ParsesAlways'
BY DEF ParseInv, ParsesAlways, Parses

\* A step of editor p that leaves the others' variables alone preserves the
\* invariant when it leaves p's own part in order.
Own(p) ==
    /\ DOMAIN pc' = Procs /\ DOMAIN req' = Procs /\ DOMAIN next' = Procs
    /\ \A q \in Procs \ {p} : pc'[q] = pc[q] /\ req'[q] = req[q] /\ next'[q] = next[q]

\* A step of one editor keeps ParseInv if it does so for that editor.
LEMMA OneEditor ==
    ASSUME ParseInv, NEW p \in Procs, Own(p), EditorOK(p)', ParsesAlways'
    PROVE  ParseInv'
<1>1. ASSUME NEW q \in Procs, q # p PROVE EditorOK(q)'
  <2>1. EditorOK(q)
    BY DEF ParseInv
  <2>2. pc'[q] = pc[q] /\ req'[q] = req[q] /\ next'[q] = next[q]
    BY <1>1 DEF Own
  <2>3. QED
    BY <2>1, <2>2 DEF EditorOK, Parses
<1>2. QED
  BY <1>1 DEF ParseInv, Own

\* The end of an editor.
LEMMA StopOK ==
    ASSUME ParseInv, NEW p \in Procs, Stop(p), ParsesAlways'
    PROVE  ParseInv'
<1>1. Own(p)
  BY DEF Own, ParseInv, Stop, Goto
<1>2. pc'[p] = "idle" /\ req'[p] = NoRequest
  BY DEF ParseInv, Stop, Goto
<1>3. "op" \in DOMAIN NoRequest /\ NoRequest.op \notin Streamed
  BY DEF NoRequest, Streamed
<1>4. EditorOK(p)'
  BY <1>2, <1>3 DEF EditorOK
<1>5. QED
  BY <1>1, <1>4, OneEditor

\* A step to a place where a request is set up and no text is held.
LEMMA RequestOK ==
    ASSUME ParseInv, NEW p \in Procs, NEW l, NEW r,
           l \notin {"backup", "truncate", "unbacked", "fill", "append"},
           Goto(p, l), req' = [req EXCEPT ![p] = r], UNCHANGED next, ParsesAlways',
           "op" \in DOMAIN r, r.op \notin Streamed
    PROVE  ParseInv'
<1>1. Own(p)
  BY DEF Own, ParseInv, Goto
<1>2. pc'[p] = l /\ req'[p] = r
  BY DEF ParseInv, Goto
<1>3. EditorOK(p)'
  BY <1>2 DEF EditorOK
<1>4. QED
  BY <1>1, <1>3, OneEditor

\* A step that moves an editor on with the request and the text it has.
LEMMA MoveOK ==
    ASSUME ParseInv, NEW p \in Procs, NEW l,
           Goto(p, l), UNCHANGED <<req, next>>, ParsesAlways',
           l # "append", l \in {"backup", "truncate", "unbacked", "fill"} => Parses(next[p])
    PROVE  ParseInv'
<1>1. Own(p)
  BY DEF Own, ParseInv, Goto
<1>2. pc'[p] = l /\ req'[p] = req[p] /\ next'[p] = next[p]
  BY DEF ParseInv, Goto
<1>3. EditorOK(p)'
  BY <1>2 DEF EditorOK, ParseInv, Parses
<1>4. QED
  BY <1>1, <1>3, OneEditor

\* A step that sets up a text to be written, which parses.
LEMMA PrepareOK ==
    ASSUME ParseInv, NEW p \in Procs, NEW t, Parses(t),
           Goto(p, "backup"), next' = [next EXCEPT ![p] = t], ParsesAlways',
           DOMAIN req' = Procs, \A q \in Procs \ {p} : req'[q] = req[q],
           "op" \in DOMAIN req'[p], req'[p].op \notin Streamed
    PROVE  ParseInv'
<1>1. Own(p)
  BY DEF Own, ParseInv, Goto
<1>2. pc'[p] = "backup" /\ next'[p] = t
  BY DEF ParseInv, Goto
<1>3. EditorOK(p)'
  BY <1>2 DEF EditorOK, Parses
<1>4. QED
  BY <1>1, <1>3, OneEditor

\* The refusal of an operation.
LEMMA RefuseOK ==
    ASSUME ParseInv, NEW p \in Procs, Refuse(p)
    PROVE  ParseInv'
<1>1. ParsesAlways'
  BY SameParses DEF Refuse, disk, history
<1>2. CASE Stop(p)
  BY <1>1, <1>2, StopOK
<1>3. CASE Goto(p, "undo") /\ UNCHANGED <<req, page, next>>
  BY <1>1, <1>3, MoveOK
<1>4. QED
  BY <1>2, <1>3 DEF Refuse

\* A request names one of the editor's operations, and only commands start
\* at add's branch.
LEMMA BeginOK ==
    ASSUME WebOnly, ParseInv, NEW p \in Procs, NEW r, NEW l, Begin(p, r, l),
           "op" \in DOMAIN r, l \in {"stat", "parse", "append"}, l = "append" => r.op = "add"
    PROVE  ParseInv'
<1>1. r.op \notin Streamed
  BY DEF WebOnly, Begin
<1>2. l # "append"
  BY <1>1 DEF Streamed
<1>3. ParsesAlways'
  BY SameParses DEF Begin, disk, history
<1>4. QED
  BY <1>1, <1>2, <1>3, RequestOK DEF Begin

\* ParseInv holds at first.
LEMMA ParseInit == ASSUME ContentsParse, Init PROVE ParseInv
<1>1. "op" \in DOMAIN NoRequest /\ NoRequest.op \notin Streamed
  BY DEF NoRequest, Streamed
<1>2. QED
  BY <1>1 DEF ContentsParse, Init, ParseInv, EditorOK, ParsesAlways

\* A request that begins keeps ParseInv.
LEMMA ParseBegins ==
    ASSUME WebOnly, ParseInv, NEW p \in Procs, Begins(p)
    PROVE  ParseInv'
<1>1. ASSUME NEW f \in Fqdn, BeginManualize(p, f) PROVE ParseInv'
  <2>1. "op" \in DOMAIN [NoRequest EXCEPT !.op = "manualize", !.site = f]
    BY DEF NoRequest
  <2>2. QED
    BY <1>1, <2>1, BeginOK DEF BeginManualize
<1>2. ASSUME NEW f \in Fqdn, NEW g \in Fqdn, NEW port \in BOOLEAN, BeginEdit(p, f, g, port)
      PROVE  ParseInv'
  <2>1. "op" \in DOMAIN [NoRequest EXCEPT !.op = "edit", !.site = f, !.to = g, !.port = port]
    BY DEF NoRequest
  <2>2. QED
    BY <1>2, <2>1, BeginOK DEF BeginEdit
<1>3. ASSUME NEW g \in Fqdn, NEW port \in BOOLEAN, BeginAdd(p, g, port) PROVE ParseInv'
  <2> DEFINE r == [NoRequest EXCEPT !.op = "add", !.to = g, !.port = port]
  <2>1. "op" \in DOMAIN r /\ r.op = "add"
    BY DEF NoRequest
  <2>2. Begin(p, r, "append")
    BY <1>3 DEF BeginAdd
  <2> HIDE DEF r
  <2>3. QED
    BY <2>1, <2>2, BeginOK
<1>4. CASE LoadPage(p)
  <2>1. ParsesAlways'
    BY <1>4, SameParses DEF LoadPage, disk, history
  <2>2. QED
    BY <1>4, <2>1, MoveOK DEF LoadPage
<1>5. QED
  BY <1>1, <1>2, <1>3, <1>4 DEF Begins

\* So does one that is submitted.
LEMMA ParseSubmits ==
    ASSUME ParseInv, NEW p \in Procs, Submits(p)
    PROVE  ParseInv'
<1>1. ASSUME NEW t \in Submissions, SubmitConf(p, t) PROVE ParseInv'
  <2>1. Parses(t) /\ next' = [next EXCEPT ![p] = t] /\ Goto(p, "backup")
    BY <1>1 DEF SubmitConf, Valid
  <2>2. ParsesAlways'
    BY <1>1, SameParses DEF SubmitConf, disk, history
  <2>3. "op" \in DOMAIN req[p]
    BY DEF ParseInv, EditorOK
  <2>4. req' = [req EXCEPT ![p].op = "conf"]
    BY <1>1 DEF SubmitConf
  <2>5. DOMAIN req' = Procs /\ \A q \in Procs \ {p} : req'[q] = req[q]
    BY <2>4 DEF ParseInv
  <2>6. "op" \in DOMAIN req'[p] /\ req'[p].op = "conf"
    BY <2>3, <2>4 DEF ParseInv
  <2>7. req'[p].op \notin Streamed
    BY <2>6 DEF Streamed
  <2>8. QED
    BY <2>1, <2>2, <2>5, <2>6, <2>7, PrepareOK
<1>2. ASSUME NEW op \in {"group", "rename", "delete", "newgroup"}, NEW b \in 1 .. MaxBlocks,
             NEW d \in Domains, NEW machine \in BOOLEAN, SubmitGroup(p, op, b, d, machine)
      PROVE  ParseInv'
  <2> DEFINE r == [NoRequest EXCEPT !.op = op, !.gi = b, !.dom = d, !.machine = machine]
  <2>1. "op" \in DOMAIN r /\ r.op = op
    BY DEF NoRequest
  <2>2. Goto(p, "regroup") /\ req' = [req EXCEPT ![p] = r] /\ UNCHANGED next
    BY <1>2 DEF SubmitGroup
  <2>3. ParsesAlways'
    BY <1>2, SameParses DEF SubmitGroup, disk, history
  <2> HIDE DEF r
  <2>4. r.op \notin Streamed
    BY <2>1 DEF Streamed
  <2>5. QED
    BY <2>1, <2>2, <2>3, <2>4, RequestOK
<1>3. QED
  BY <1>1, <1>2 DEF Submits

\* A text that is laid over no other is the one that was parsed.
LEMMA FillParses ==
    ASSUME ParseInv, NEW p \in Procs, Fill(p)
    PROVE  ParsesAlways'
<1>1. SUFFICES ASSUME ~spoilt' PROVE Parses(conf')
  BY DEF ParsesAlways, Parses
<1>2. conf = <<>> /\ conf' \in Overlaid(next[p], conf)
  BY <1>1 DEF Fill
<1>3. conf' = next[p]
  BY <1>2, OverlaidAlone
<1>4. Parses(next[p])
  BY DEF Fill, ParseInv, EditorOK
<1>5. QED
  BY <1>3, <1>4

\* So does every step of one under way.
LEMMA ParseWork ==
    ASSUME ParseInv, NEW p \in Procs, Work(p)
    PROVE  ParseInv'
<1>a. "op" \in DOMAIN req[p] /\ req[p].op \notin Streamed
  BY DEF ParseInv, EditorOK
<1>1. CASE Stat(p)
  <2>1. ParsesAlways'
    BY <1>1, SameParses DEF Stat, disk, history
  <2>2. QED
    BY <1>1, <2>1, StopOK, MoveOK DEF Stat
<1>2. CASE PutMan(p)
  <2>1. ParsesAlways'
    BY <1>2, SameParses DEF PutMan, history
  <2>2. QED
    BY <1>2, <2>1, MoveOK DEF PutMan
<1>3. CASE ParseIndex(p)
  <2> DEFINE at == {b \in DOMAIN conf : Holds(conf, b, req[p].site)}
             i  == CHOOSE b \in at : \A c \in at : b <= c
  <2>1. CASE Refuse(p)
    BY <2>1, RefuseOK
  <2>2. CASE /\ req' = [req EXCEPT ![p].gi = i]
             /\ Goto(p, "remove")
             /\ UNCHANGED <<disk, page, next, history>>
    <3> DEFINE r == [req[p] EXCEPT !.gi = i]
    <3>1. "op" \in DOMAIN r /\ r.op = req[p].op
      BY <1>a
    <3>2. req' = [req EXCEPT ![p] = r]
      BY <2>2
    <3>3. ParsesAlways'
      BY <2>2, SameParses DEF disk, history
    <3> HIDE DEF r
    <3>4. QED
      BY <1>a, <2>2, <3>1, <3>2, <3>3, RequestOK
  <2>3. QED
    BY <1>3, <2>1, <2>2 DEF ParseIndex
<1>4. CASE RemoveLine(p)
  <2> DEFINE b == req[p].gi
             j == IF b <= Len(conf) THEN LineOf(conf[b], req[p].site[1]) ELSE 0
             t == IF j = 0 THEN conf ELSE [conf EXCEPT ![b].lines = RemoveAt(@, j)]
  <2>1. CASE Refuse(p)
    BY <2>1, RefuseOK
  <2>2. CASE /\ Valid(t)
             /\ next' = [next EXCEPT ![p] = t]
             /\ Goto(p, "backup")
             /\ UNCHANGED <<disk, req, page, history>>
    <3> HIDE DEF t
    <3>1. ParsesAlways'
      BY <2>2, SameParses DEF disk, history
    <3>2. DOMAIN req' = Procs /\ req' = req
      BY <2>2 DEF ParseInv
    <3>3. QED
      BY <1>a, <2>2, <3>1, <3>2, PrepareOK DEF Valid
  <2>3. QED
    BY <1>4, <2>1, <2>2 DEF RemoveLine
<1>5. CASE Undo(p)
  <2>1. ParsesAlways'
    BY <1>5, SameParses DEF Undo, history
  <2>2. QED
    BY <1>5, <2>1, StopOK DEF Undo
<1>6. CASE AppendLine(p)
  BY <1>6 DEF AppendLine, ParseInv, EditorOK
<1>7. CASE Regroup(p)
  <2> DEFINE t == Regrouped(conf, req[p])
  <2>1. CASE Refuse(p)
    BY <2>1, RefuseOK
  <2>2. CASE /\ Parses(t)
             /\ next' = [next EXCEPT ![p] = t]
             /\ Goto(p, "backup")
             /\ UNCHANGED <<disk, req, page, history>>
    <3> HIDE DEF t
    <3>1. ParsesAlways'
      BY <2>2, SameParses DEF disk, history
    <3>2. DOMAIN req' = Procs /\ req' = req
      BY <2>2 DEF ParseInv
    <3>3. QED
      BY <1>a, <2>2, <3>1, <3>2, PrepareOK
  <2>3. QED
    BY <1>7, <2>1, <2>2 DEF Regroup, Regroups, Valid
<1>8. CASE Backup(p)
  <2>1. ParsesAlways' /\ Parses(next[p])
    BY <1>8 DEF Backup, ParseInv, EditorOK, ParsesAlways, Parses
  <2>2. QED
    BY <1>8, <2>1, MoveOK DEF Backup
<1>9. CASE Truncate(p)
  <2>1. ParsesAlways' /\ Parses(next[p])
    BY <1>9, TornParses DEF Truncate, ParseInv, EditorOK, ParsesAlways, Parses
  <2>2. QED
    BY <1>9, <2>1, MoveOK DEF Truncate
<1>10. CASE Fill(p)
  <2>1. ParsesAlways'
    BY <1>10, FillParses
  <2>2. req[p].op # "edit"
    BY <1>a DEF Streamed
  <2>3. QED
    BY <1>10, <2>1, <2>2, StopOK DEF Fill
<1>11. QED
  BY <1>1, <1>2, <1>3, <1>4, <1>5, <1>6, <1>7, <1>8, <1>9, <1>10 DEF Work

\* So does every failure.
LEMMA ParseFault ==
    ASSUME ParseInv, NEW p \in Procs, Fault(p)
    PROVE  ParseInv'
<1>1. CASE PutManFails(p)
  <2>1. ParsesAlways' /\ Stop(p)
    BY <1>1, SameParses DEF PutManFails, history
  <2>2. QED
    BY <2>1, StopOK
<1>2. CASE BackupFails(p)
  <2>1. ParsesAlways'
    BY <1>2, SameParses DEF BackupFails
  <2>2. Parses(next[p])
    BY <1>2 DEF BackupFails, ParseInv, EditorOK
  <2>3. CASE Stop(p)
    BY <2>1, <2>3, StopOK
  <2>4. CASE Goto(p, "unbacked") /\ UNCHANGED <<req, page, next>>
    BY <2>1, <2>2, <2>4, MoveOK
  <2>5. QED
    BY <1>2, <2>3, <2>4 DEF BackupFails
<1>3. CASE WriteFails(p)
  <2>1. ParsesAlways'
    <3>1. CASE UNCHANGED <<conf, spoilt>>
      BY <3>1, SameParses
    <3>2. CASE spoilt' = TRUE
      BY <3>2 DEF ParsesAlways
    <3>3. QED
      BY <1>3, <3>1, <3>2 DEF WriteFails
  <2>2. CASE Stop(p)
    BY <2>1, <2>2, StopOK
  <2>3. CASE Goto(p, "undo") /\ UNCHANGED <<req, page, next>>
    BY <2>1, <2>3, MoveOK
  <2>4. QED
    BY <1>3, <2>2, <2>3 DEF WriteFails
<1>4. CASE Kill(p)
  BY <1>4, SameParses, StopOK DEF Kill, disk, history
<1>5. QED
  BY <1>1, <1>2, <1>3, <1>4 DEF Fault

\* So does every step.
LEMMA ParseNext ==
    ASSUME WebOnly, ParseInv, [Next]_vars
    PROVE  ParseInv'
<1>1. CASE Reboot
  <2>1. "op" \in DOMAIN NoRequest /\ NoRequest.op \notin Streamed
    BY DEF NoRequest, Streamed
  <2>2. QED
    BY <1>1, <2>1, SameParses DEF Reboot, disk, history, ParseInv, EditorOK
<1>2. CASE UNCHANGED vars
  BY <1>2, SameParses DEF vars, disk, history, ParseInv, EditorOK, Parses
<1>3. QED
  BY <1>1, <1>2, ParseBegins, ParseSubmits, ParseWork, ParseFault DEF Next

\* Whatever the web server's editors interleave, and however many there are,
\* sites.conf parses at every moment until a write of it is laid over another
\* one or fails (writeAndValidateBlocks, handleConfSave, removeSiteLine).
THEOREM AlwaysParses ==
    ASSUME WebOnly, ContentsParse
    PROVE  Spec => []ParsesAlways
<1>1. Init => ParseInv
  BY ParseInit
<1>2. ParseInv /\ [Next]_vars => ParseInv'
  BY ParseNext
<1>3. ParseInv => ParsesAlways
  BY DEF ParseInv
<1>4. QED
  BY <1>1, <1>2, <1>3, PTL DEF Spec

(***************************************************************************)
(* A lone editor.                                                          *)
(***************************************************************************)

\* How one save of the lone editor changes the table.
Change(S, T) ==
    \/ T = S
    \/ \E f \in Fqdn : T = S \ {f} \/ T = S \cup {f}
    \/ \E d, e \in Domains : Renamed(S, T, d, e)
    \/ T \in Saves

\* What it found and what it is about to write.
LoneInv(p) ==
    /\ pc[p] \in {"stat", "putman", "parse", "remove", "backup", "truncate", "unbacked"} =>
           (req[p].op = "manualize" => req[p].site \in Fqdns(conf))
    /\ pc[p] \in {"stat", "putman", "undo"} => req[p].op = "manualize"
    /\ pc[p] = "append" => req[p].op # "manualize"
    /\ pc[p] \in {"backup", "truncate", "unbacked"} => Change(Fqdns(conf), Fqdns(next[p]))
    /\ pc[p] = "fill" => conf = <<>>

\* The lone editor begins.
LEMMA LoneBegins ==
    ASSUME NEW p, Procs = {p}, TypeInv, LoneInv(p), Begins(p)
    PROVE  LoneInv(p)'
<1>a. /\ conf \in Seq(Block) /\ req[p] \in Request
      /\ page[p] \in Seq(Block) /\ next[p] \in Seq(Block)
      /\ DOMAIN pc = {p} /\ DOMAIN req = {p} /\ DOMAIN page = {p} /\ DOMAIN next = {p}
  BY DEF TypeInv, TypeOK
<1>1. ASSUME NEW f \in Fqdn, BeginManualize(p, f) PROVE LoneInv(p)'
  <2> DEFINE r == [NoRequest EXCEPT !.op = "manualize", !.site = f]
  <2>1. r.op = "manualize" /\ r.site = f
    BY DEF NoRequest
  <2>2. Begin(p, r, "stat") /\ f \in Fqdns(conf)
    BY <1>1 DEF BeginManualize
  <2> HIDE DEF r
  <2>3. QED
    BY <1>a, <2>1, <2>2 DEF Begin, Goto, disk, LoneInv
<1>2. ASSUME NEW f \in Fqdn, NEW g \in Fqdn, NEW port \in BOOLEAN, BeginEdit(p, f, g, port)
      PROVE  LoneInv(p)'
  <2> DEFINE r == [NoRequest EXCEPT !.op = "edit", !.site = f, !.to = g, !.port = port]
  <2>1. r.op = "edit"
    BY DEF NoRequest
  <2>2. Begin(p, r, "parse")
    BY <1>2 DEF BeginEdit
  <2> HIDE DEF r
  <2>3. QED
    BY <1>a, <2>1, <2>2 DEF Begin, Goto, disk, LoneInv
<1>3. ASSUME NEW g \in Fqdn, NEW port \in BOOLEAN, BeginAdd(p, g, port) PROVE LoneInv(p)'
  <2> DEFINE r == [NoRequest EXCEPT !.op = "add", !.to = g, !.port = port]
  <2>1. r.op = "add"
    BY DEF NoRequest
  <2>2. Begin(p, r, "append")
    BY <1>3 DEF BeginAdd
  <2> HIDE DEF r
  <2>3. QED
    BY <1>a, <2>1, <2>2 DEF Begin, Goto, disk, LoneInv
<1>4. CASE LoadPage(p)
  BY <1>a, <1>4 DEF LoadPage, Goto, disk, LoneInv
<1>5. QED
  BY <1>1, <1>2, <1>3, <1>4 DEF Begins

\* The lone editor submits a text, or a group.
LEMMA LoneSubmits ==
    ASSUME NEW p, Procs = {p}, TypeInv, LoneInv(p), Submits(p)
    PROVE  LoneInv(p)'
<1>a. DOMAIN pc = {p} /\ DOMAIN req = {p} /\ DOMAIN next = {p} /\ req[p] \in Request
  BY DEF TypeInv, TypeOK
<1>1. ASSUME NEW t \in Submissions, SubmitConf(p, t) PROVE LoneInv(p)'
  <2>1. Parses(t) /\ next' = [next EXCEPT ![p] = t] /\ Goto(p, "backup") /\ UNCHANGED disk
    BY <1>1 DEF SubmitConf, Valid
  <2>a. req'[p].op = "conf"
    BY <1>a, <1>1 DEF SubmitConf, Request
  <2>2. Fqdns(t) \in Saves
    BY <2>1 DEF Saves
  <2>3. Change(Fqdns(conf), Fqdns(t))
    BY <2>2 DEF Change
  <2>4. QED
    BY <1>a, <2>1, <2>a, <2>3 DEF Goto, disk, LoneInv
<1>2. ASSUME NEW op \in {"group", "rename", "delete", "newgroup"}, NEW b \in 1 .. MaxBlocks,
             NEW d \in Domains, NEW machine \in BOOLEAN, SubmitGroup(p, op, b, d, machine)
      PROVE  LoneInv(p)'
  <2>1. Goto(p, "regroup")
    BY <1>2 DEF SubmitGroup
  <2>2. QED
    BY <1>a, <2>1 DEF Goto, LoneInv
<1>3. QED
  BY <1>1, <1>2 DEF Submits

\* An editor that ends or gives up.
LEMMA LoneStop ==
    ASSUME NEW p, Procs = {p}, TypeInv, Stop(p)
    PROVE  LoneInv(p)'
BY DEF TypeInv, TypeOK, Stop, Goto, LoneInv

\* The lone editor gives up, perhaps after it wrote a manual file.
LEMMA LoneRefuse ==
    ASSUME NEW p, Procs = {p}, TypeInv, Refuse(p)
    PROVE  LoneInv(p)'
<1>1. CASE Stop(p)
  BY <1>1, LoneStop
<1>2. CASE req[p].op = "manualize" /\ Goto(p, "undo") /\ UNCHANGED <<req, page, next>>
  BY <1>2 DEF TypeInv, TypeOK, Goto, LoneInv
<1>3. QED
  BY <1>1, <1>2 DEF Refuse

\* The lone editor's own steps find the table it has left.
LEMMA LoneWork ==
    ASSUME NEW p, Procs = {p}, TypeInv, LoneInv(p), Work(p)
    PROVE  LoneInv(p)'
<1>a. /\ conf \in Seq(Block) /\ req[p] \in Request
      /\ page[p] \in Seq(Block) /\ next[p] \in Seq(Block)
      /\ DOMAIN pc = {p} /\ DOMAIN req = {p} /\ DOMAIN page = {p} /\ DOMAIN next = {p}
  BY DEF TypeInv, TypeOK
<1>b. req[p].site \in Fqdn /\ req[p].to \in Fqdn /\ req[p].port \in BOOLEAN /\ req[p].gi \in Nat
  BY <1>a DEF Request
<1>1. CASE Stat(p)
  BY <1>a, <1>1, LoneStop DEF Stat, Goto, disk, LoneInv
<1>2. CASE PutMan(p)
  BY <1>a, <1>2 DEF PutMan, Goto, LoneInv
<1>3. CASE ParseIndex(p)
  <2> DEFINE at == {b \in DOMAIN conf : Holds(conf, b, req[p].site)}
             i  == CHOOSE b \in at : \A c \in at : b <= c
  <2>1. CASE Refuse(p)
    BY <2>1, LoneRefuse
  <2>2. CASE /\ req' = [req EXCEPT ![p].gi = i]
             /\ Goto(p, "remove")
             /\ UNCHANGED <<disk, page, next, history>>
    <3> DEFINE r == [req[p] EXCEPT !.gi = i]
    <3>1. r.op = req[p].op /\ r.site = req[p].site
      <4> HIDE DEF i
      <4>1. QED
        BY <1>a DEF Request
    <3>2. req' = [req EXCEPT ![p] = r]
      BY <2>2
    <3> HIDE DEF r
    <3>3. QED
      BY <1>a, <1>3, <2>2, <3>1, <3>2 DEF ParseIndex, Goto, disk, LoneInv
  <2>3. QED
    BY <1>3, <2>1, <2>2 DEF ParseIndex
<1>4. CASE RemoveLine(p)
  <2> DEFINE t == Taken(conf, req[p].gi, req[p].site[1])
             f == <<req[p].site[1], conf[req[p].gi].dom>>
  <2>1. CASE Refuse(p)
    BY <2>1, LoneRefuse
  <2>2. CASE /\ next' = [next EXCEPT ![p] = t]
             /\ Goto(p, "backup")
             /\ UNCHANGED <<disk, req, page, history>>
    <3>1. req[p].gi # 0
      BY <1>4 DEF RemoveLine, TypeInv, Indexed
    <3>2. t # conf => /\ f \in Fqdns(conf)
                      /\ Fqdns(t) \subseteq Fqdns(conf) /\ Fqdns(conf) \subseteq Fqdns(t) \cup {f}
      <4>1. req[p].site[1] \in Names
        BY <1>b DEF Fqdn
      <4>2. QED
        BY <1>a, <1>b, <3>1, <4>1, SiteTaken
    <3>3. f \in Fqdns(conf) => f \in Fqdn
      BY DEF Fqdns
    <3> HIDE DEF t, f
    <3>4. Change(Fqdns(conf), Fqdns(t))
      <4>1. f \in Fqdns(t) \/ t = conf => Fqdns(t) = Fqdns(conf)
        BY <3>2
      <4>2. ~(f \in Fqdns(t) \/ t = conf) => Fqdns(t) = Fqdns(conf) \ {f} /\ f \in Fqdn
        BY <3>2, <3>3
      <4>3. QED
        BY <4>1, <4>2 DEF Change
    <3>5. QED
      BY <1>a, <1>4, <2>2, <3>4 DEF RemoveLine, Goto, disk, LoneInv
  <2>3. QED
    BY <1>4, <2>1, <2>2 DEF RemoveLine, Taken
<1>5. CASE Undo(p)
  BY <1>5, LoneStop DEF Undo
<1>6. CASE AppendLine(p)
  <2>1. Change(Fqdns(conf), Fqdns(AddLine(conf, req[p].to, req[p].port)))
    BY <1>a, <1>b, LineAdded DEF Change
  <2>2. QED
    BY <1>a, <1>6, <2>1 DEF AppendLine, Goto, disk, LoneInv
<1>7. CASE Regroup(p)
  <2> DEFINE t == Regrouped(conf, req[p])
  <2>1. CASE Refuse(p)
    BY <2>1, LoneRefuse
  <2>2. CASE /\ ~GroupRefused(conf, req[p])
             /\ next' = [next EXCEPT ![p] = t]
             /\ Goto(p, "backup")
             /\ UNCHANGED <<disk, req, page, history>>
    <3>1. req[p].op \in GroupOps
      BY <1>7 DEF Regroup, TypeInv, Indexed
    <3>2. \/ Fqdns(t) = Fqdns(conf)
          \/ \E d, e \in Domains : Renamed(Fqdns(conf), Fqdns(t), d, e)
      BY <1>a, <2>2, <3>1, GroupsSaved
    <3> HIDE DEF t
    <3>3. Change(Fqdns(conf), Fqdns(t))
      BY <3>2 DEF Change
    <3>4. QED
      BY <1>a, <2>2, <3>1, <3>3 DEF Goto, disk, LoneInv, GroupOps
  <2>3. QED
    BY <1>7, <2>1, <2>2 DEF Regroup, Regroups
<1>8. CASE Backup(p)
  BY <1>a, <1>8 DEF Backup, Goto, LoneInv
<1>9. CASE Truncate(p)
  BY <1>a, <1>9 DEF Truncate, Goto, LoneInv
<1>10. CASE Fill(p)
  <2>1. CASE Stop(p)
    BY <2>1, LoneStop
  <2>2. CASE req' = [req EXCEPT ![p].op = "readd"] /\ Goto(p, "append")
    <3>1. req'[p].op = "readd" /\ pc'[p] = "append"
      BY <1>a, <2>2 DEF Request, Goto
    <3>2. QED
      BY <3>1 DEF LoneInv
  <2>3. QED
    BY <1>10, <2>1, <2>2 DEF Fill
<1>11. QED
  BY <1>1, <1>2, <1>3, <1>4, <1>5, <1>6, <1>7, <1>8, <1>9, <1>10 DEF Work

\* The lone editor's failures leave it where it ends or takes a move back.
LEMMA LoneFault ==
    ASSUME NEW p, Procs = {p}, TypeInv, LoneInv(p), Fault(p)
    PROVE  LoneInv(p)'
<1>a. DOMAIN pc = {p}
  BY DEF TypeInv, TypeOK
<1>1. CASE Stop(p)
  BY <1>1, LoneStop
<1>2. CASE pc[p] = "backup" /\ Goto(p, "unbacked") /\ UNCHANGED <<conf, req, next>>
  BY <1>a, <1>2 DEF Goto, LoneInv
<1>3. CASE req[p].op = "manualize" /\ Goto(p, "undo") /\ UNCHANGED req
  BY <1>a, <1>3 DEF Goto, LoneInv
<1>4. QED
  <2>1. CASE PutManFails(p)
    BY <1>1, <2>1 DEF PutManFails
  <2>2. CASE BackupFails(p)
    BY <1>1, <1>2, <2>2 DEF BackupFails
  <2>3. CASE WriteFails(p)
    BY <1>1, <1>3, <2>3 DEF WriteFails
  <2>4. CASE Kill(p)
    BY <1>1, <2>4 DEF Kill
  <2>5. QED
    BY <2>1, <2>2, <2>3, <2>4 DEF Fault

\* Every step of a lone editor keeps LoneInv.
LEMMA LoneNext ==
    ASSUME NEW p, Procs = {p}, TypeInv, LoneInv(p), [Next]_vars
    PROVE  LoneInv(p)'
<1>1. CASE Reboot
  BY <1>1 DEF Reboot, LoneInv
<1>2. CASE UNCHANGED vars
  BY <1>2 DEF vars, disk, LoneInv, Change
<1>3. QED
  BY <1>1, <1>2, LoneBegins, LoneSubmits, LoneWork, LoneFault DEF Next

\* What the registry's table is while the lone editor p is at work, before and
\* after a step.
LEMMA LoneTable ==
    ASSUME NEW p, Procs = {p}
    PROVE  /\ Table = IF pc[p] = "fill" THEN Fqdns(next[p]) ELSE Fqdns(conf)
           /\ Table' = IF pc'[p] = "fill" THEN Fqdns(next'[p]) ELSE Fqdns(conf')
<1>1. /\ Torn = IF pc[p] = "fill" THEN {p} ELSE {}
      /\ Torn' = IF pc'[p] = "fill" THEN {p} ELSE {}
  BY DEF Torn
<1>2. (CHOOSE q \in {p} : TRUE) = p
  OBVIOUS
<1>3. QED
  BY <1>1, <1>2 DEF Table

\* And its phase.
LEMMA LonePhase ==
    ASSUME NEW p, Procs = {p}
    PROVE  /\ Phase = IF pc[p] = "fill" THEN "saving"
                      ELSE IF pc[p] = "undo" /\ req[p].site \notin Table THEN "failed" ELSE "rest"
           /\ Phase' = IF pc'[p] = "fill" THEN "saving"
                       ELSE IF pc'[p] = "undo" /\ req'[p].site \notin Table' THEN "failed"
                       ELSE "rest"
<1>1. /\ Torn = IF pc[p] = "fill" THEN {p} ELSE {}
      /\ Torn' = IF pc'[p] = "fill" THEN {p} ELSE {}
  BY DEF Torn
<1>2. QED
  BY <1>1 DEF Phase

\* A step that leaves manconf/ alone leaves the registry's hand-written sites
\* as a change of its table does.
LEMMA RegistryBecomes ==
    ASSUME UNCHANGED man
    PROVE  Registry!Become(Table')
<1>1. man \cap (Table \ Table') \in SUBSET (Table \ Table')
  OBVIOUS
<1>2. (man \ Table)' = ((man \ Table) \cup (man \cap (Table \ Table'))) \ Table'
  OBVIOUS
<1>3. QED
  BY <1>1, <1>2 DEF Registry!Become

\* The editor's step begins a save of the registry when it changes the table as
\* a save may and leaves manconf/ alone.
LEMMA RegistryBegin ==
    ASSUME Change(Table, Table'), UNCHANGED man, Phase = "rest", Phase' = "saving"
    PROVE  Registry!Next
<1>a. SUFFICES Registry!Begin
  BY DEF Registry!Next
<1>1. CASE Table' = Table
  <2>1. Registry!Rewrite
    BY <1>1 DEF Registry!Rewrite
  <2>2. QED
    BY <2>1 DEF Registry!Begin
<1>2. ASSUME NEW f \in Fqdn, Table' = Table \cup {f} PROVE Registry!Begin
  <2>1. Registry!Add(f)
    BY <1>2, RegistryBecomes DEF Registry!Add
  <2>2. QED
    BY <2>1 DEF Registry!Begin, Registry!Site, Fqdn
<1>3. ASSUME NEW f \in Fqdn, Table' = Table \ {f}, f \in Table PROVE Registry!Begin
  <2>1. CASE f \in man
    <3>1. Registry!ToManual(f)
      BY <1>3, <2>1 DEF Registry!ToManual
    <3>2. QED
      BY <3>1 DEF Registry!Begin, Registry!Site, Fqdn
  <2>2. CASE f \notin man
    <3>1. Registry!Remove(f)
      BY <1>3, <2>2 DEF Registry!Remove
    <3>2. QED
      BY <3>1 DEF Registry!Begin, Registry!Site, Fqdn
  <2>3. QED
    BY <2>1, <2>2
<1>4. ASSUME NEW d \in Domains, NEW e \in Domains, Renamed(Table, Table', d, e)
      PROVE  Registry!Begin
  <2>1. PICK ns \in SUBSET Names, gone \in SUBSET Names :
            /\ ns \X {d} \subseteq Table /\ gone \subseteq ns
            /\ Table' = (Table \ (gone \X {d})) \cup (ns \X {e})
    BY <1>4 DEF Renamed
  <2>2. Registry!Rename(ns, gone, d, e)
    BY <2>1, RegistryBecomes DEF Registry!Rename
  <2>3. QED
    BY <2>2 DEF Registry!Begin
<1>5. CASE Table' \in Saves
  <2>1. Registry!Save
    BY <1>5, RegistryBecomes DEF Registry!Save
  <2>2. QED
    BY <2>1 DEF Registry!Begin
<1>6. ASSUME NEW f \in Fqdn, Table' = Table \ {f}
      PROVE  Table' = Table \/ Registry!Begin
  BY <1>3, <1>6
<1>7. QED
  BY <1>1, <1>2, <1>4, <1>5, <1>6 DEF Change

\* What an interrupted or failed write loses.
LEMMA RegistryLoss ==
    ASSUME Table' \subseteq Table, UNCHANGED man, Phase = "saving", Phase' \in {"rest", "failed"}
    PROVE  Registry!Next
<1>1. Registry!Lose
  BY RegistryBecomes DEF Registry!Lose
<1>2. QED
  BY <1>1 DEF Registry!Next

\* A save ends, or nothing takes back what one that failed has left.
LEMMA RegistryEnd ==
    ASSUME Table' = Table, UNCHANGED man, Phase' = "rest", Phase \in {"rest", "saving", "failed"}
    PROVE  [Registry!Next]_<<Table, man \ Table, Phase>>
<1>1. CASE Phase = "rest"
  BY <1>1
<1>2. CASE Phase # "rest"
  <2>1. Registry!End
    BY <1>2 DEF Registry!End
  <2>2. QED
    BY <2>1 DEF Registry!Next
<1>3. QED
  BY <1>1, <1>2

\* Every step of the lone editor is a step of the registry or none.
LEMMA RegistryNext ==
    ASSUME NEW p, Procs = {p}, TypeInv, LoneInv(p), [Next]_vars
    PROVE  [Registry!Next]_<<Table, man \ Table, Phase>>
<1>a. DOMAIN pc = {p} /\ DOMAIN req = {p} /\ DOMAIN page = {p} /\ DOMAIN next = {p}
  BY DEF TypeInv, TypeOK
<1>b. Table = IF pc[p] = "fill" THEN Fqdns(next[p]) ELSE Fqdns(conf)
  BY LoneTable
<1>c. Table' = IF pc'[p] = "fill" THEN Fqdns(next'[p]) ELSE Fqdns(conf')
  BY LoneTable
<1>d. Phase = IF pc[p] = "fill" THEN "saving"
              ELSE IF pc[p] = "undo" /\ req[p].site \notin Table THEN "failed" ELSE "rest"
  BY LonePhase
<1>e. Phase' = IF pc'[p] = "fill" THEN "saving"
               ELSE IF pc'[p] = "undo" /\ req'[p].site \notin Table' THEN "failed" ELSE "rest"
  BY LonePhase
<1>1. ASSUME pc[p] # "fill", UNCHANGED <<conf, man>>,
             pc'[p] \notin {"fill", "undo"} \/ (pc'[p] = "undo" /\ req'[p].site \in Fqdns(conf))
      PROVE  [Registry!Next]_<<Table, man \ Table, Phase>>
  <2>1. Table' = Table
    BY <1>1, <1>b, <1>c
  <2>2. Phase' = "rest" /\ Phase \in {"rest", "saving", "failed"}
    BY <1>1, <1>c, <1>d, <1>e
  <2>3. QED
    BY <1>1, <2>1, <2>2, RegistryEnd
<1>2. CASE Begins(p)
  <2>1. pc[p] = "idle" /\ UNCHANGED <<conf, man>>
    BY <1>2 DEF Begins, BeginManualize, BeginEdit, BeginAdd, Begin, LoadPage, disk
  <2>2. \E l \in Label \ {"fill", "undo"} : Goto(p, l)
    BY <1>2 DEF Begins, BeginManualize, BeginEdit, BeginAdd, Begin, LoadPage, Label
  <2>3. pc'[p] \notin {"fill", "undo"}
    BY <1>a, <2>2 DEF Goto
  <2>4. QED
    BY <1>1, <2>1, <2>3
<1>3. CASE Submits(p)
  <2>1. pc[p] = "page" /\ UNCHANGED <<conf, man>>
    BY <1>3 DEF Submits, SubmitConf, SubmitGroup, disk
  <2>2. \E l \in Label \ {"fill", "undo"} : Goto(p, l)
    BY <1>3 DEF Submits, SubmitConf, SubmitGroup, Label
  <2>3. pc'[p] \notin {"fill", "undo"}
    BY <1>a, <2>2 DEF Goto
  <2>4. QED
    BY <1>1, <2>1, <2>3
<1>4. CASE Stat(p) \/ ParseIndex(p) \/ RemoveLine(p) \/ AppendLine(p) \/ Regroup(p)
  <2>1. ASSUME Refuse(p), pc[p] \in {"parse", "remove", "regroup"}
        PROVE  pc'[p] = "idle" \/ (pc'[p] = "undo" /\ req'[p].site \in Fqdns(conf))
    <3>1. CASE req[p].op = "manualize"
      <4>1. pc[p] # "regroup"
        BY <3>1 DEF TypeInv, Indexed, GroupOps
      <4>2. req[p].site \in Fqdns(conf)
        BY <2>1, <3>1, <4>1 DEF LoneInv
      <4>3. QED
        BY <1>a, <2>1, <3>1, <4>2 DEF Refuse, Goto
    <3>2. CASE req[p].op # "manualize"
      BY <1>a, <2>1, <3>2 DEF Refuse, Stop, Goto
    <3>3. QED
      BY <3>1, <3>2
  <2>2. pc[p] # "fill" /\ UNCHANGED <<conf, man>>
    BY <1>4 DEF Stat, ParseIndex, RemoveLine, AppendLine, Regroup, Refuse, disk
  <2>3. CASE ParseIndex(p)
    BY <1>a, <1>1, <2>1, <2>2, <2>3 DEF ParseIndex, Goto
  <2>4. CASE RemoveLine(p)
    BY <1>a, <1>1, <2>1, <2>2, <2>4 DEF RemoveLine, Goto
  <2>5. CASE Regroup(p)
    BY <1>a, <1>1, <2>1, <2>2, <2>5 DEF Regroup, Goto
  <2>6. CASE Stat(p) \/ AppendLine(p)
    BY <1>a, <1>1, <2>2, <2>6 DEF Stat, AppendLine, Stop, Goto
  <2>7. QED
    BY <1>4, <2>3, <2>4, <2>5, <2>6
<1>5. CASE Backup(p) \/ BackupFails(p)
  <2>1. pc[p] # "fill" /\ UNCHANGED <<conf, man>>
    BY <1>5 DEF Backup, BackupFails
  <2>2. pc'[p] \notin {"fill", "undo"}
    BY <1>a, <1>5 DEF Backup, BackupFails, Stop, Goto
  <2>3. QED
    BY <1>1, <2>1, <2>2
<1>6. CASE PutMan(p) \/ PutManFails(p)
  <2>1. req[p].site \in Fqdns(conf) /\ conf' = conf
    BY <1>6 DEF PutMan, PutManFails, LoneInv
  <2>2. Table' = Table /\ req[p].site \in Table
    BY <1>a, <1>b, <1>c, <1>6, <2>1 DEF PutMan, PutManFails, Stop, Goto
  <2>3. man' \in {man, man \cup {req[p].site}}
    BY <1>6 DEF PutMan, PutManFails
  <2>4. Phase' = Phase
    BY <1>a, <1>d, <1>e, <1>6 DEF PutMan, PutManFails, Stop, Goto
  <2>5. QED
    BY <2>2, <2>3, <2>4
<1>7. CASE Undo(p)
  <2>1. conf' = conf /\ man' = man \ {req[p].site} /\ pc[p] = "undo" /\ pc'[p] = "idle"
    BY <1>a, <1>7 DEF Undo, Stop, Goto
  <2>2. Table' = Table /\ Phase' = "rest"
    BY <1>b, <1>c, <1>e, <2>1
  <2>3. CASE req[p].site \in Table
    <3>1. Phase = "rest" /\ (man \ Table)' = man \ Table
      BY <1>d, <2>1, <2>2, <2>3
    <3>2. QED
      BY <2>2, <3>1
  <2>4. CASE req[p].site \notin Table
    <3>1. Phase = "failed"
      BY <1>d, <2>1, <2>4
    <3>2. req[p].site \in Fqdn
      BY DEF TypeInv, TypeOK, Request
    <3>3. Registry!Withdraw(req[p].site)
      BY <2>1, <2>2, <3>1 DEF Registry!Withdraw
    <3>4. QED
      BY <3>2, <3>3 DEF Registry!Next, Registry!Site, Fqdn
  <2>5. QED
    BY <2>3, <2>4
<1>8. CASE Truncate(p)
  <2>1. pc[p] \in {"truncate", "unbacked"} /\ pc'[p] = "fill" /\ next' = next /\ man' = man
    BY <1>a, <1>8 DEF Truncate, Goto
  <2>2. Table = Fqdns(conf) /\ Table' = Fqdns(next[p]) /\ Phase = "rest" /\ Phase' = "saving"
    BY <1>b, <1>c, <1>d, <1>e, <2>1
  <2>3. Change(Table, Table')
    BY <2>1, <2>2 DEF LoneInv
  <2>4. QED
    BY <2>1, <2>2, <2>3, RegistryBegin
<1>9. CASE Fill(p)
  <2>1. conf = <<>> /\ conf' \in Overlaid(next[p], conf) /\ pc[p] = "fill" /\ man' = man
    BY <1>9 DEF Fill, LoneInv
  <2>2. conf' = next[p]
    BY <2>1, OverlaidAlone
  <2>3. pc'[p] \in {"idle", "append"}
    BY <1>a, <1>9 DEF Fill, Stop, Goto
  <2>4. Table = Fqdns(next[p]) /\ Table' = Fqdns(next[p]) /\ Phase = "saving" /\ Phase' = "rest"
    BY <1>b, <1>c, <1>d, <1>e, <2>1, <2>2, <2>3
  <2>5. QED
    BY <2>1, <2>4, RegistryEnd
<1>10. CASE WriteFails(p)
  <2>1. pc'[p] \in {"idle", "undo"} /\ man' = man
    BY <1>a, <1>10 DEF WriteFails, Stop, Goto
  <2>2. CASE pc[p] = "fill"
    <3>1. conf = <<>> /\ conf' \in UNION {Overlaid(t, conf) : t \in Cut(next[p])}
      BY <1>10, <2>2 DEF WriteFails, LoneInv
    <3>2. PICK t \in Cut(next[p]) : conf' \in Overlaid(t, conf)
      BY <3>1
    <3>3. conf' = t
      BY <3>1, <3>2, OverlaidAlone
    <3>4. Fqdns(conf') \subseteq Fqdns(next[p])
      <4>1. next[p] \in Seq(Block)
        BY DEF TypeInv, TypeOK
      <4>2. QED
        BY <3>3, <4>1, TextCut
    <3>5. Table' \subseteq Table
      BY <1>b, <1>c, <2>1, <2>2, <3>4
    <3>6. Phase = "saving" /\ Phase' \in {"rest", "failed"}
      BY <1>d, <1>e, <2>1, <2>2
    <3>7. QED
      BY <2>1, <3>5, <3>6, RegistryLoss
  <2>3. CASE pc[p] \in {"truncate", "unbacked"} /\ conf' = conf
    <3>1. CASE req[p].op = "manualize"
      <4>1. req[p].site \in Fqdns(conf)
        BY <2>3, <3>1 DEF LoneInv
      <4>2. pc'[p] = "undo" /\ req' = req
        BY <1>a, <1>10, <3>1 DEF WriteFails, Goto
      <4>3. QED
        BY <1>1, <2>1, <2>3, <4>1, <4>2
    <3>2. CASE req[p].op # "manualize"
      <4>1. pc'[p] = "idle"
        BY <1>a, <1>10, <3>2 DEF WriteFails, Stop, Goto
      <4>2. QED
        BY <1>1, <2>1, <2>3, <4>1
    <3>3. QED
      BY <3>1, <3>2
  <2>4. QED
    BY <1>10, <2>2, <2>3 DEF WriteFails
<1>11. ASSUME pc'[p] = "idle", UNCHANGED <<conf, man>>
       PROVE  [Registry!Next]_<<Table, man \ Table, Phase>>
  <2>1. CASE pc[p] = "fill"
    <3>1. Table' = {} /\ Phase = "saving" /\ Phase' = "rest"
      BY <1>c, <1>d, <1>e, <1>11, <2>1, EmptyFqdns DEF LoneInv
    <3>2. QED
      BY <1>11, <3>1, RegistryLoss
  <2>2. CASE pc[p] # "fill"
    BY <1>1, <1>11, <2>2
  <2>3. QED
    BY <2>1, <2>2
<1>12. CASE Kill(p) \/ Reboot
  BY <1>a, <1>11, <1>12 DEF Kill, Reboot, Stop, Goto, disk
<1>13. CASE UNCHANGED vars
  <2>1. Table' = Table /\ man' = man /\ pc' = pc /\ req' = req
    BY <1>b, <1>c, <1>13 DEF vars, disk
  <2>2. Phase' = Phase
    BY <1>d, <1>e, <2>1
  <2>3. QED
    BY <2>1, <2>2
<1>14. QED
  BY <1>2, <1>3, <1>4, <1>5, <1>6, <1>7, <1>8, <1>9, <1>10, <1>12, <1>13 DEF Next, Work, Fault

\* LoneInv and the registry's initial condition hold at first.
LEMMA LoneInit ==
    ASSUME NEW p, Procs = {p}, Init
    PROVE  LoneInv(p) /\ Registry!Init
<1>1. pc[p] = "idle" /\ Table = Fqdns(conf)
  BY LoneTable DEF Init
<1>2. man \subseteq Fqdn /\ Fqdns(conf) \subseteq Fqdn
  BY DEF Init, Fqdns
<1>3. QED
  BY <1>1, <1>2, LonePhase DEF LoneInv, Registry!Init, Registry!Site, Fqdn

\* A lone editor, whatever it does, whatever text it is given to save, wherever
\* it is killed or the host goes down and whichever of its writes fails,
\* implements the registry.
THEOREM LoneEditorImplements ==
    ASSUME NEW p, Procs = {p}
    PROVE  Spec => ImplementsRegistry
<1>1. Init => LoneInv(p) /\ Registry!Init
  BY LoneInit
<1>2. TypeInv /\ LoneInv(p) /\ [Next]_vars => LoneInv(p)' /\ [Registry!Next]_<<Table, man \ Table, Phase>>
  BY LoneNext, RegistryNext
<1>3. QED
  BY <1>1, <1>2, TypeInvariant, PTL DEF Spec, ImplementsRegistry, Registry!Spec

\* What keeps the text that was found or written: between the truncation and
\* the end of the save the backup has it, and edit-site leaves its backup
\* alone when it goes on to add.
KeptInv(p) ==
    /\ ~bare => whole \in {conf, bak}
    /\ ~bare /\ pc[p] \in {"truncate", "fill"} => whole = bak
    /\ pc[p] = "append" => req[p].op \in {"add", "readd"}
    /\ ~bare /\ pc[p] = "append" /\ req[p].op = "readd" => whole = bak

\* Every step of a lone editor keeps KeptInv.
LEMMA KeptNext ==
    ASSUME NEW p, Procs = {p}, TypeInv, LoneInv(p), KeptInv(p), [Next]_vars
    PROVE  KeptInv(p)'
<1>a. DOMAIN pc = {p} /\ DOMAIN req = {p} /\ req[p] \in Request /\ bare \in BOOLEAN
  BY DEF TypeInv, TypeOK
<1>1. ASSUME UNCHANGED <<conf, bak, whole, bare>>, pc'[p] \notin {"truncate", "fill", "append"}
      PROVE  KeptInv(p)'
  BY <1>1 DEF KeptInv
<1>2. CASE Begins(p)
  <2>1. ASSUME NEW g \in Fqdn, NEW port \in BOOLEAN, BeginAdd(p, g, port) PROVE KeptInv(p)'
    <3> DEFINE r == [NoRequest EXCEPT !.op = "add", !.to = g, !.port = port]
    <3>1. r.op = "add"
      BY DEF NoRequest
    <3>2. Begin(p, r, "append")
      BY <2>1 DEF BeginAdd
    <3> HIDE DEF r
    <3>3. QED
      BY <1>a, <3>1, <3>2 DEF Begin, Goto, disk, history, KeptInv
  <2>2. CASE \/ \E f \in Fqdn : BeginManualize(p, f)
             \/ \E f, g \in Fqdn, port \in BOOLEAN : BeginEdit(p, f, g, port)
             \/ LoadPage(p)
    BY <1>a, <1>1, <2>2 DEF BeginManualize, BeginEdit, Begin, LoadPage, Goto, disk, history
  <2>3. QED
    BY <1>2, <2>1, <2>2 DEF Begins
<1>3. CASE Submits(p)
  <2>1. UNCHANGED <<disk, history>> /\ (Goto(p, "backup") \/ Goto(p, "regroup"))
    BY <1>3 DEF Submits, SubmitConf, SubmitGroup
  <2>2. UNCHANGED <<conf, bak, whole, bare>>
    BY <2>1 DEF disk, history
  <2>3. pc'[p] \in {"backup", "regroup"}
    BY <1>a, <2>1 DEF Goto
  <2>4. QED
    BY <1>1, <2>2, <2>3
<1>4. CASE Stat(p) \/ PutMan(p) \/ ParseIndex(p) \/ RemoveLine(p) \/ Undo(p) \/ Regroup(p)
  BY <1>a, <1>1, <1>4 DEF Stat, PutMan, ParseIndex, RemoveLine, Undo, Regroup, Refuse, Stop, Goto,
                          disk, history
<1>5. CASE AppendLine(p)
  <2>1. UNCHANGED <<conf, bak, whole, bare>> /\ pc[p] = "append"
    BY <1>5 DEF AppendLine, disk, history
  <2>2. CASE req[p].op = "add"
    <3>1. pc'[p] = "unbacked"
      BY <1>a, <1>5, <2>2 DEF AppendLine, Goto
    <3>2. QED
      BY <1>1, <2>1, <3>1
  <2>3. CASE req[p].op = "readd"
    <3>1. pc'[p] = "truncate"
      BY <1>a, <1>5, <2>3 DEF AppendLine, Goto
    <3>2. QED
      BY <2>1, <2>3, <3>1 DEF KeptInv
  <2>4. QED
    BY <2>1, <2>2, <2>3 DEF KeptInv
<1>6. CASE Backup(p)
  BY <1>a, <1>6 DEF Backup, Goto, KeptInv
<1>7. CASE BackupFails(p)
  <2>1. whole' = conf' /\ bare' = FALSE
    BY <1>7 DEF BackupFails
  <2>2. pc'[p] \in {"idle", "unbacked"}
    BY <1>a, <1>7 DEF BackupFails, Stop, Goto
  <2>3. QED
    BY <2>1, <2>2 DEF KeptInv
<1>8. CASE Truncate(p)
  <2>1. /\ bare' = (bare \/ pc[p] = "unbacked") /\ pc'[p] = "fill"
        /\ UNCHANGED <<bak, whole>> /\ pc[p] \in {"truncate", "unbacked"}
    BY <1>a, <1>8 DEF Truncate, Goto
  <2>2. CASE pc[p] = "unbacked"
    BY <2>1, <2>2 DEF KeptInv
  <2>3. CASE pc[p] = "truncate"
    <3>1. bare' = bare
      BY <1>a, <2>1, <2>3
    <3>2. QED
      BY <2>1, <2>3, <3>1 DEF KeptInv
  <2>4. QED
    BY <2>1, <2>2, <2>3
<1>9. CASE Fill(p)
  <2>1. conf = <<>> /\ conf' \in Overlaid(next[p], conf) /\ bak' = bak /\ pc[p] = "fill"
    BY <1>9 DEF Fill, LoneInv
  <2>2. conf' = next[p]
    BY <2>1, OverlaidAlone
  <2>3. CASE whole' = next[p] /\ Stop(p)
    BY <1>a, <2>2, <2>3 DEF Stop, Goto, KeptInv
  <2>4. CASE req' = [req EXCEPT ![p].op = "readd"] /\ Goto(p, "append") /\ UNCHANGED <<whole, bare>>
    <3> DEFINE r == [req[p] EXCEPT !.op = "readd"]
    <3>1. r.op = "readd"
      BY <1>a DEF Request
    <3>2. req' = [req EXCEPT ![p] = r]
      BY <2>4
    <3> HIDE DEF r
    <3>3. ~bare => whole = bak
      BY <2>1 DEF KeptInv
    <3>4. QED
      BY <1>a, <2>1, <2>4, <3>1, <3>2, <3>3 DEF Goto, KeptInv
  <2>5. QED
    BY <1>9, <2>3, <2>4 DEF Fill
<1>10. CASE WriteFails(p)
  <2>1. pc'[p] \in {"idle", "undo"} /\ UNCHANGED <<bak, whole, bare>>
    BY <1>a, <1>10 DEF WriteFails, Stop, Goto
  <2>2. CASE pc[p] = "fill"
    BY <2>1, <2>2 DEF KeptInv
  <2>3. CASE conf' = conf
    BY <1>1, <2>1, <2>3
  <2>4. QED
    BY <1>10, <2>2, <2>3 DEF WriteFails
<1>11. CASE PutManFails(p) \/ Kill(p) \/ Reboot
  BY <1>a, <1>1, <1>11 DEF PutManFails, Kill, Reboot, Stop, Goto, disk, history
<1>12. CASE UNCHANGED vars
  BY <1>12 DEF vars, disk, history, KeptInv
<1>13. QED
  BY <1>2, <1>3, <1>4, <1>5, <1>6, <1>7, <1>8, <1>9, <1>10, <1>11, <1>12 DEF Next, Work, Fault

\* Wherever a lone editor's save is cut off, and whether its writes fail or
\* not, the text it found or the text it wrote is in sites.conf or in
\* sites.conf.bak, unless it truncated the file without a backup of it: after
\* a backup that failed, or for add.
THEOREM LoneEditorRecoverable ==
    ASSUME NEW p, Procs = {p}
    PROVE  Spec => []Recoverable
<1>1. Init => LoneInv(p) /\ KeptInv(p)
  BY LoneInit DEF Init, KeptInv
<1>2. TypeInv /\ LoneInv(p) /\ KeptInv(p) /\ [Next]_vars => LoneInv(p)' /\ KeptInv(p)'
  BY LoneNext, KeptNext
<1>3. KeptInv(p) => Recoverable
  BY DEF KeptInv, Recoverable
<1>4. QED
  BY <1>1, <1>2, <1>3, TypeInvariant, PTL DEF Spec

(***************************************************************************)
(* Several editors lose no site.                                           *)
(***************************************************************************)

\* Any number of editors that move sites to manconf/ and save groups, each
\* with its own sites, and neither a crash nor a write that fails.
MovesAndSaves ==
    /\ ~Faults
    /\ \A p \in Procs : Ops[p] \subseteq {"manualize", "group"}
    /\ \A p, q \in Procs : p # q => Targets[p] \cap Targets[q] = {}

\* Every text there is has the same groups, or none.
Texts == {conf} \cup {page[p] : p \in Procs} \cup {next[p] : p \in Procs}
SameGroups(t, u) == DOMAIN t = DOMAIN u /\ \A b \in DOMAIN t : t[b].dom = u[b].dom
Alike == \A t, u \in Texts : DOMAIN t # {} /\ DOMAIN u # {} => SameGroups(t, u)
GroupAt(b, dom) == \A t \in Texts : b \in DOMAIN t => t[b].dom = dom

Removing == {"parse", "remove", "undo"}
Saving == {"backup", "truncate", "unbacked", "fill"}

MoveInv(p) ==
    /\ pc[p] # "append" /\ req[p].op \in {"manualize", "group"}
    /\ pc[p] \in {"stat", "putman"} \cup Removing => req[p].op = "manualize"
    /\ req[p].op = "manualize" => req[p].site \in Targets[p]
    /\ pc[p] = "putman" => req[p].site \notin man
    /\ pc[p] \in Removing => req[p].site \in man
    /\ pc[p] = "regroup" => req[p].op = "group" /\ GroupAt(req[p].gi, req[p].dom)
    /\ pc[p] = "remove" => GroupAt(req[p].gi, req[p].site[2])

\* A site is in manconf/ for good; or it is in the table and in every text
\* that may become the table.
SiteKept(k) ==
    \/ k \in man /\ \A q \in Procs : pc[q] \in Removing => req[q].site # k
    \/ /\ k \in Fqdns(conf) \/ (conf = <<>> /\ \E q \in Procs : pc[q] = "fill")
       /\ \A q \in Procs : pc[q] \in Saving => k \in Fqdns(next[q])

SitesKept == \A k \in known : SiteKept(k)
SavedInv == Alike /\ (\A p \in Procs : MoveInv(p)) /\ SitesKept

\* A step after which each text is one there was, or has conf's groups.
LEMMA TextsStep ==
    ASSUME Alike, NEW u, DOMAIN u # {} => SameGroups(u, conf),
           conf' \in Texts \cup {<<>>},
           \A q \in Procs : page'[q] \in Texts \cup {<<>>} /\ next'[q] \in Texts \cup {<<>>, u}
    PROVE  Alike' /\ \A b, dom : GroupAt(b, dom) => GroupAt(b, dom)'
<1>1. ASSUME NEW t \in Texts', DOMAIN t # {}
      PROVE  \E v \in Texts : SameGroups(t, v)
  <2>1. t \in Texts \/ t = <<>> \/ t = u
    BY DEF Texts
  <2>2. CASE t \in Texts
    BY <2>2 DEF SameGroups
  <2>3. CASE t = <<>>
    BY <1>1, <2>3
  <2>4. CASE t = u
    BY <1>1, <2>4 DEF Texts
  <2>5. QED
    BY <2>1, <2>2, <2>3, <2>4
<1>2. Alike'
  <2>1. ASSUME NEW t \in Texts', NEW v \in Texts', DOMAIN t # {}, DOMAIN v # {}
        PROVE  SameGroups(t, v)
    <3>1. PICK a \in Texts : SameGroups(t, a)
      BY <1>1, <2>1
    <3>2. PICK c \in Texts : SameGroups(v, c)
      BY <1>1, <2>1
    <3>3. SameGroups(a, c)
      BY <2>1, <3>1, <3>2 DEF Alike, SameGroups
    <3>4. QED
      BY <3>1, <3>2, <3>3 DEF SameGroups
  <2>2. QED
    BY <2>1 DEF Alike, SameGroups
<1>3. ASSUME NEW b, NEW dom, GroupAt(b, dom) PROVE GroupAt(b, dom)'
  <2>1. ASSUME NEW t \in Texts', b \in DOMAIN t PROVE t[b].dom = dom
    <3>1. PICK v \in Texts : SameGroups(t, v)
      BY <1>1, <2>1
    <3>2. QED
      BY <1>3, <2>1, <3>1 DEF SameGroups, GroupAt
  <2>2. QED
    BY <2>1 DEF GroupAt
<1>4. QED
  BY <1>2, <1>3

\* A group of one text is at the same place in all of them.
LEMMA GroupAtText ==
    ASSUME Alike, NEW t \in Texts, NEW b \in DOMAIN t
    PROVE  GroupAt(b, t[b].dom)
BY DEF Alike, SameGroups, GroupAt

\* What the other editors see of a step of p.
Others(p) ==
    \A q \in Procs \ {p} : /\ pc'[q] = pc[q] /\ req'[q] = req[q]
                           /\ page'[q] = page[q] /\ next'[q] = next[q]
Regrouping == \A b, dom : GroupAt(b, dom) => GroupAt(b, dom)'

\* A step of p disturbs no other editor when it leaves the others' sites in
\* manconf/, or out of it.
LEMMA OtherEditors ==
    ASSUME MovesAndSaves, SavedInv, NEW p \in Procs, Others(p), Regrouping, MoveInv(p)',
           \/ man' = man
           \/ /\ req[p].op = "manualize"
              /\ man' \in {man \cup {req[p].site}, man \ {req[p].site}}
    PROVE  \A q \in Procs : MoveInv(q)'
<1>1. ASSUME NEW q \in Procs, q # p PROVE MoveInv(q)'
  <2>1. MoveInv(q) /\ MoveInv(p)
    BY DEF SavedInv
  <2>2. pc'[q] = pc[q] /\ req'[q] = req[q]
    BY <1>1 DEF Others
  <2>3. req[q].op = "manualize" => (req[q].site \in man' <=> req[q].site \in man)
    <3>1. req[q].op = "manualize" /\ req[p].op = "manualize" => req[q].site # req[p].site
      BY <1>1, <2>1 DEF MovesAndSaves, MoveInv
    <3>2. QED
      BY <3>1
  <2>4. pc[q] = "regroup" => GroupAt(req[q].gi, req[q].dom)'
    BY <2>1, <2>2 DEF MoveInv, Regrouping
  <2>5. pc[q] = "remove" => GroupAt(req[q].gi, req[q].site[2])'
    BY <2>1, <2>2 DEF MoveInv, Regrouping
  <2>6. QED
    BY <2>1, <2>2, <2>3, <2>4, <2>5 DEF MoveInv, Removing
<1>2. QED
  BY <1>1

\* A step that neither reads nor writes the table for good keeps the sites.
LEMMA SitesQuiet ==
    ASSUME SavedInv, NEW p \in Procs, Others(p), UNCHANGED <<conf, known>>, man \subseteq man',
           pc[p] # "fill", pc'[p] \notin Saving,
           pc'[p] \in Removing => /\ req'[p].site = req[p].site
                                  /\ pc[p] \in Removing \/ req[p].site \notin man
    PROVE  SitesKept'
<1> SUFFICES ASSUME NEW k \in known PROVE SiteKept(k)'
  BY DEF SitesKept
<1>1. SiteKept(k)
  BY DEF SavedInv, SitesKept
<1>2. CASE k \in man /\ \A q \in Procs : pc[q] \in Removing => req[q].site # k
  BY <1>2 DEF SiteKept, Others
<1>3. CASE /\ k \in Fqdns(conf) \/ (conf = <<>> /\ \E q \in Procs : pc[q] = "fill")
           /\ \A q \in Procs : pc[q] \in Saving => k \in Fqdns(next[q])
  <2>1. (\E q \in Procs : pc[q] = "fill") => \E q \in Procs : pc'[q] = "fill"
    BY DEF Others
  <2>2. \A q \in Procs : pc'[q] \in Saving => k \in Fqdns(next'[q])
    BY <1>3 DEF Others
  <2>3. QED
    BY <1>3, <2>1, <2>2 DEF SiteKept
<1>4. QED
  BY <1>1, <1>2, <1>3 DEF SiteKept

\* A step of p that gives it a text to save keeps the sites, when the text has
\* every site that is not in manconf/ for good.
LEMMA SitesPrepared ==
    ASSUME SavedInv, NEW p \in Procs, Others(p), UNCHANGED <<conf, man, known>>, pc[p] # "fill",
           pc'[p] \in Saving, conf # <<>>,
           \A k \in Fqdns(conf) :
               \/ k \in Fqdns(next'[p])
               \/ k \in man /\ \A q \in Procs \ {p} : pc[q] \in Removing => req[q].site # k
    PROVE  SitesKept'
<1> SUFFICES ASSUME NEW k \in known PROVE SiteKept(k)'
  BY DEF SitesKept
<1>1. SiteKept(k)
  BY DEF SavedInv, SitesKept
<1>2. pc'[p] \notin Removing
  BY DEF Saving, Removing
<1>3. CASE k \in man /\ \A q \in Procs \ {p} : pc[q] \in Removing => req[q].site # k
  BY <1>2, <1>3 DEF SiteKept, Others
<1>4. CASE /\ k \in Fqdns(conf) /\ k \in Fqdns(next'[p])
           /\ \A q \in Procs : pc[q] \in Saving => k \in Fqdns(next[q])
  BY <1>4 DEF SiteKept, Others
<1>5. QED
  BY <1>1, <1>3, <1>4 DEF SiteKept

\* The invariant after a step of p, from what the step does to p's own part, to
\* the texts and to manconf/.
LEMMA SavedStep ==
    ASSUME MovesAndSaves, SavedInv, NEW p \in Procs, Others(p), NEW u,
           DOMAIN u # {} => SameGroups(u, conf),
           conf' \in Texts \cup {<<>>}, page'[p] \in Texts \cup {<<>>},
           next'[p] \in Texts \cup {<<>>, u},
           Regrouping => MoveInv(p)',
           \/ man' = man
           \/ /\ req[p].op = "manualize"
              /\ man' \in {man \cup {req[p].site}, man \ {req[p].site}},
           SitesKept'
    PROVE  SavedInv'
<1>1. \A q \in Procs : page'[q] \in Texts \cup {<<>>} /\ next'[q] \in Texts \cup {<<>>, u}
  BY DEF Others, Texts
<1>2. Alike' /\ Regrouping
  BY <1>1, TextsStep DEF SavedInv, Regrouping
<1>3. \A q \in Procs : MoveInv(q)'
  BY <1>2, OtherEditors
<1>4. QED
  BY <1>2, <1>3 DEF SavedInv

\* The end of an editor, once the table and manconf/ are as they should be.
LEMMA SavedStop ==
    ASSUME MovesAndSaves, TypeInv, SavedInv, NEW p \in Procs, Stop(p),
           conf' \in Texts \cup {<<>>},
           man' = man \/ (req[p].op = "manualize" /\ man' = man \ {req[p].site}),
           SitesKept'
    PROVE  SavedInv'
<1>1. Others(p) /\ pc'[p] = "idle" /\ req'[p] = NoRequest /\ page'[p] = <<>> /\ next'[p] = <<>>
  BY DEF Stop, Goto, Others, TypeInv, TypeOK
<1>2. MoveInv(p)'
  BY <1>1, NoRequestTyped DEF MoveInv, Removing
<1>3. DOMAIN <<>> = {}
  OBVIOUS
<1>4. QED
  BY <1>1, <1>2, <1>3, SavedStep

\* A refused move keeps the site where it was.
LEMMA SavedRefuse ==
    ASSUME MovesAndSaves, TypeInv, SavedInv, NEW p \in Procs, Refuse(p),
           pc[p] \in {"parse", "remove", "regroup"}
    PROVE  SavedInv'
<1>1. UNCHANGED <<conf, man, known>> /\ conf \in Texts
  BY DEF Refuse, disk, history, Texts
<1>2. CASE Stop(p)
  <2>1. Others(p) /\ pc'[p] = "idle"
    BY <1>2 DEF Stop, Goto, Others, TypeInv, TypeOK
  <2>2. SitesKept'
    BY <1>1, <2>1, SitesQuiet DEF Saving, Removing
  <2>3. QED
    BY <1>1, <1>2, <2>2, SavedStop
<1>3. CASE req[p].op = "manualize" /\ Goto(p, "undo") /\ UNCHANGED <<req, page, next>>
  <2>1. Others(p) /\ pc'[p] = "undo" /\ req'[p] = req[p]
    BY <1>3 DEF Goto, Others, TypeInv, TypeOK
  <2>2. MoveInv(p)
    BY DEF SavedInv
  <2>3. pc[p] \in Removing
    BY <1>3, <2>2 DEF MoveInv, Removing
  <2>4. SitesKept'
    BY <1>1, <2>1, <2>3, SitesQuiet DEF Saving, Removing
  <2>5. MoveInv(p)'
    BY <1>1, <2>1, <2>2, <2>3 DEF MoveInv, Removing
  <2>6. page'[p] \in Texts /\ next'[p] \in Texts /\ DOMAIN <<>> = {}
    BY <1>3 DEF Texts
  <2>7. QED
    BY <1>1, <2>1, <2>4, <2>5, <2>6, SavedStep
<1>4. QED
  BY <1>2, <1>3 DEF Refuse

\* A move begins with a site of the editor's own.
LEMMA SavedBegins ==
    ASSUME MovesAndSaves, TypeInv, SavedInv, NEW p \in Procs, Begins(p)
    PROVE  SavedInv'
<1>a. MoveInv(p) /\ page[p] \in Texts /\ next[p] \in Texts /\ conf \in Texts /\ DOMAIN <<>> = {}
  BY DEF SavedInv, Texts
<1>b. Ops[p] \subseteq {"manualize", "group"}
  BY DEF MovesAndSaves
<1>1. ASSUME NEW f \in Fqdn, BeginManualize(p, f) PROVE SavedInv'
  <2> DEFINE r == [NoRequest EXCEPT !.op = "manualize", !.site = f]
  <2>1. r.op = "manualize" /\ r.site = f
    BY DEF NoRequest
  <2>2. Begin(p, r, "stat") /\ f \in Targets[p]
    BY <1>1 DEF BeginManualize
  <2> HIDE DEF r
  <2>3. /\ Others(p) /\ pc'[p] = "stat" /\ req'[p] = r /\ page'[p] = page[p] /\ next'[p] = next[p]
        /\ UNCHANGED <<conf, man, known>> /\ pc[p] = "idle"
    BY <2>2 DEF Begin, Goto, Others, TypeInv, TypeOK, disk, history
  <2>4. SitesKept'
    BY <2>3, SitesQuiet DEF Saving, Removing
  <2>5. MoveInv(p)'
    BY <2>1, <2>2, <2>3 DEF MoveInv, Removing
  <2>6. QED
    BY <1>a, <2>3, <2>4, <2>5, SavedStep
<1>2. ASSUME NEW f \in Fqdn, NEW g \in Fqdn, NEW port \in BOOLEAN, BeginEdit(p, f, g, port)
      PROVE  FALSE
  BY <1>b, <1>2 DEF BeginEdit, Begin, NoRequest
<1>3. ASSUME NEW g \in Fqdn, NEW port \in BOOLEAN, BeginAdd(p, g, port) PROVE FALSE
  BY <1>b, <1>3 DEF BeginAdd, Begin, NoRequest
<1>4. CASE LoadPage(p)
  <2>1. /\ Others(p) /\ pc'[p] = "page" /\ req'[p] = req[p] /\ page'[p] = conf /\ next'[p] = next[p]
        /\ UNCHANGED <<conf, man, known>> /\ pc[p] = "idle"
    BY <1>4 DEF LoadPage, Goto, Others, TypeInv, TypeOK, disk, history
  <2>2. SitesKept'
    BY <2>1, SitesQuiet DEF Saving, Removing
  <2>3. MoveInv(p)'
    BY <1>a, <2>1 DEF MoveInv, Removing
  <2>4. QED
    BY <1>a, <2>1, <2>2, <2>3, SavedStep
<1>5. QED
  BY <1>1, <1>2, <1>3, <1>4 DEF Begins

\* A save begins with a group of the editor's page.
LEMMA SavedSubmits ==
    ASSUME MovesAndSaves, TypeInv, SavedInv, NEW p \in Procs, Submits(p)
    PROVE  SavedInv'
<1>a. MoveInv(p) /\ page[p] \in Texts /\ next[p] \in Texts /\ conf \in Texts /\ DOMAIN <<>> = {}
  BY DEF SavedInv, Texts
<1>b. Ops[p] \subseteq {"manualize", "group"}
  BY DEF MovesAndSaves
<1>1. ASSUME NEW t \in Submissions, SubmitConf(p, t) PROVE FALSE
  BY <1>b, <1>1 DEF SubmitConf
<1>2. ASSUME NEW op \in {"group", "rename", "delete", "newgroup"}, NEW b \in 1 .. MaxBlocks,
             NEW d \in Domains, NEW machine \in BOOLEAN, SubmitGroup(p, op, b, d, machine)
      PROVE  SavedInv'
  <2> DEFINE r == [NoRequest EXCEPT !.op = op, !.gi = b, !.dom = d, !.machine = machine]
  <2>1. r.op = op /\ r.gi = b /\ r.dom = d
    BY DEF NoRequest
  <2>2. op = "group" /\ b \in DOMAIN page[p] /\ d = page[p][b].dom /\ pc[p] = "page"
    BY <1>b, <1>2 DEF SubmitGroup
  <2>3. GroupAt(b, d)
    BY <1>a, <2>2, GroupAtText DEF SavedInv
  <2>4. req' = [req EXCEPT ![p] = r] /\ Goto(p, "regroup") /\ UNCHANGED <<disk, page, next, history>>
    BY <1>2 DEF SubmitGroup
  <2> HIDE DEF r
  <2>5. /\ Others(p) /\ pc'[p] = "regroup" /\ req'[p] = r /\ page'[p] = page[p] /\ next'[p] = next[p]
        /\ UNCHANGED <<conf, man, known>>
    BY <2>4 DEF Goto, Others, TypeInv, TypeOK, disk, history
  <2>6. SitesKept'
    BY <2>2, <2>5, SitesQuiet DEF Saving, Removing
  <2>7. Regrouping => MoveInv(p)'
    BY <2>1, <2>2, <2>3, <2>5 DEF MoveInv, Removing, Regrouping
  <2>8. QED
    BY <1>a, <2>5, <2>6, <2>7, SavedStep
<1>3. QED
  BY <1>1, <1>2 DEF Submits

\* The steps of a move and of a save, each over what the others left.
LEMMA SavedWork ==
    ASSUME MovesAndSaves, TypeInv, SavedInv, NEW p \in Procs, Work(p), ~spoilt'
    PROVE  SavedInv'
<1>a. MoveInv(p) /\ page[p] \in Texts /\ next[p] \in Texts /\ conf \in Texts /\ DOMAIN <<>> = {}
  BY DEF SavedInv, Texts
<1>b. /\ conf \in Seq(Block) /\ req[p] \in Request
      /\ req[p].site \in Fqdn /\ req[p].gi \in Nat
  BY DEF TypeInv, TypeOK, Request
<1>1. CASE Stat(p)
  <2>1. UNCHANGED <<conf, man, known>> /\ pc[p] = "stat"
    BY <1>1 DEF Stat, disk, history
  <2>2. CASE Stop(p)
    <3>1. Others(p) /\ pc'[p] = "idle"
      BY <2>2 DEF Stop, Goto, Others, TypeInv, TypeOK
    <3>2. SitesKept'
      BY <2>1, <3>1, SitesQuiet DEF Saving, Removing
    <3>3. QED
      BY <1>a, <2>1, <2>2, <3>2, SavedStop
  <2>3. CASE req[p].site \notin man /\ Goto(p, "putman") /\ UNCHANGED <<req, page, next>>
    <3>1. Others(p) /\ pc'[p] = "putman" /\ req'[p] = req[p] /\ page'[p] = page[p] /\ next'[p] = next[p]
      BY <2>3 DEF Goto, Others, TypeInv, TypeOK
    <3>2. SitesKept'
      BY <2>1, <3>1, SitesQuiet DEF Saving, Removing
    <3>3. MoveInv(p)'
      BY <1>a, <2>1, <2>3, <3>1 DEF MoveInv, Removing
    <3>4. QED
      BY <1>a, <2>1, <3>1, <3>2, <3>3, SavedStep
  <2>4. QED
    BY <1>1, <2>2, <2>3 DEF Stat
<1>2. CASE PutMan(p)
  <2>1. /\ Others(p) /\ pc[p] = "putman" /\ pc'[p] = "parse" /\ req'[p] = req[p]
        /\ page'[p] = page[p] /\ next'[p] = next[p]
        /\ UNCHANGED <<conf, known>> /\ man' = man \cup {req[p].site}
    BY <1>2 DEF PutMan, Goto, Others, TypeInv, TypeOK, history
  <2>2. req[p].op = "manualize" /\ req[p].site \notin man
    BY <1>a, <2>1 DEF MoveInv
  <2>3. SitesKept'
    BY <2>1, <2>2, SitesQuiet DEF Saving, Removing
  <2>4. MoveInv(p)'
    BY <1>a, <2>1, <2>2 DEF MoveInv, Removing
  <2>5. QED
    BY <1>a, <2>1, <2>2, <2>3, <2>4, SavedStep
<1>3. CASE ParseIndex(p)
  <2> DEFINE at == {b \in DOMAIN conf : Holds(conf, b, req[p].site)}
             i  == CHOOSE b \in at : \A c \in at : b <= c
  <2>1. CASE Refuse(p)
    BY <1>3, <2>1, SavedRefuse DEF ParseIndex
  <2>2. CASE /\ at # {}
             /\ req' = [req EXCEPT ![p].gi = i]
             /\ Goto(p, "remove")
             /\ UNCHANGED <<disk, page, next, history>>
    <3> DEFINE r == [req[p] EXCEPT !.gi = i]
    <3>1. at \in SUBSET Nat
      BY <1>b
    <3>2. i \in at
      <4> HIDE DEF at
      <4>1. \E b \in at : \A c \in at : b <= c
        BY <2>2, <3>1, Least
      <4>2. QED
        BY <4>1
    <3>3. i \in DOMAIN conf /\ conf[i].dom = req[p].site[2]
      <4> HIDE DEF i
      <4>1. QED
        BY <3>2 DEF Holds
    <3> HIDE DEF i
    <3>4. r.op = req[p].op /\ r.site = req[p].site /\ r.gi = i
      BY <1>b DEF Request
    <3>5. req' = [req EXCEPT ![p] = r]
      BY <2>2
    <3> HIDE DEF r
    <3>6. /\ Others(p) /\ pc[p] = "parse" /\ pc'[p] = "remove" /\ req'[p] = r
          /\ page'[p] = page[p] /\ next'[p] = next[p] /\ UNCHANGED <<conf, man, known>>
      BY <1>3, <2>2, <3>5 DEF ParseIndex, Goto, Others, TypeInv, TypeOK, disk, history
    <3>7. GroupAt(i, req[p].site[2])
      BY <1>a, <3>3, GroupAtText DEF SavedInv
    <3>8. SitesKept'
      BY <3>4, <3>6, SitesQuiet DEF Saving, Removing
    <3>9. Regrouping => MoveInv(p)'
      BY <1>a, <3>4, <3>6, <3>7 DEF MoveInv, Removing, Regrouping
    <3>10. QED
      BY <1>a, <3>6, <3>8, <3>9, SavedStep
  <2>3. QED
    BY <1>3, <2>1, <2>2 DEF ParseIndex
<1>4. CASE RemoveLine(p)
  <2> DEFINE i == req[p].gi
             n == req[p].site[1]
             j == IF i <= Len(conf) THEN LineOf(conf[i], n) ELSE 0
             t == Taken(conf, i, n)
  <2>1. CASE Refuse(p)
    BY <1>4, <2>1, SavedRefuse DEF RemoveLine
  <2>2. CASE /\ j # 0
             /\ next' = [next EXCEPT ![p] = t]
             /\ Goto(p, "backup")
             /\ UNCHANGED <<disk, req, page, history>>
    <3>1. i # 0 /\ pc[p] = "remove"
      BY <1>4 DEF RemoveLine, TypeInv, Indexed
    <3>2. i \in DOMAIN conf
      BY <1>b, <2>2, <3>1
    <3>3. conf # <<>>
      BY <3>2
    <3>4. conf[i].dom = req[p].site[2]
      BY <1>a, <3>1, <3>2 DEF MoveInv, GroupAt
    <3>5. <<n, conf[i].dom>> = req[p].site
      BY <1>b, <3>4 DEF Fqdn
    <3>a. i \in Nat
      BY <1>b
    <3>d. n \in Names
      BY <1>b DEF Fqdn
    <3> HIDE DEF j, i, n
    <3>c. /\ t = Taken(conf, i, n) /\ conf \in Seq(Block)
          /\ Taken(conf, i, n) # conf =>
                 Fqdns(conf) \subseteq Fqdns(Taken(conf, i, n)) \cup {<<n, conf[i].dom>>}
          /\ DOMAIN Taken(conf, i, n) = DOMAIN conf
          /\ \A c \in DOMAIN conf : Taken(conf, i, n)[c].dom = conf[c].dom
      <4>1. conf \in Seq(Block) /\ i # 0
        BY <1>b, <3>1
      <4>2. QED
        BY <3>a, <3>d, <4>1, SiteTaken
    <3> HIDE DEF t
    <3>b. /\ t # conf => Fqdns(conf) \subseteq Fqdns(t) \cup {<<n, conf[i].dom>>}
          /\ DOMAIN t = DOMAIN conf /\ \A c \in DOMAIN conf : t[c].dom = conf[c].dom
      BY <3>c
    <3>6. SameGroups(t, conf)
      BY <3>b DEF SameGroups
    <3>7. Fqdns(conf) \subseteq Fqdns(t) \cup {req[p].site}
      BY <3>5, <3>b
    <3>8. /\ Others(p) /\ pc'[p] = "backup" /\ req'[p] = req[p]
          /\ page'[p] = page[p] /\ next'[p] = t /\ UNCHANGED <<conf, man, known>>
      BY <2>2 DEF Goto, Others, TypeInv, TypeOK, disk, history
    <3>9. req[p].op = "manualize" /\ req[p].site \in man /\ req[p].site \in Targets[p]
      BY <1>a, <3>1 DEF MoveInv, Removing
    <3>10. ASSUME NEW q \in Procs \ {p}, pc[q] \in Removing PROVE req[q].site # req[p].site
      <4>1. MoveInv(q)
        BY DEF SavedInv
      <4>2. QED
        BY <3>9, <3>10, <4>1 DEF MoveInv, MovesAndSaves
    <3>11. SitesKept'
      <4>1. \A k \in Fqdns(conf) :
                \/ k \in Fqdns(next'[p])
                \/ k \in man /\ \A q \in Procs \ {p} : pc[q] \in Removing => req[q].site # k
        BY <3>7, <3>8, <3>9, <3>10
      <4>2. pc[p] # "fill" /\ pc'[p] \in Saving
        BY <3>1, <3>8 DEF Saving
      <4>3. QED
        BY <3>3, <3>8, <4>1, <4>2, SitesPrepared
    <3>12. MoveInv(p)'
      BY <1>a, <3>8 DEF MoveInv, Removing
    <3>13. QED
      BY <1>a, <3>6, <3>8, <3>11, <3>12, SavedStep
  <2>3. QED
    BY <1>4, <2>1, <2>2 DEF RemoveLine, Taken
<1>5. CASE Undo(p)
  <2>1. /\ Others(p) /\ pc[p] = "undo" /\ pc'[p] = "idle" /\ UNCHANGED <<conf, known>>
        /\ man' = man \ {req[p].site} /\ Stop(p)
    BY <1>5 DEF Undo, Stop, Goto, Others, TypeInv, TypeOK, history
  <2>2. req[p].op = "manualize"
    BY <1>a, <2>1 DEF MoveInv, Removing
  <2>3. ASSUME NEW k \in known PROVE SiteKept(k)'
    <3>1. SiteKept(k)
      BY DEF SavedInv, SitesKept
    <3>2. CASE k \in man /\ \A q \in Procs : pc[q] \in Removing => req[q].site # k
      <4>1. req[p].site # k
        BY <2>1, <3>2 DEF Removing
      <4>2. \A q \in Procs : pc'[q] \in Removing => req'[q].site # k
        BY <2>1, <3>2 DEF Others, Removing
      <4>3. QED
        BY <2>1, <3>2, <4>1, <4>2 DEF SiteKept
    <3>3. CASE /\ k \in Fqdns(conf) \/ (conf = <<>> /\ \E q \in Procs : pc[q] = "fill")
               /\ \A q \in Procs : pc[q] \in Saving => k \in Fqdns(next[q])
      <4>1. (\E q \in Procs : pc[q] = "fill") => \E q \in Procs : pc'[q] = "fill"
        BY <2>1 DEF Others
      <4>2. \A q \in Procs : pc'[q] \in Saving => k \in Fqdns(next'[q])
        BY <2>1, <3>3 DEF Others, Saving
      <4>3. QED
        BY <2>1, <3>3, <4>1, <4>2 DEF SiteKept
    <3>4. QED
      BY <3>1, <3>2, <3>3 DEF SiteKept
  <2>4. SitesKept'
    BY <2>1, <2>3 DEF SitesKept
  <2>5. QED
    BY <1>a, <2>1, <2>2, <2>4, SavedStop
<1>6. CASE AppendLine(p)
  BY <1>a, <1>6 DEF AppendLine, MoveInv
<1>7. CASE Regroup(p)
  <2> DEFINE t == Regrouped(conf, req[p])
             b == req[p].gi
  <2>1. CASE Refuse(p)
    BY <1>7, <2>1, SavedRefuse DEF Regroup
  <2>2. CASE /\ ~GroupRefused(conf, req[p])
             /\ next' = [next EXCEPT ![p] = t]
             /\ Goto(p, "backup")
             /\ UNCHANGED <<disk, req, page, history>>
    <3>1. pc[p] = "regroup" /\ req[p].op = "group" /\ GroupAt(b, req[p].dom)
      BY <1>a, <1>7 DEF Regroup, MoveInv
    <3>2. b \in DOMAIN conf
      BY <2>2, <3>1 DEF GroupRefused
    <3>3. conf # <<>> /\ req[p].dom = conf[b].dom
      BY <1>a, <3>1, <3>2 DEF GroupAt
    <3>4. Fqdns(t) = Fqdns(conf)
      <4>1. req[p].op \in GroupOps /\ req[p].dom = conf[req[p].gi].dom
        BY <3>1, <3>3 DEF GroupOps
      <4>2. QED
        BY <1>b, <2>2, <4>1, GroupsSaved
    <3>5. SameGroups(t, conf)
      <4>1. t = Headed(conf, b, req[p].dom, req[p].machine)
        BY <3>1 DEF Regrouped, Headed
      <4>2. req[p].dom \in Domains /\ req[p].machine \in BOOLEAN
        BY <1>b DEF Request
      <4> HIDE DEF t
      <4>3. QED
        BY <1>b, <3>2, <3>3, <4>1, <4>2, BlockHeaded DEF SameGroups
    <3> HIDE DEF t
    <3>6. /\ Others(p) /\ pc'[p] = "backup" /\ req'[p] = req[p]
          /\ page'[p] = page[p] /\ next'[p] = t /\ UNCHANGED <<conf, man, known>>
      BY <2>2 DEF Goto, Others, TypeInv, TypeOK, disk, history
    <3>7. SitesKept'
      <4>1. pc[p] # "fill" /\ pc'[p] \in Saving /\ \A k \in Fqdns(conf) : k \in Fqdns(next'[p])
        BY <3>1, <3>4, <3>6 DEF Saving
      <4>2. QED
        BY <3>3, <3>6, <4>1, SitesPrepared
    <3>8. MoveInv(p)'
      BY <1>a, <3>1, <3>6 DEF MoveInv, Removing
    <3>9. QED
      BY <1>a, <3>5, <3>6, <3>7, <3>8, SavedStep
  <2>3. QED
    BY <1>7, <2>1, <2>2 DEF Regroup, Regroups
<1>8. CASE Backup(p) \/ Truncate(p)
  <2>1. /\ Others(p) /\ pc[p] \in Saving /\ pc'[p] \in Saving
        /\ req'[p] = req[p] /\ page'[p] = page[p] /\ next'[p] = next[p] /\ UNCHANGED <<man, known>>
    BY <1>8 DEF Backup, Truncate, Goto, Others, TypeInv, TypeOK, Saving
  <2>2. \/ conf' = conf /\ pc[p] # "fill"
        \/ conf' = <<>> /\ pc'[p] = "fill"
    <3>1. CASE Backup(p)
      BY <3>1 DEF Backup
    <3>2. CASE Truncate(p)
      BY <3>2 DEF Truncate, Goto, TypeInv, TypeOK
    <3>3. QED
      BY <1>8, <3>1, <3>2
  <2>3. pc'[p] \notin Removing
    BY <2>1 DEF Saving, Removing
  <2>4. ASSUME NEW k \in known PROVE SiteKept(k)'
    <3>1. SiteKept(k)
      BY DEF SavedInv, SitesKept
    <3>2. CASE k \in man /\ \A q \in Procs : pc[q] \in Removing => req[q].site # k
      BY <2>1, <2>3, <3>2 DEF SiteKept, Others
    <3>3. CASE /\ k \in Fqdns(conf) \/ (conf = <<>> /\ \E q \in Procs : pc[q] = "fill")
               /\ \A q \in Procs : pc[q] \in Saving => k \in Fqdns(next[q])
      <4>1. \A q \in Procs : pc'[q] \in Saving => k \in Fqdns(next'[q])
        BY <2>1, <3>3 DEF Others
      <4>2. k \in Fqdns(conf') \/ (conf' = <<>> /\ \E q \in Procs : pc'[q] = "fill")
        <5>1. conf' = conf /\ pc[p] # "fill" /\ (\E q \in Procs : pc[q] = "fill")
                => \E q \in Procs : pc'[q] = "fill"
          BY <2>1 DEF Others
        <5>2. QED
          BY <2>2, <3>3, <5>1
      <4>3. QED
        BY <4>1, <4>2 DEF SiteKept
    <3>4. QED
      BY <3>1, <3>2, <3>3 DEF SiteKept
  <2>5. SitesKept'
    BY <2>1, <2>4 DEF SitesKept
  <2>6. MoveInv(p)'
    BY <1>a, <2>1 DEF MoveInv, Removing, Saving
  <2>7. QED
    BY <1>a, <2>1, <2>2, <2>5, <2>6, SavedStep
<1>9. CASE Fill(p)
  <2>1. req[p].op # "edit"
    BY <1>a DEF MoveInv
  <2>a. conf = <<>> /\ conf' \in Overlaid(next[p], conf)
    BY <1>9 DEF Fill
  <2>b. conf' = next[p]
    BY <2>a, OverlaidAlone
  <2>2. /\ Others(p) /\ Stop(p) /\ pc[p] = "fill" /\ pc'[p] = "idle"
        /\ conf' = next[p] /\ UNCHANGED <<man, known>>
    BY <1>9, <2>1, <2>b DEF Fill, Stop, Goto, Others, TypeInv, TypeOK
  <2>3. ASSUME NEW k \in known PROVE SiteKept(k)'
    <3>1. SiteKept(k)
      BY DEF SavedInv, SitesKept
    <3>2. CASE k \in man /\ \A q \in Procs : pc[q] \in Removing => req[q].site # k
      BY <2>2, <3>2 DEF SiteKept, Others, Removing
    <3>3. CASE \A q \in Procs : pc[q] \in Saving => k \in Fqdns(next[q])
      <4>1. k \in Fqdns(conf')
        BY <2>2, <3>3 DEF Saving
      <4>2. \A q \in Procs : pc'[q] \in Saving => k \in Fqdns(next'[q])
        BY <2>2, <3>3 DEF Others, Saving
      <4>3. QED
        BY <4>1, <4>2 DEF SiteKept
    <3>4. QED
      BY <3>1, <3>2, <3>3 DEF SiteKept
  <2>4. SitesKept'
    BY <2>2, <2>3 DEF SitesKept
  <2>5. QED
    BY <1>a, <2>2, <2>4, SavedStop
<1>10. QED
  BY <1>1, <1>2, <1>3, <1>4, <1>5, <1>6, <1>7, <1>8, <1>9 DEF Work

\* SavedInv holds at first.
LEMMA SavedInit == ASSUME Init PROVE SavedInv
<1>1. DOMAIN <<>> = {} /\ \A t \in Texts : t = conf \/ t = <<>>
  BY DEF Init, Texts
<1>2. Alike
  BY <1>1 DEF Alike, SameGroups
<1>3. \A p \in Procs : MoveInv(p)
  BY NoRequestTyped DEF Init, MoveInv, Removing
<1>4. SitesKept
  BY DEF Init, SitesKept, SiteKept, Removing, Saving
<1>5. QED
  BY <1>2, <1>3, <1>4 DEF SavedInv

\* Once two writes have overlapped, they have.
LEMMA SpoiltStays ==
    ASSUME [Next]_vars, spoilt
    PROVE  spoilt'
<1>1. CASE spoilt' = spoilt
  BY <1>1
<1>2. ASSUME NEW p \in Procs, Fill(p) PROVE spoilt'
  BY <1>2 DEF Fill
<1>3. ASSUME NEW p \in Procs, WriteFails(p) PROVE spoilt'
  BY <1>3 DEF WriteFails
<1>4. ASSUME NEW p \in Procs, Begins(p) PROVE spoilt' = spoilt
  BY <1>4 DEF Begins, BeginManualize, BeginEdit, BeginAdd, Begin, LoadPage, history
<1>5. ASSUME NEW p \in Procs, Submits(p) PROVE spoilt' = spoilt
  BY <1>5 DEF Submits, SubmitConf, SubmitGroup, history
<1>6. ASSUME NEW p \in Procs, Work(p), ~Fill(p) PROVE spoilt' = spoilt
  BY <1>6 DEF Work, Stat, PutMan, ParseIndex, RemoveLine, Undo, AppendLine, Regroup, Refuse,
              Backup, Truncate, history
<1>7. ASSUME NEW p \in Procs, Fault(p), ~WriteFails(p) PROVE spoilt' = spoilt
  BY <1>7 DEF Fault, PutManFails, BackupFails, Kill, history
<1>8. CASE Reboot \/ UNCHANGED vars
  BY <1>8 DEF Reboot, vars, history
<1>9. QED
  BY <1>1, <1>2, <1>3, <1>4, <1>5, <1>6, <1>7, <1>8 DEF Next

\* Every step keeps SavedInv, as long as no two writes overlap.
LEMMA SavedNext ==
    ASSUME MovesAndSaves, TypeInv, spoilt \/ SavedInv, [Next]_vars
    PROVE  spoilt' \/ SavedInv'
<1> SUFFICES ASSUME ~spoilt' PROVE SavedInv'
  OBVIOUS
<1>1. SavedInv
  BY SpoiltStays
<1>2. ASSUME NEW p \in Procs, Fault(p) PROVE FALSE
  BY <1>2 DEF Fault, PutManFails, BackupFails, WriteFails, Kill, MovesAndSaves
<1>3. ~Reboot
  BY DEF Reboot, MovesAndSaves
<1>4. CASE UNCHANGED vars
  BY <1>1, <1>4 DEF vars, disk, history, SavedInv, Alike, Texts, SameGroups, MoveInv, GroupAt,
                    SitesKept, SiteKept
<1>5. QED
  BY <1>1, <1>2, <1>3, <1>4, SavedBegins, SavedSubmits, SavedWork DEF Next

\* However many editors move sites to manconf/ and save groups at the same
\* time, each over the torn and stale texts the others leave, none loses a
\* site as long as no two of their writes overlap: at rest each is in the
\* table or in manconf/.
THEOREM MovesLoseNoSite ==
    ASSUME MovesAndSaves
    PROVE  Spec => []NoSiteLost
<1>1. Init => spoilt \/ SavedInv
  BY SavedInit
<1>2. TypeInv /\ (spoilt \/ SavedInv) /\ [Next]_vars => spoilt' \/ SavedInv'
  BY SavedNext
<1>3. spoilt \/ SavedInv => NoSiteLost
  BY DEF SavedInv, SitesKept, SiteKept, NoSiteLost, Quiescent
<1>4. QED
  BY <1>1, <1>2, <1>3, TypeInvariant, PTL DEF Spec
=============================================================================
