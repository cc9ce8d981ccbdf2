---------------------------- MODULE ConfText_proofs ----------------------------
(***************************************************************************)
(* Theorems about the text of sites.conf, for texts of any length with any *)
(* number of groups: what revpro wrote it reads back as it is, and an edit *)
(* of one group keeps the others.                                          *)
(***************************************************************************)
EXTENDS ConfText, SequenceTheorems, FiniteSetTheorems, TLAPS

\* A set of natural numbers that is not empty has a least element.
LEMMA Least ==
    ASSUME NEW S \in SUBSET Nat, S # {}
    PROVE  \E n \in S : \A m \in S : n <= m
<1> DEFINE R == OpToRel(<, Nat)
<1>1. IsWellFoundedOn(R, Nat)
  BY NatLessThanWellFounded
<1> HIDE DEF R
<1>2. PICK n \in S : \A m \in S : ~(<<m, n>> \in R)
  BY <1>1, WFMin
<1>3. ASSUME NEW m \in S PROVE ~(m < n)
  BY <1>2 DEF R, OpToRel
<1>4. QED
  BY <1>3

----------------------------------------------------------------------------
(* The elements of a set in increasing order *)

\* q lists the n elements of S from the least to the greatest.
Lists(q, n, S) ==
    /\ q \in [1 .. n -> S]
    /\ \A j, k \in 1 .. n : j < k => q[j] < q[k]
    /\ \A i \in S : \E k \in 1 .. n : q[k] = i

\* A list with one more element, greater than the others.
LEMMA OneLonger ==
    ASSUME NEW S, \A i \in S : i \in Nat, NEW n \in Nat, NEW q, Lists(q, n, S),
           NEW c \in Nat, \A i \in S : i < c
    PROVE  Lists([k \in 1 .. n + 1 |-> IF k <= n THEN q[k] ELSE c], n + 1, S \cup {c})
<1> DEFINE r == [k \in 1 .. n + 1 |-> IF k <= n THEN q[k] ELSE c]
<1>0. \A k \in 1 .. n : q[k] \in S
  BY DEF Lists
<1>1. \A k \in 1 .. n : r[k] = q[k] /\ q[k] \in S /\ q[k] \in Nat /\ k \in 1 .. n + 1
  BY <1>0
<1>2. r[n + 1] = c /\ n + 1 \in 1 .. n + 1
  OBVIOUS
<1>3. \A k \in 1 .. n + 1 : k \in 1 .. n \/ k = n + 1
  OBVIOUS
<1>4. r \in [1 .. n + 1 -> S \cup {c}]
  BY <1>1, <1>2, <1>3
<1> HIDE DEF r
<1>5. ASSUME NEW j \in 1 .. n + 1, NEW k \in 1 .. n + 1, j < k PROVE r[j] < r[k]
  <2>1. j \in 1 .. n
    BY <1>5
  <2>2. CASE k \in 1 .. n
    BY <1>1, <1>5, <2>1, <2>2 DEF Lists
  <2>3. CASE k = n + 1
    BY <1>1, <1>2, <2>1, <2>3
  <2>4. QED BY <1>3, <2>2, <2>3
<1>6. ASSUME NEW i \in S \cup {c} PROVE \E k \in 1 .. n + 1 : r[k] = i
  BY <1>1, <1>2 DEF Lists
<1>7. QED
  BY <1>4, <1>5, <1>6 DEF Lists, r

\* Every set of positive numbers with a bound can be listed.
LEMMA Listed ==
    ASSUME NEW S, \A i \in S : i \in Nat /\ i > 0, NEW b \in Nat, \A i \in S : i <= b
    PROVE  \E n \in Nat : \E q : Lists(q, n, S)
<1> DEFINE Upto(c) == {i \in S : i <= c}
           Done(c) == \E n \in Nat : \E q : Lists(q, n, Upto(c))
           Bad == {c \in Nat : ~Done(c)}
<1>1. SUFFICES Bad = {}
  <2>1. Upto(b) = S
    OBVIOUS
  <2> HIDE DEF Upto
  <2>2. QED BY <1>1, <2>1
<1>2. SUFFICES ASSUME Bad # {} PROVE FALSE
  OBVIOUS
<1>3. Bad \in SUBSET Nat
  OBVIOUS
<1> HIDE DEF Bad
<1>4. PICK c \in Bad : \A m \in Bad : c <= m
  BY <1>2, <1>3, Least
<1>5. c \in Nat /\ ~Done(c)
  BY <1>4 DEF Bad
<1>6. c # 0
  <2>1. Upto(0) = {}
    OBVIOUS
  <2>2. Lists([k \in 1 .. 0 |-> 0], 0, {})
    BY DEF Lists
  <2> HIDE DEF Upto
  <2>3. Done(0)
    BY <2>1, <2>2
  <2>4. QED BY <1>5, <2>3
<1>7. Done(c - 1)
  <2>1. c - 1 \in Nat /\ ~(c <= c - 1)
    BY <1>5, <1>6
  <2>2. c - 1 \notin Bad
    BY <1>4, <1>5, <2>1
  <2> HIDE DEF Done
  <2>3. QED BY <2>1, <2>2 DEF Bad
<1>7a. PICK n \in Nat : \E q : Lists(q, n, Upto(c - 1))
  BY <1>7
<1>8. PICK q : Lists(q, n, Upto(c - 1))
  BY <1>7a
<1>9. CASE c \in S
  <2>1. Upto(c) = Upto(c - 1) \cup {c}
    <3>1. \A i \in S : i <= c <=> i <= c - 1 \/ i = c
      BY <1>5
    <3>2. QED BY <1>9, <3>1
  <2>2. \A i \in Upto(c - 1) : i \in Nat /\ i < c
    BY <1>5
  <2> HIDE DEF Upto
  <2>3. \E r : Lists(r, n + 1, Upto(c - 1) \cup {c})
    BY <1>5, <1>8, <2>2, OneLonger
  <2>4. QED BY <1>5, <2>1, <2>3
<1>10. CASE c \notin S
  <2>1. Upto(c) = Upto(c - 1)
    BY <1>5, <1>10
  <2> HIDE DEF Upto
  <2>2. QED BY <1>5, <1>8, <2>1
<1>11. QED
  BY <1>9, <1>10

\* A set has one list only.
LEMMA OneList ==
    ASSUME NEW S, \A i \in S : i \in Nat, NEW n \in Nat, NEW p, Lists(p, n, S), NEW q, Lists(q, n, S)
    PROVE  p = q
<1> DEFINE Bad == {k \in 1 .. n : p[k] # q[k]}
<1>1. SUFFICES Bad = {}
  <2>1. \A k \in 1 .. n : p[k] = q[k]
    BY <1>1
  <2>2. p \in [1 .. n -> S] /\ q \in [1 .. n -> S]
    BY DEF Lists
  <2> HIDE DEF Bad
  <2>3. QED BY <2>1, <2>2
<1>2. SUFFICES ASSUME Bad # {} PROVE FALSE
  OBVIOUS
<1>3. Bad \in SUBSET Nat
  OBVIOUS
<1> HIDE DEF Bad
<1>4. PICK k \in Bad : \A m \in Bad : k <= m
  BY <1>2, <1>3, Least
<1>5. k \in 1 .. n /\ p[k] # q[k] /\ \A j \in 1 .. n : j < k => p[j] = q[j]
  BY <1>4 DEF Bad
<1>6. \A j \in 1 .. n : p[j] \in S /\ q[j] \in S /\ p[j] \in Nat /\ q[j] \in Nat
  BY DEF Lists
<1>6a. \A i, j \in 1 .. n : i < j => p[i] < p[j] /\ q[i] < q[j]
  BY DEF Lists
<1>7. CASE p[k] < q[k]
  <2>1. PICK j \in 1 .. n : q[j] = p[k]
    BY <1>5, <1>6 DEF Lists
  <2>2. CASE j < k
    BY <1>5, <1>6, <1>6a, <2>1, <2>2
  <2>3. CASE ~(j < k)
    <3>1. j = k \/ k < j
      BY <1>5, <2>3
    <3>2. QED BY <1>5, <1>6, <1>6a, <1>7, <2>1, <3>1
  <2>4. QED BY <2>2, <2>3
<1>8. CASE q[k] < p[k]
  <2>1. PICK j \in 1 .. n : p[j] = q[k]
    BY <1>5, <1>6 DEF Lists
  <2>2. CASE j < k
    BY <1>5, <1>6, <1>6a, <2>1, <2>2
  <2>3. CASE ~(j < k)
    <3>1. j = k \/ k < j
      BY <1>5, <2>3
    <3>2. QED BY <1>5, <1>6, <1>6a, <1>8, <2>1, <3>1
  <2>4. QED BY <2>2, <2>3
<1>9. QED
  BY <1>5, <1>6, <1>7, <1>8

\* InOrder finds it.
LEMMA InOrderIs ==
    ASSUME NEW S, \A i \in S : i \in Nat, NEW n \in Nat, NEW q, Lists(q, n, S)
    PROVE  InOrder(S) = q
<1>1. \A j, k \in 1 .. n : q[j] = q[k] => j = k
  <2>1. SUFFICES ASSUME NEW j \in 1 .. n, NEW k \in 1 .. n, q[j] = q[k], j # k PROVE FALSE
    OBVIOUS
  <2>2. q[j] \in Nat /\ q[k] \in Nat
    BY DEF Lists
  <2>3. j < k \/ k < j
    BY <2>1
  <2>4. QED BY <2>1, <2>2, <2>3 DEF Lists
<1>2. q \in Bijection(1 .. n, S)
  BY <1>1 DEF Lists, Bijection, Injection, Surjection, IsInjective
<1>3. IsFiniteSet(1 .. n) /\ Cardinality(1 .. n) = n
  <2>1. 1 \in Int /\ n \in Int /\ (n < 1 => n = 0)
    OBVIOUS
  <2>2. QED BY <2>1, FS_Interval
<1>4. IsFiniteSet(S) /\ Cardinality(S) = n
  BY <1>2, <1>3, FS_Bijection DEF ExistsBijection
<1> DEFINE Good(p) == \A j, k \in DOMAIN p : j < k => p[j] < p[k]
           p == CHOOSE r \in [1 .. n -> S] : Good(r)
<1>5. InOrder(S) = p
  BY <1>4 DEF InOrder
<1>6. p \in [1 .. n -> S] /\ Good(p)
  <2>1. q \in [1 .. n -> S] /\ Good(q)
    BY DEF Lists
  <2> HIDE DEF Good
  <2>2. QED BY <2>1
<1>7. \A j, k \in 1 .. n : j < k => p[j] < p[k]
  BY <1>6
<1> HIDE DEF p
<1>8. \A j, k \in 1 .. n : p[j] = p[k] => j = k
  <2>1. SUFFICES ASSUME NEW j \in 1 .. n, NEW k \in 1 .. n, p[j] = p[k], j # k PROVE FALSE
    OBVIOUS
  <2>2. p[j] \in Nat /\ p[k] \in Nat
    BY <1>6
  <2>3. j < k \/ k < j
    BY <2>1
  <2>4. QED BY <1>7, <2>1, <2>2, <2>3
<1>9. p \in Injection(1 .. n, S)
  BY <1>6, <1>8 DEF Injection, IsInjective
<1>10. p \in Surjection(1 .. n, S)
  BY <1>3, <1>4, <1>9, FS_Injection
<1>11. Lists(p, n, S)
  BY <1>6, <1>7, <1>10 DEF Lists, Surjection
<1>12. QED
  BY <1>5, <1>11, OneList

\* The list InOrder gives is one.
LEMMA InOrderLists ==
    ASSUME NEW S, \A i \in S : i \in Nat /\ i > 0, NEW b \in Nat, \A i \in S : i <= b
    PROVE  \E n \in Nat : Lists(InOrder(S), n, S)
<1>0. PICK n \in Nat : \E q : Lists(q, n, S)
  BY Listed
<1>1. PICK q : Lists(q, n, S)
  BY <1>0
<1>2. InOrder(S) = q
  BY <1>1, InOrderIs
<1>3. QED BY <1>1, <1>2

----------------------------------------------------------------------------
(* FlattenSeq *)

\* The sequences joined so far: f[k] is the first k of s, one after the other.
Joins(f, s, n) ==
    \A i \in 1 .. n : f[i] = IF i = 1 THEN s[i] ELSE f[i - 1] \o s[i]

\* The recursion in FlattenSeq has a solution of every length.
LEMMA JoinExists ==
    ASSUME NEW X, NEW s, NEW n \in Nat, \A i \in 1 .. n : s[i] \in Seq(X)
    PROVE  \E f \in [1 .. n -> Seq(X)] : Joins(f, s, n)
<1> DEFINE Done(c) == \E f \in [1 .. c -> Seq(X)] : Joins(f, s, c)
           Bad == {c \in 0 .. n : ~Done(c)}
<1>1. SUFFICES ASSUME Bad # {} PROVE FALSE
  <2>1. n \in 0 .. n
    OBVIOUS
  <2> HIDE DEF Done
  <2>2. n \notin Bad => Done(n)
    BY <2>1
  <2>3. Bad = {} => Done(n)
    BY <2>2
  <2>4. QED BY <1>1, <2>3 DEF Done
<1>2. Bad \in SUBSET Nat
  OBVIOUS
<1> HIDE DEF Bad
<1>3. PICK c \in Bad : \A m \in Bad : c <= m
  BY <1>1, <1>2, Least
<1>4. c \in 0 .. n /\ ~Done(c)
  BY <1>3 DEF Bad
<1>5. c # 0
  <2>1. [i \in 1 .. 0 |-> <<>>] \in [1 .. 0 -> Seq(X)]
    OBVIOUS
  <2>2. Joins([i \in 1 .. 0 |-> <<>>], s, 0)
    BY DEF Joins
  <2>3. Done(0)
    BY <2>1, <2>2
  <2> HIDE DEF Done
  <2>4. QED BY <1>4, <2>3
<1>6. Done(c - 1)
  <2>1. c - 1 \in 0 .. n /\ ~(c <= c - 1)
    BY <1>4, <1>5
  <2>2. c - 1 \notin Bad
    BY <1>3, <1>4, <2>1
  <2> HIDE DEF Done
  <2>3. QED BY <2>1, <2>2 DEF Bad
<1>7. PICK f \in [1 .. c - 1 -> Seq(X)] : Joins(f, s, c - 1)
  BY <1>6
<1> DEFINE last == IF c = 1 THEN s[c] ELSE f[c - 1] \o s[c]
           g == [i \in 1 .. c |-> IF i = c THEN last ELSE f[i]]
<1>8. last \in Seq(X)
  <2>1. s[c] \in Seq(X)
    BY <1>4, <1>5
  <2>2. c # 1 => c - 1 \in 1 .. c - 1
    BY <1>4, <1>5
  <2>3. c # 1 => f[c - 1] \in Seq(X)
    BY <1>7, <2>2
  <2>4. QED BY <2>1, <2>3
<1>9. \A i \in 1 .. c : i # c => i \in 1 .. c - 1 /\ i \in Nat
  BY <1>4
<1>10. g \in [1 .. c -> Seq(X)]
  <2> HIDE DEF last
  <2>1. QED BY <1>7, <1>8, <1>9
<1>11. ASSUME NEW i \in 1 .. c PROVE g[i] = IF i = 1 THEN s[i] ELSE g[i - 1] \o s[i]
  <2>1. CASE i = c
    <3>1. i # 1 => g[i - 1] = f[i - 1]
      BY <1>4, <2>1
    <3>2. QED BY <2>1, <3>1
  <2>2. CASE i # c
    <3>1. i \in 1 .. c - 1 /\ i \in Nat
      BY <1>9, <2>2
    <3>2. f[i] = IF i = 1 THEN s[i] ELSE f[i - 1] \o s[i]
      BY <1>7, <3>1 DEF Joins
    <3>3. g[i] = f[i]
      BY <2>2
    <3>4. i # 1 => g[i - 1] = f[i - 1]
      BY <1>4, <3>1
    <3>5. QED BY <3>2, <3>3, <3>4
  <2>3. QED BY <2>1, <2>2
<1> HIDE DEF g, last
<1>12. Joins(g, s, c)
  BY <1>11 DEF Joins
<1>13. QED
  BY <1>4, <1>10, <1>12

\* f joins the n sequences of s, and its last element is what FlattenSeq gives.
JoinsAll(f, s, n, X) == f \in [1 .. n -> Seq(X)] /\ Joins(f, s, n) /\ FlattenSeq(s) = f[n]

\* FlattenSeq joins all the sequences.
LEMMA FlattenIs ==
    ASSUME NEW X, NEW s, NEW n \in Nat, n # 0, Len(s) = n, \A i \in 1 .. n : s[i] \in Seq(X)
    PROVE  \E f : JoinsAll(f, s, n, X)
<1> DEFINE Good(g) == g = [i \in 1 .. n |-> IF i = 1 THEN s[i] ELSE g[i - 1] \o s[i]]
           h == CHOOSE g : Good(g)
<1>1. PICK f \in [1 .. n -> Seq(X)] : Joins(f, s, n)
  BY JoinExists
<1>2. FlattenSeq(s) = h[n]
  BY DEF FlattenSeq
<1>3. Good(f)
  BY <1>1 DEF Joins
<1>4. Good(h)
  <2> HIDE DEF Good
  <2>1. QED BY <1>3
<1> HIDE DEF h
<1>5. Joins(h, s, n)
  BY <1>4 DEF Joins
<1>6. f = h
  <2> DEFINE Bad == {k \in 1 .. n : f[k] # h[k]}
  <2>1. SUFFICES ASSUME Bad # {} PROVE FALSE
    <3>1. DOMAIN h = 1 .. n
      BY <1>4
    <3>2. \E g : h = [i \in 1 .. n |-> IF i = 1 THEN s[i] ELSE g[i - 1] \o s[i]]
      BY <1>4
    <3>3. h = [i \in 1 .. n |-> h[i]]
      BY <3>2
    <3>4. f = [i \in 1 .. n |-> f[i]]
      OBVIOUS
    <3>5. QED BY <2>1, <3>3, <3>4
  <2>2. Bad \in SUBSET Nat
    OBVIOUS
  <2> HIDE DEF Bad
  <2>3. PICK k \in Bad : \A m \in Bad : k <= m
    BY <2>1, <2>2, Least
  <2>4. k \in 1 .. n /\ k \in Nat /\ f[k] # h[k]
    BY <2>3 DEF Bad
  <2>5. k # 1 => k - 1 \in 1 .. n /\ ~(k <= k - 1)
    BY <2>4
  <2>6. k # 1 => f[k - 1] = h[k - 1]
    BY <2>3, <2>5 DEF Bad
  <2>7. f[k] = IF k = 1 THEN s[k] ELSE f[k - 1] \o s[k]
    BY <1>1, <2>4 DEF Joins
  <2>8. h[k] = IF k = 1 THEN s[k] ELSE h[k - 1] \o s[k]
    BY <1>5, <2>4 DEF Joins
  <2>9. QED BY <2>4, <2>6, <2>7, <2>8
<1>7. JoinsAll(f, s, n, X)
  BY <1>1, <1>2, <1>6 DEF JoinsAll
<1>8. QED BY <1>7

\* Where each of the n sequences s[k] stands in t: after its first off[k] elements.
Layout(t, off, s, n) ==
    /\ off \in [1 .. n + 1 -> Nat] /\ off[1] = 0 /\ Len(t) = off[n + 1]
    /\ \A k \in 1 .. n : off[k + 1] = off[k] + Len(s[k])
    /\ \A k \in 1 .. n : \A i \in 1 .. Len(s[k]) :
         off[k] + i <= Len(t) /\ t[off[k] + i] = s[k][i]
    /\ \A p \in 1 .. Len(t) : \E k \in 1 .. n : \E i \in 1 .. Len(s[k]) : p = off[k] + i

\* One sequence more.
LEMMA LayoutLonger ==
    ASSUME NEW X, NEW s, NEW n \in Nat, \A i \in 1 .. n + 1 : s[i] \in Seq(X),
           NEW t \in Seq(X), NEW off, Layout(t, off, s, n)
    PROVE  \E o : Layout(t \o s[n + 1], o, s, n + 1)
<1> DEFINE u == s[n + 1]
           o == [k \in 1 .. n + 2 |-> IF k = n + 2 THEN off[n + 1] + Len(u) ELSE off[k]]
           v == t \o u
<1>1. u \in Seq(X) /\ Len(u) \in Nat /\ Len(t) \in Nat
  BY LenProperties
<1>2. v \in Seq(X) /\ Len(v) = Len(t) + Len(u)
      /\ \A i \in 1 .. Len(t) : v[i] = t[i]
  BY <1>1, ConcatProperties
<1>3. \A i \in 1 .. Len(u) : v[Len(t) + i] = u[i]
  <2>1. ASSUME NEW i \in 1 .. Len(u) PROVE v[Len(t) + i] = u[i]
    <3>1. Len(t) + i \in 1 .. Len(t) + Len(u) /\ ~(Len(t) + i <= Len(t)) /\ Len(t) + i - Len(t) = i
      BY <1>1
    <3>2. QED BY <1>1, <3>1, ConcatProperties
  <2>2. QED BY <2>1
<1>4. off \in [1 .. n + 1 -> Nat] /\ off[1] = 0 /\ Len(t) = off[n + 1] /\ n + 1 \in 1 .. n + 1
  BY DEF Layout
<1> HIDE DEF u, v
<1>5. o \in [1 .. n + 2 -> Nat]
  <2>1. \A k \in 1 .. n + 2 : k # n + 2 => k \in 1 .. n + 1
    OBVIOUS
  <2>2. QED BY <1>1, <1>4, <2>1
<1>6. \A k \in 1 .. n + 1 : k \in 1 .. n + 2 /\ k # n + 2 /\ o[k] = off[k] /\ off[k] \in Nat
  BY <1>4
<1>7. o[n + 2] = Len(t) + Len(u) /\ o[1] = 0 /\ o[n + 1] = Len(t)
  BY <1>4, <1>6
<1> HIDE DEF o
<1>8. ASSUME NEW k \in 1 .. n + 1 PROVE o[k + 1] = o[k] + Len(s[k])
  <2>1. CASE k = n + 1
    <3>1. k + 1 = n + 2 /\ s[k] = u /\ o[k] = Len(t)
      BY <1>7, <2>1 DEF u
    <3>2. QED BY <1>7, <3>1
  <2>2. CASE k # n + 1
    <3>1. k \in 1 .. n /\ k + 1 \in 1 .. n + 1
      BY <2>2
    <3>2. off[k + 1] = off[k] + Len(s[k])
      BY <3>1 DEF Layout
    <3>3. QED BY <1>6, <3>1, <3>2
  <2>3. QED BY <2>1, <2>2
<1>9. ASSUME NEW k \in 1 .. n + 1, NEW i \in 1 .. Len(s[k])
      PROVE  o[k] + i <= Len(v) /\ v[o[k] + i] = s[k][i]
  <2>1. CASE k = n + 1
    <3>1. s[k] = u /\ o[k] = Len(t) /\ i \in 1 .. Len(u)
      BY <1>7, <2>1 DEF u
    <3>2. v[Len(t) + i] = u[i] /\ Len(t) + i <= Len(v)
      BY <1>1, <1>2, <1>3, <3>1
    <3>3. QED BY <3>1, <3>2
  <2>2. CASE k # n + 1
    <3>1. k \in 1 .. n
      BY <2>2
    <3>2. off[k] + i <= Len(t) /\ t[off[k] + i] = s[k][i]
      BY <3>1 DEF Layout
    <3>3. off[k] + i \in 1 .. Len(t)
      BY <1>1, <1>6, <3>2
    <3>4. v[off[k] + i] = t[off[k] + i]
      BY <1>2, <3>3
    <3>5. QED BY <1>1, <1>2, <1>6, <3>2, <3>3, <3>4
  <2>3. QED BY <2>1, <2>2
<1>10. ASSUME NEW p \in 1 .. Len(v)
       PROVE  \E k \in 1 .. n + 1 : \E i \in 1 .. Len(s[k]) : p = o[k] + i
  <2>1. CASE p <= Len(t)
    <3>1. p \in 1 .. Len(t)
      BY <1>1, <2>1
    <3>2. PICK k \in 1 .. n : \E i \in 1 .. Len(s[k]) : p = off[k] + i
      BY <3>1 DEF Layout
    <3>3. k \in 1 .. n + 1 /\ o[k] = off[k]
      BY <1>6
    <3>4. QED BY <3>2, <3>3
  <2>2. CASE ~(p <= Len(t))
    <3>1. p - Len(t) \in 1 .. Len(u) /\ p = Len(t) + (p - Len(t))
      BY <1>1, <1>2, <2>2
    <3>2. p - Len(t) \in 1 .. Len(s[n + 1]) /\ p = o[n + 1] + (p - Len(t)) /\ n + 1 \in 1 .. n + 1
      BY <1>7, <3>1 DEF u
    <3>3. QED BY <3>2
  <2>3. QED BY <2>1, <2>2
<1>11. (n + 1) + 1 = n + 2
  OBVIOUS
<1>12. Layout(v, o, s, n + 1)
  BY <1>2, <1>5, <1>7, <1>8, <1>9, <1>10, <1>11 DEF Layout
<1>13. QED BY <1>12 DEF u, v

\* Joined sequences stand one after the other.
LEMMA FlattenLayout ==
    ASSUME NEW X, NEW s, NEW n \in Nat, Len(s) = n, s \in Seq(Seq(X))
    PROVE  FlattenSeq(s) \in Seq(X) /\ \E off : Layout(FlattenSeq(s), off, s, n)
<1>1. \A i \in 1 .. n : s[i] \in Seq(X)
  OBVIOUS
<1>2. Layout(<<>>, [k \in 1 .. 1 |-> 0], s, 0)
  BY DEF Layout
<1>3. CASE n = 0
  <2>1. s = <<>>
    BY <1>3
  <2>2. FlattenSeq(s) = <<>>
    BY <2>1 DEF FlattenSeq
  <2>3. QED BY <1>2, <1>3, <2>2
<1>4. CASE n # 0
  <2>0. PICK f : JoinsAll(f, s, n, X)
    BY <1>1, <1>4, FlattenIs
  <2>1. f \in [1 .. n -> Seq(X)] /\ Joins(f, s, n) /\ FlattenSeq(s) = f[n]
    BY <2>0 DEF JoinsAll
  <2> DEFINE Laid(k) == \E off : Layout(f[k], off, s, k)
             Bad == {k \in 1 .. n : ~Laid(k)}
  <2>2. SUFFICES ASSUME Bad # {} PROVE FALSE
    <3>1. n \in 1 .. n /\ f[n] \in Seq(X)
      BY <1>4, <2>1
    <3> HIDE DEF Laid
    <3>2. Bad = {} => Laid(n)
      BY <3>1
    <3>3. QED BY <2>1, <2>2, <3>1, <3>2 DEF Laid
  <2>3. Bad \in SUBSET Nat
    OBVIOUS
  <2> HIDE DEF Bad
  <2>4. PICK k \in Bad : \A m \in Bad : k <= m
    BY <2>2, <2>3, Least
  <2>5. k \in 1 .. n /\ k \in Nat /\ ~Laid(k)
    BY <2>4 DEF Bad
  <2>6. s[k] \in Seq(X) /\ f[k] = IF k = 1 THEN s[k] ELSE f[k - 1] \o s[k]
    BY <1>1, <2>1, <2>5 DEF Joins
  <2>7. k # 1
    <3>1. SUFFICES ASSUME k = 1 PROVE FALSE
      OBVIOUS
    <3>2. <<>> \in Seq(X) /\ <<>> \o s[1] = s[1]
      BY <2>6, <3>1
    <3>3. \A i \in 1 .. 0 + 1 : s[i] \in Seq(X)
      BY <2>6, <3>1
    <3>4. 0 \in Nat /\ 0 + 1 = 1
      OBVIOUS
    <3>5. \E o : Layout(<<>> \o s[0 + 1], o, s, 0 + 1)
      BY <1>2, <3>2, <3>3, <3>4, LayoutLonger
    <3>6. QED BY <2>5, <2>6, <3>1, <3>2, <3>4, <3>5
  <2>8. k - 1 \in Nat /\ k - 1 \in 1 .. n /\ ~(k <= k - 1) /\ (k - 1) + 1 = k
    BY <2>5, <2>7
  <2>9. Laid(k - 1)
    <3>1. k - 1 \notin Bad
      BY <2>4, <2>8
    <3> HIDE DEF Laid
    <3>2. QED BY <2>8, <3>1 DEF Bad
  <2>10. PICK off : Layout(f[k - 1], off, s, k - 1)
    BY <2>9
  <2>11. f[k - 1] \in Seq(X) /\ \A i \in 1 .. (k - 1) + 1 : s[i] \in Seq(X)
    BY <1>1, <2>1, <2>5, <2>8
  <2>12. \E o : Layout(f[k - 1] \o s[(k - 1) + 1], o, s, (k - 1) + 1)
    BY <2>8, <2>10, <2>11, LayoutLonger
  <2>13. f[k] = f[k - 1] \o s[(k - 1) + 1]
    BY <2>6, <2>7, <2>8
  <2>14. QED BY <2>5, <2>8, <2>12, <2>13
<1>5. QED BY <1>3, <1>4

----------------------------------------------------------------------------
(* Lines *)

\* The four kinds of lines and what they carry.
LEMMA LineKinds ==
    /\ Blank \in Line /\ Blank.kind = "blank"
    /\ \A c \in Words : Note(c) \in Line /\ Note(c).kind = "note" /\ Note(c).text = c
    /\ \A l \in Line : l = Blank <=> l.kind = "blank"
    /\ \A l \in Line : l.kind = "note" => l.text \in Words
    /\ \A l \in Line : l.kind = "head" => l.group \in Groups
BY DEF Line, Blank, Note

\* A header that is rendered is a header, and rendering it again changes nothing.
LEMMA RenderHeadIs ==
    ASSUME NEW g \in Groups
    PROVE  /\ RenderHead(g) \in Line /\ RenderHead(g).kind = "head"
           /\ RenderHead(g).group \in Groups
           /\ RenderHead(RenderHead(g).group) = RenderHead(g)
           /\ (g.flags = "default" => g.cert = "") => RenderHead(g).group = g
<1>1. g.dom \in Seq(Words) /\ g.cert \in Words /\ g.flags \in {"default", "set"}
  BY DEF Groups
<1>2. CASE g.flags = "default" /\ g.cert # ""
  <2> DEFINE d == Append(g.dom, g.cert)
  <2>1. d \in Seq(Words)
    BY <1>1
  <2> DEFINE h == Group(d, "default", "")
  <2>2. RenderHead(g) = Header(h, FALSE)
    BY <1>2 DEF RenderHead
  <2> HIDE DEF d
  <2>3. h \in Groups /\ h.flags = "default" /\ h.cert = ""
    <3>1. h = [dom |-> d, flags |-> "default", cert |-> ""]
      BY DEF Group
    <3>2. "default" \in {"default", "set"} /\ "" \in Words
      BY WordsAssumption
    <3> HIDE DEF h
    <3>3. h \in Groups
      BY <2>1, <3>1, <3>2 DEF Groups
    <3>4. QED BY <3>1, <3>3
  <2> HIDE DEF h
  <2>4. Header(h, FALSE) \in Line /\ Header(h, FALSE).kind = "head" /\ Header(h, FALSE).group = h
    BY <2>3 DEF Header, Line
  <2>5. RenderHead(h) = Header(h, FALSE)
    BY <2>3 DEF RenderHead
  <2>6. QED BY <1>2, <2>2, <2>3, <2>4, <2>5
<1>3. CASE ~(g.flags = "default" /\ g.cert # "")
  <2>1. RenderHead(g) = Header(g, FALSE)
    BY <1>3 DEF RenderHead
  <2>2. Header(g, FALSE) \in Line /\ Header(g, FALSE).kind = "head" /\ Header(g, FALSE).group = g
    BY DEF Header, Line
  <2>3. QED BY <2>1, <2>2
<1>4. QED BY <1>2, <1>3

\* None of these lines is a header.
Headless(lines) == \A i \in DOMAIN lines : lines[i].kind # "head"

\* Part of a sequence of lines.
LEMMA Part ==
    ASSUME NEW X, NEW t \in Seq(X), NEW a \in Nat \ {0}, NEW b \in Nat, a <= b + 1, b <= Len(t)
    PROVE  /\ SubSeq(t, a, b) \in Seq(X) /\ Len(SubSeq(t, a, b)) = b - a + 1
           /\ \A i \in 1 .. b - a + 1 : SubSeq(t, a, b)[i] = t[a + i - 1]
<1>1. Len(t) \in Nat /\ \A i \in 1 .. Len(t) : t[i] \in X
  OBVIOUS
<1>2. \A i \in a .. b : t[i] \in X
  BY <1>1
<1>3. SubSeq(t, a, b) \in Seq(X)
  BY <1>2, SubSeqProperties
<1>4. Len(SubSeq(t, a, b)) = b - a + 1
  BY <1>1
<1>5. \A i \in 1 .. b - a + 1 : SubSeq(t, a, b)[i] = t[a + i - 1]
  BY <1>1, <1>4
<1>6. QED BY <1>3, <1>4, <1>5

\* Two sequences are the same when their elements are.
LEMMA SameSeq ==
    ASSUME NEW X, NEW s \in Seq(X), NEW t \in Seq(X), Len(s) = Len(t),
           \A i \in 1 .. Len(s) : s[i] = t[i]
    PROVE  s = t
BY SeqEqual

\* TrimTrailingBlank cuts after the last line that is not blank.
LEMMA TrimAt ==
    ASSUME NEW lines \in Seq(Line), NEW m \in 0 .. Len(lines),
           m # 0 => lines[m] # Blank, \A i \in m + 1 .. Len(lines) : lines[i] = Blank
    PROVE  TrimTrailingBlank(lines) = SubSeq(lines, 1, m)
<1> DEFINE S == {0} \cup {i \in DOMAIN lines : lines[i] # Blank}
<1>0. Len(lines) \in Nat /\ DOMAIN lines = 1 .. Len(lines) /\ m \in Nat
  OBVIOUS
<1>1. m \in S
  BY <1>0
<1>2. \A y \in S : y \in Nat /\ m >= y
  <2>1. ASSUME NEW y \in DOMAIN lines, lines[y] # Blank, ~(m >= y) PROVE FALSE
    <3>1. y \in m + 1 .. Len(lines)
      BY <1>0, <2>1
    <3>2. QED BY <2>1, <3>1
  <2>2. QED BY <1>0, <2>1
<1> HIDE DEF S
<1>3. Max(S) \in S /\ \A y \in S : Max(S) >= y
  BY <1>1, <1>2 DEF Max
<1>4. Max(S) = m
  <2> DEFINE x == Max(S)
  <2>1. x \in S /\ x >= m
    BY <1>1, <1>3
  <2> HIDE DEF x
  <2>2. x \in Nat /\ m >= x
    BY <1>2, <2>1
  <2>3. x = m
    BY <1>0, <2>1, <2>2
  <2>4. QED BY <2>3 DEF x
<1>5. QED BY <1>4 DEF TrimTrailingBlank, S

\* There is such a line, or no line is left.
LEMMA TrimIs ==
    ASSUME NEW lines \in Seq(Line)
    PROVE  \E m \in 0 .. Len(lines) :
             /\ m # 0 => lines[m] # Blank
             /\ \A i \in m + 1 .. Len(lines) : lines[i] = Blank
             /\ TrimTrailingBlank(lines) = SubSeq(lines, 1, m)
<1> DEFINE n == Len(lines)
           Good(d) == \A i \in n - d + 1 .. n : lines[i] = Blank
           Bad == {d \in 0 .. n : d = n \/ lines[n - d] # Blank}
<1>0. n \in Nat
  OBVIOUS
<1>1. Bad # {} /\ Bad \in SUBSET Nat
  <2>1. n \in Bad
    BY <1>0
  <2>2. QED BY <2>1
<1> HIDE DEF Bad
<1>2. PICK d \in Bad : \A e \in Bad : d <= e
  BY <1>1, Least
<1>3. d \in 0 .. n /\ (d = n \/ lines[n - d] # Blank)
  BY <1>2 DEF Bad
<1>4. ASSUME NEW i \in n - d + 1 .. n PROVE lines[i] = Blank
  <2>1. n - i \in 0 .. n /\ ~(d <= n - i) /\ n - i # n /\ n - (n - i) = i
    BY <1>0, <1>3
  <2>2. n - i \notin Bad
    BY <1>2, <2>1
  <2>3. QED BY <2>1, <2>2 DEF Bad
<1>5. n - d \in 0 .. n /\ (n - d # 0 => lines[n - d] # Blank)
  BY <1>0, <1>3
<1>6. TrimTrailingBlank(lines) = SubSeq(lines, 1, n - d)
  BY <1>4, <1>5, TrimAt
<1>7. QED BY <1>4, <1>5, <1>6

\* A trimmed body has its type, and no header if it had none.
LEMMA TrimType ==
    ASSUME NEW lines \in Seq(Line), Headless(lines)
    PROVE  TrimTrailingBlank(lines) \in Seq(Line) /\ Headless(TrimTrailingBlank(lines))
<1>1. PICK m \in 0 .. Len(lines) : TrimTrailingBlank(lines) = SubSeq(lines, 1, m)
  BY TrimIs
<1> DEFINE u == SubSeq(lines, 1, m)
<1>2. m \in Nat /\ Len(lines) \in Nat /\ 1 <= m + 1 /\ m <= Len(lines) /\ 1 \in Nat \ {0} /\ m - 1 + 1 = m
  BY <1>1
<1>3. u \in Seq(Line) /\ Len(u) = m /\ \A i \in 1 .. m : u[i] = lines[1 + i - 1]
  BY <1>2, Part
<1> HIDE DEF u
<1>4. \A i \in DOMAIN u : i \in DOMAIN lines /\ u[i] = lines[i]
  BY <1>2, <1>3
<1>5. Headless(u)
  BY <1>4 DEF Headless
<1>6. QED BY <1>1, <1>3, <1>5 DEF u

\* A line added.
LEMMA Added ==
    ASSUME NEW s \in Seq(Line), NEW l \in Line
    PROVE  /\ s \o <<l>> \in Seq(Line) /\ Len(s \o <<l>>) = Len(s) + 1
           /\ (s \o <<l>>)[Len(s) + 1] = l
           /\ \A i \in 1 .. Len(s) : (s \o <<l>>)[i] = s[i]
<1>1. Len(s) \in Nat /\ s \o <<l>> = Append(s, l)
  OBVIOUS
<1>2. QED BY <1>1, AppendProperties

\* A blank line added.
LEMMA Ended ==
    ASSUME NEW s \in Seq(Line)
    PROVE  /\ s \o <<Blank>> \in Seq(Line) /\ Len(s \o <<Blank>>) = Len(s) + 1
           /\ (s \o <<Blank>>)[Len(s) + 1] = Blank
           /\ \A i \in 1 .. Len(s) : (s \o <<Blank>>)[i] = s[i]
BY LineKinds, Added

\* Trimmed, with a blank line added, and trimmed again: as after the first time.
LEMMA TrimAgain ==
    ASSUME NEW lines \in Seq(Line)
    PROVE  TrimTrailingBlank(TrimTrailingBlank(lines) \o <<Blank>>) = TrimTrailingBlank(lines)
<1>1. PICK m \in 0 .. Len(lines) :
          (m # 0 => lines[m] # Blank) /\ TrimTrailingBlank(lines) = SubSeq(lines, 1, m)
  BY TrimIs
<1> DEFINE u == SubSeq(lines, 1, m)
           v == u \o <<Blank>>
<1>2. m \in Nat /\ Len(lines) \in Nat /\ 1 <= m + 1 /\ m <= Len(lines) /\ 1 \in Nat \ {0} /\ m - 1 + 1 = m
  BY <1>1
<1>3. u \in Seq(Line) /\ Len(u) = m /\ \A i \in 1 .. m : u[i] = lines[1 + i - 1]
  BY <1>2, Part
<1> HIDE DEF u
<1>4. v \in Seq(Line) /\ Len(v) = m + 1 /\ v[m + 1] = Blank /\ \A i \in 1 .. m : v[i] = u[i]
  BY <1>2, <1>3, Ended
<1> HIDE DEF v
<1>5. m \in 0 .. Len(v) /\ (m # 0 => v[m] # Blank) /\ \A i \in m + 1 .. Len(v) : v[i] = Blank
  <2>1. m # 0 => m \in 1 .. m /\ 1 + m - 1 = m
    BY <1>2
  <2>2. QED BY <1>1, <1>2, <1>3, <1>4, <2>1
<1>6. TrimTrailingBlank(v) = SubSeq(v, 1, m)
  BY <1>4, <1>5, TrimAt
<1>7. SubSeq(v, 1, m) \in Seq(Line) /\ Len(SubSeq(v, 1, m)) = m
      /\ \A i \in 1 .. m : SubSeq(v, 1, m)[i] = v[1 + i - 1]
  BY <1>2, <1>4, Part
<1>8. \A i \in 1 .. m : SubSeq(v, 1, m)[i] = u[i]
  BY <1>4, <1>7
<1>9. SubSeq(v, 1, m) = u
  BY <1>3, <1>7, <1>8, SameSeq
<1>10. QED BY <1>1, <1>6, <1>9 DEF u, v

----------------------------------------------------------------------------
(* Reading *)

\* The label above a header is a word.
LEMMA PendingType ==
    ASSUME NEW t \in Seq(Line), NEW a \in Nat \ {0}, NEW h \in a .. Len(t) + 1
    PROVE  Pending(t, a, h) \in Words
<1>1. CASE h > a /\ IsNote(t, h - 1)
  <2>1. h - 1 \in 1 .. Len(t)
    BY <1>1
  <2>2. t[h - 1] \in Line
    BY <2>1, ElementOfSeq
  <2>3. t[h - 1].text \in Words
    BY <1>1, <2>2, LineKinds DEF IsNote
  <2>4. QED BY <1>1, <2>3 DEF Pending
<1>2. CASE ~(h > a /\ IsNote(t, h - 1))
  BY <1>2, WordsAssumption DEF Pending
<1>3. QED BY <1>1, <1>2

\* scanUpToHeader stops at line e: what it leaves out, up to line h, are comments.
LEMMA ScanStops ==
    ASSUME NEW t \in Seq(Line), NEW a \in Nat \ {0}, NEW h \in a .. Len(t) + 1
    PROVE  \E e \in a .. h : /\ Scan(t, a, h) = SubSeq(t, a, e - 1)
                            /\ \A i \in e .. h - 1 : IsNote(t, i)
<1> DEFINE S == {j \in a .. h : \A k \in j .. h - 1 : IsNote(t, k)}
<1>0. h \in Nat /\ h \in a .. h /\ \A i \in h .. h - 1 : FALSE
  OBVIOUS
<1>1. CASE Pending(t, a, h) = ""
  <2>1. Scan(t, a, h) = SubSeq(t, a, h - 1)
    BY <1>1 DEF Scan
  <2>2. QED BY <1>0, <2>1
<1>2. CASE Pending(t, a, h) # ""
  <2>1. S # {} /\ S \in SUBSET Nat
    <3>1. h \in S
      BY <1>0
    <3>2. S \subseteq a .. h /\ a .. h \subseteq Nat
      OBVIOUS
    <3> HIDE DEF S
    <3>3. QED BY <3>1, <3>2
  <2> HIDE DEF S
  <2>3. PICK n \in S : \A m \in S : n <= m
    BY <2>1, Least
  <2>4. Min(S) \in S
    BY <2>3 DEF Min
  <2>5. RunStart(t, a, h) = Min(S)
    BY DEF RunStart, S
  <2>6. Scan(t, a, h) = SubSeq(t, a, Min(S) - 1)
    BY <1>2, <2>5 DEF Scan
  <2>7. Min(S) \in a .. h /\ \A i \in Min(S) .. h - 1 : IsNote(t, i)
    BY <2>4 DEF S
  <2>8. QED BY <2>6, <2>7
<1>3. QED BY <1>1, <1>2

\* Sequences with the same sites in the same places.
LEMMA SameSites ==
    ASSUME NEW u \in Seq(Line), NEW v \in Seq(Line), Len(u) <= Len(v),
           \A i \in 1 .. Len(u) : u[i] = v[i],
           \A i \in Len(u) + 1 .. Len(v) : v[i].kind # "site"
    PROVE  SitesOf(u) = SitesOf(v)
<1> DEFINE S(l) == {i \in DOMAIN l : l[i].kind = "site"}
<1>0. Len(u) \in Nat /\ Len(v) \in Nat /\ DOMAIN u = 1 .. Len(u) /\ DOMAIN v = 1 .. Len(v)
  OBVIOUS
<1>1. S(u) = S(v)
  <2>1. \A i \in 1 .. Len(v) : i \in 1 .. Len(u) \/ i \in Len(u) + 1 .. Len(v)
    BY <1>0
  <2>2. \A i \in 1 .. Len(u) : i \in 1 .. Len(v)
    BY <1>0
  <2>3. QED BY <1>0, <2>1, <2>2
<1> DEFINE at == InOrder(S(u))
<1>2. PICK n \in Nat : Lists(at, n, S(u))
  <2>1. \A i \in S(u) : i \in Nat /\ i > 0 /\ i <= Len(u)
    BY <1>0
  <2> HIDE DEF S
  <2>2. QED BY <1>0, <2>1, InOrderLists
<1>3. \A k \in DOMAIN at : at[k] \in 1 .. Len(u)
  <2>1. at \in [1 .. n -> S(u)]
    BY <1>2 DEF Lists
  <2>2. S(u) \subseteq 1 .. Len(u)
    BY <1>0
  <2> HIDE DEF S, at
  <2>3. QED BY <2>1, <2>2
<1>4. SitesOf(u) = [k \in DOMAIN at |-> u[at[k]]]
  BY DEF SitesOf
<1>5. SitesOf(v) = [k \in DOMAIN at |-> v[at[k]]]
  BY <1>1 DEF SitesOf
<1> HIDE DEF at
<1>6. QED BY <1>3, <1>4, <1>5

\* Trimmed, with a blank line or not, a body has the same sites.
LEMMA TrimSites ==
    ASSUME NEW lines \in Seq(Line)
    PROVE  SitesOf(TrimTrailingBlank(lines) \o <<Blank>>) = SitesOf(lines)
<1>1. PICK m \in 0 .. Len(lines) :
          /\ \A i \in m + 1 .. Len(lines) : lines[i] = Blank
          /\ TrimTrailingBlank(lines) = SubSeq(lines, 1, m)
  BY TrimIs
<1> DEFINE u == SubSeq(lines, 1, m)
           v == u \o <<Blank>>
<1>2. m \in Nat /\ Len(lines) \in Nat /\ 1 <= m + 1 /\ m <= Len(lines) /\ 1 \in Nat \ {0} /\ m - 1 + 1 = m
  BY <1>1
<1>3. u \in Seq(Line) /\ Len(u) = m /\ \A i \in 1 .. m : u[i] = lines[1 + i - 1]
  BY <1>2, Part
<1>4. \A i \in 1 .. m : u[i] = lines[i]
  BY <1>2, <1>3
<1> HIDE DEF u
<1>5. v \in Seq(Line) /\ Len(v) = m + 1 /\ v[m + 1] = Blank /\ \A i \in 1 .. m : v[i] = u[i]
  BY <1>2, <1>3, Ended
<1> HIDE DEF v
<1>6. Blank.kind # "site"
  BY LineKinds
<1>7. SitesOf(u) = SitesOf(lines)
  <2>1. \A i \in Len(u) + 1 .. Len(lines) : lines[i].kind # "site"
    BY <1>1, <1>3, <1>6
  <2>2. QED BY <1>2, <1>3, <1>4, <2>1, SameSites
<1>8. SitesOf(u) = SitesOf(v)
  <2>1. \A i \in Len(u) + 1 .. Len(v) : v[i].kind # "site"
    <3>1. \A i \in Len(u) + 1 .. Len(v) : i = m + 1
      BY <1>2, <1>3, <1>5
    <3>2. QED BY <1>5, <1>6, <3>1
  <2>2. Len(u) <= Len(v) /\ \A i \in 1 .. Len(u) : u[i] = v[i]
    BY <1>2, <1>3, <1>5
  <2>3. QED BY <1>3, <1>5, <2>1, <2>2, SameSites
<1>9. QED BY <1>1, <1>7, <1>8 DEF u, v

\* A block as it is read and written.
BlockType == [label : Words, group : Groups, body : Seq(Line)]

HeadLines(t) == {i \in DOMAIN t : IsHead(t, i)}

\* The headers are found in order.
LEMMA HeadsAre ==
    ASSUME NEW t \in Seq(Line)
    PROVE  \E n \in Nat : Len(HeadsOf(t)) = n /\ Lists(HeadsOf(t), n, HeadLines(t))
<1>1. \A i \in HeadLines(t) : i \in Nat /\ i > 0 /\ i <= Len(t)
  BY DEF HeadLines
<1>2. Len(t) \in Nat
  OBVIOUS
<1>3. PICK n \in Nat : Lists(InOrder(HeadLines(t)), n, HeadLines(t))
  BY <1>1, <1>2, InOrderLists
<1>4. InOrder(HeadLines(t)) = HeadsOf(t)
  BY DEF HeadsOf, HeadLines
<1>5. Len(HeadsOf(t)) = n
  BY <1>3, <1>4 DEF Lists
<1>6. QED BY <1>3, <1>4, <1>5

\* Between two headers that follow each other there is none.
LEMMA NoneBetween ==
    ASSUME NEW t \in Seq(Line), NEW hs, NEW n \in Nat, Lists(hs, n, HeadLines(t))
    PROVE  /\ \A k \in 1 .. n : hs[k] \in 1 .. Len(t) /\ IsHead(t, hs[k])
           /\ \A k \in 1 .. n : \A i \in 1 .. Len(t) :
                /\ k < n /\ hs[k] < i /\ i < hs[k + 1] => ~IsHead(t, i)
                /\ k = n /\ hs[k] < i => ~IsHead(t, i)
                /\ k = 1 /\ i < hs[k] => ~IsHead(t, i)
           /\ n = 0 => \A i \in 1 .. Len(t) : ~IsHead(t, i)
<1>0. Len(t) \in Nat /\ DOMAIN t = 1 .. Len(t)
  OBVIOUS
<1>1. \A k \in 1 .. n : hs[k] \in 1 .. Len(t) /\ IsHead(t, hs[k])
  BY <1>0 DEF Lists, HeadLines
<1>2. \A j, k \in 1 .. n : j < k => hs[j] < hs[k]
  BY DEF Lists
<1>3. \A i \in 1 .. Len(t) : IsHead(t, i) => \E j \in 1 .. n : hs[j] = i
  BY <1>0 DEF Lists, HeadLines
<1>4. ASSUME NEW k \in 1 .. n, NEW i \in 1 .. Len(t), IsHead(t, i)
      PROVE  /\ ~(k < n /\ hs[k] < i /\ i < hs[k + 1])
             /\ ~(k = n /\ hs[k] < i)
             /\ ~(k = 1 /\ i < hs[k])
  <2>1. PICK j \in 1 .. n : hs[j] = i
    BY <1>3, <1>4
  <2>2. CASE j = k
    BY <1>1, <2>1, <2>2
  <2>3. CASE j < k
    <3>1. hs[j] < hs[k] /\ k # 1
      BY <1>2, <2>3
    <3>2. QED BY <1>1, <2>1, <3>1
  <2>4. CASE k < j
    <3>1. hs[k] < hs[j] /\ k # n /\ k + 1 \in 1 .. n
      BY <1>2, <2>4
    <3>2. j = k + 1 \/ k + 1 < j
      BY <2>4
    <3>3. hs[k + 1] <= hs[j]
      BY <1>1, <1>2, <3>1, <3>2
    <3>4. QED BY <1>1, <2>1, <3>1, <3>3
  <2>5. QED BY <2>2, <2>3, <2>4
<1>5. n = 0 => \A i \in 1 .. Len(t) : ~IsHead(t, i)
  BY <1>3
<1>6. QED BY <1>1, <1>4, <1>5

\* What scanUpToHeader returns has no header, if there is none on the way.
LEMMA ScanType ==
    ASSUME NEW t \in Seq(Line), NEW a \in Nat \ {0}, NEW h \in a .. Len(t) + 1,
           \A i \in a .. h - 1 : ~IsHead(t, i)
    PROVE  /\ Scan(t, a, h) \in Seq(Line) /\ Headless(Scan(t, a, h))
           /\ SitesOf(Scan(t, a, h)) = SitesOf(SubSeq(t, a, h - 1))
<1>1. PICK e \in a .. h : /\ Scan(t, a, h) = SubSeq(t, a, e - 1)
                          /\ \A i \in e .. h - 1 : IsNote(t, i)
  BY ScanStops
<1>2. Len(t) \in Nat /\ e - 1 \in Nat /\ h - 1 \in Nat
      /\ a <= (e - 1) + 1 /\ e - 1 <= Len(t) /\ a <= (h - 1) + 1 /\ h - 1 <= Len(t)
  OBVIOUS
<1> DEFINE u == SubSeq(t, a, e - 1)
           v == SubSeq(t, a, h - 1)
<1>3. u \in Seq(Line) /\ Len(u) = (e - 1) - a + 1 /\ \A i \in 1 .. (e - 1) - a + 1 : u[i] = t[a + i - 1]
  BY <1>2, Part
<1>4. v \in Seq(Line) /\ Len(v) = (h - 1) - a + 1 /\ \A i \in 1 .. (h - 1) - a + 1 : v[i] = t[a + i - 1]
  BY <1>2, Part
<1> HIDE DEF u, v
<1>5. Headless(u)
  <2>1. ASSUME NEW i \in DOMAIN u PROVE u[i].kind # "head"
    <3>1. i \in 1 .. (e - 1) - a + 1
      BY <1>2, <1>3
    <3>2. a + i - 1 \in a .. h - 1
      BY <1>2, <3>1
    <3>3. ~IsHead(t, a + i - 1) /\ u[i] = t[a + i - 1]
      BY <1>3, <3>1, <3>2
    <3>4. QED BY <3>3 DEF IsHead
  <2>2. QED BY <2>1 DEF Headless
<1>6. SitesOf(u) = SitesOf(v)
  <2>1. Len(u) <= Len(v)
    BY <1>2, <1>3, <1>4
  <2>2. \A i \in 1 .. Len(u) : u[i] = v[i]
    BY <1>2, <1>3, <1>4
  <2>3. ASSUME NEW i \in Len(u) + 1 .. Len(v) PROVE v[i].kind # "site"
    <3>1. i \in 1 .. (h - 1) - a + 1 /\ a + i - 1 \in e .. h - 1
      BY <1>2, <1>3, <1>4
    <3>2. v[i] = t[a + i - 1] /\ IsNote(t, a + i - 1)
      BY <1>1, <1>4, <3>1
    <3>3. QED BY <3>2 DEF IsNote
  <2>4. QED BY <1>3, <1>4, <2>1, <2>2, <2>3, SameSites
<1>7. QED BY <1>1, <1>3, <1>5, <1>6 DEF u, v

\* What reading a text of n groups gives: typed blocks and a preamble without
\* headers, and to parseSites the same groups with the same sites.
Reads(t, n) ==
    /\ Len(HeadsOf(t)) = n
    /\ Blocks(t) \in [1 .. n -> BlockType]
    /\ \A k \in 1 .. n : Headless(Blocks(t)[k].body)
    /\ Preamble(t) \in Seq(Line) /\ Headless(Preamble(t))
    /\ \A k \in 1 .. n : ParsedGroup(t, k) = [group |-> Blocks(t)[k].group,
                                             sites |-> SitesOf(Blocks(t)[k].body)]

\* Every text is read so.
LEMMA ReadsText ==
    ASSUME NEW t \in Seq(Line)
    PROVE  \E n \in Nat : Reads(t, n)
<1>1. PICK n \in Nat : Len(HeadsOf(t)) = n /\ Lists(HeadsOf(t), n, HeadLines(t))
  BY HeadsAre
<1> DEFINE hs == HeadsOf(t)
           end(k) == IF k = n THEN Len(t) + 1 ELSE hs[k + 1]
           begin(k) == IF k = 1 THEN 1 ELSE hs[k - 1] + 1
<1>2. DOMAIN hs = 1 .. n /\ Len(hs) = n /\ \A j, k \in 1 .. n : j < k => hs[j] < hs[k]
  BY <1>1 DEF Lists
<1> HIDE DEF hs
<1>3. Lists(hs, n, HeadLines(t))
  BY <1>1 DEF hs
<1>4. /\ \A k \in 1 .. n : hs[k] \in 1 .. Len(t) /\ IsHead(t, hs[k])
      /\ \A k \in 1 .. n : \A i \in 1 .. Len(t) :
           /\ k < n /\ hs[k] < i /\ i < hs[k + 1] => ~IsHead(t, i)
           /\ k = n /\ hs[k] < i => ~IsHead(t, i)
           /\ k = 1 /\ i < hs[k] => ~IsHead(t, i)
      /\ n = 0 => \A i \in 1 .. Len(t) : ~IsHead(t, i)
  BY <1>3, NoneBetween
<1>5. Len(t) \in Nat /\ DOMAIN t = 1 .. Len(t)
  OBVIOUS
<1>6. Blocks(t) = [k \in 1 .. n |->
                     [label |-> Pending(t, begin(k), hs[k]), group |-> t[hs[k]].group,
                      body |-> Scan(t, hs[k] + 1, end(k))]]
  BY <1>2 DEF Blocks, hs
<1>7. ASSUME NEW k \in 1 .. n
      PROVE  /\ Blocks(t)[k] \in BlockType /\ Headless(Blocks(t)[k].body)
             /\ ParsedGroup(t, k) = [group |-> Blocks(t)[k].group,
                                     sites |-> SitesOf(Blocks(t)[k].body)]
  <2> DEFINE body == Scan(t, hs[k] + 1, end(k))
             label == Pending(t, begin(k), hs[k])
             group == t[hs[k]].group
  <2>1. hs[k] \in 1 .. Len(t) /\ hs[k] + 1 \in Nat \ {0}
    BY <1>4
  <2>2. end(k) \in hs[k] + 1 .. Len(t) + 1
    <3>1. CASE k = n
      BY <2>1, <3>1
    <3>2. CASE k # n
      <4>1. k + 1 \in 1 .. n /\ k < k + 1
        BY <3>2
      <4>2. hs[k] < hs[k + 1] /\ hs[k + 1] \in 1 .. Len(t)
        BY <1>2, <1>4, <4>1
      <4>3. QED BY <2>1, <3>2, <4>2
    <3>3. QED BY <3>1, <3>2
  <2>3. \A i \in hs[k] + 1 .. end(k) - 1 : ~IsHead(t, i)
    <3>1. CASE k = n
      <4>1. \A i \in hs[k] + 1 .. end(k) - 1 : i \in 1 .. Len(t) /\ hs[k] < i
        BY <1>5, <2>1, <3>1
      <4>2. QED BY <1>4, <3>1, <4>1
    <3>2. CASE k # n
      <4>1. k < n /\ end(k) = hs[k + 1] /\ end(k) \in Nat
        BY <2>1, <2>2, <3>2
      <4>2. \A i \in hs[k] + 1 .. end(k) - 1 : i \in 1 .. Len(t) /\ hs[k] < i /\ i < end(k)
        BY <1>5, <2>1, <2>2, <4>1
      <4>3. QED BY <1>4, <4>1, <4>2
    <3>3. QED BY <3>1, <3>2
  <2>4. /\ body \in Seq(Line) /\ Headless(body)
        /\ SitesOf(body) = SitesOf(SubSeq(t, hs[k] + 1, end(k) - 1))
    <3> HIDE DEF end
    <3>1. QED BY <2>1, <2>2, <2>3, ScanType
  <2>5. label \in Words
    <3>1. CASE k = 1
      <4>1. 1 \in Nat \ {0} /\ hs[k] \in 1 .. Len(t) + 1
        BY <2>1
      <4>2. QED BY <3>1, <4>1, PendingType
    <3>2. CASE k # 1
      <4>1. k - 1 \in 1 .. n /\ k - 1 < k
        BY <3>2
      <4>2. hs[k - 1] \in 1 .. Len(t) /\ hs[k - 1] < hs[k]
        BY <1>2, <1>4, <4>1
      <4>3. hs[k - 1] + 1 \in Nat \ {0} /\ hs[k] \in hs[k - 1] + 1 .. Len(t) + 1
        BY <1>5, <2>1, <4>2
      <4>4. QED BY <3>2, <4>3, PendingType
    <3>3. QED BY <3>1, <3>2
  <2>6. group \in Groups
    <3>1. t[hs[k]] \in Line /\ t[hs[k]].kind = "head"
      BY <1>4, <2>1, ElementOfSeq DEF IsHead
    <3>2. QED BY <3>1, LineKinds
  <2>7. Blocks(t)[k] = [label |-> label, group |-> group, body |-> body]
    BY <1>6
  <2>8. ParsedGroup(t, k) = [group |-> group, sites |-> SitesOf(SubSeq(t, hs[k] + 1, end(k) - 1))]
    <3> DEFINE last == IF k = n THEN Len(t) ELSE hs[k + 1] - 1
    <3>1. last = end(k) - 1
      BY <1>5
    <3>2. ParsedGroup(t, k) = [group |-> group, sites |-> SitesOf(SubSeq(t, hs[k] + 1, last))]
      BY <1>2 DEF ParsedGroup, hs
    <3> HIDE DEF last
    <3>3. QED BY <3>1, <3>2
  <2> HIDE DEF body, label, group
  <2>9. Blocks(t)[k] \in BlockType
    BY <2>4, <2>5, <2>6, <2>7 DEF BlockType
  <2>10. Blocks(t)[k].body = body /\ Blocks(t)[k].group = group
    BY <2>7
  <2>11. QED BY <2>4, <2>8, <2>9, <2>10
<1>8. Preamble(t) \in Seq(Line) /\ Headless(Preamble(t))
  <2>1. CASE n = 0
    <3>1. Preamble(t) = t
      BY <1>1, <2>1 DEF Preamble, Lists
    <3>2. QED BY <1>4, <1>5, <2>1, <3>1 DEF Headless, IsHead
  <2>2. CASE n # 0
    <3>1. 1 \in 1 .. n /\ hs # <<>>
      BY <1>2, <2>2
    <3>2. Preamble(t) = Scan(t, 1, hs[1])
      BY <3>1 DEF Preamble, hs
    <3>3. hs[1] \in 1 .. Len(t) + 1 /\ 1 \in Nat \ {0}
      BY <1>4, <1>5, <3>1
    <3>4. \A i \in 1 .. hs[1] - 1 : i \in 1 .. Len(t) /\ i < hs[1]
      BY <1>5, <3>3
    <3>5. \A i \in 1 .. hs[1] - 1 : ~IsHead(t, i)
      BY <1>4, <3>1, <3>4
    <3>6. QED BY <3>2, <3>3, <3>5, ScanType
  <2>3. QED BY <2>1, <2>2
<1>9. Blocks(t) \in [1 .. n -> BlockType]
  <2>1. DOMAIN Blocks(t) = 1 .. n
    BY <1>6
  <2>2. Blocks(t) = [k \in 1 .. n |-> Blocks(t)[k]]
    BY <1>6
  <2>3. \A k \in 1 .. n : Blocks(t)[k] \in BlockType
    BY <1>7
  <2>4. QED BY <2>2, <2>3
<1>10. QED BY <1>1, <1>7, <1>8, <1>9 DEF Reads

----------------------------------------------------------------------------
(* Writing *)

\* Two sequences joined.
LEMMA Joined ==
    ASSUME NEW X, NEW s \in Seq(X), NEW t \in Seq(X)
    PROVE  /\ s \o t \in Seq(X) /\ Len(s \o t) = Len(s) + Len(t)
           /\ \A i \in 1 .. Len(s) : (s \o t)[i] = s[i]
           /\ \A i \in 1 .. Len(t) : (s \o t)[Len(s) + i] = t[i]
<1>1. Len(s) \in Nat /\ Len(t) \in Nat
  OBVIOUS
<1>2. s \o t \in Seq(X) /\ Len(s \o t) = Len(s) + Len(t)
      /\ \A i \in 1 .. Len(s) : (s \o t)[i] = s[i]
  BY <1>1, ConcatProperties
<1>3. ASSUME NEW i \in 1 .. Len(t) PROVE (s \o t)[Len(s) + i] = t[i]
  <2>1. Len(s) + i \in 1 .. Len(s) + Len(t) /\ ~(Len(s) + i <= Len(s)) /\ Len(s) + i - Len(s) = i
    BY <1>1
  <2>2. QED BY <1>1, <2>1, ConcatProperties
<1>4. QED BY <1>2, <1>3

\* The preamble is terminated once.
LEMMA TerminatedIs ==
    ASSUME NEW pre \in Seq(Line), Headless(pre)
    PROVE  /\ Terminated(pre) \in Seq(Line) /\ Headless(Terminated(pre))
           /\ Terminated(Terminated(pre) \o <<Blank>>) = Terminated(pre)
<1> DEFINE P == Terminated(pre)
           Q == P \o <<Blank>>
<1>1. P \in Seq(Line) /\ Headless(P)
  <2>1. <<>> \in Seq(Line) /\ Headless(<<>>)
    BY DEF Headless
  <2>2. CASE pre # <<>>
    <3>1. Len(pre) \in Nat \ {0}
      BY <2>2
    <3>2. Len(pre) - 1 \in Nat /\ 1 <= (Len(pre) - 1) + 1 /\ Len(pre) - 1 <= Len(pre) /\ 1 \in Nat \ {0}
          /\ (Len(pre) - 1) - 1 + 1 = Len(pre) - 1
      BY <3>1
    <3>3. Front(pre) \in Seq(Line) /\ Len(Front(pre)) = Len(pre) - 1
          /\ \A i \in 1 .. Len(pre) - 1 : Front(pre)[i] = pre[1 + i - 1]
      BY <3>2, Part DEF Front
    <3>4. \A i \in DOMAIN Front(pre) : i \in DOMAIN pre /\ Front(pre)[i] = pre[i]
      BY <3>1, <3>3
    <3>5. Headless(Front(pre))
      BY <3>4 DEF Headless
    <3>6. QED BY <2>1, <3>3, <3>5 DEF Terminated
  <2>3. QED BY <2>1, <2>2 DEF Terminated
<1> HIDE DEF P
<1>2. Q \in Seq(Line) /\ Len(Q) = Len(P) + 1 /\ Q[Len(P) + 1] = Blank
      /\ \A i \in 1 .. Len(P) : Q[i] = P[i]
  BY <1>1, Ended
<1>3. CASE P = <<>>
  <2>1. Q = <<Blank>>
    BY <1>3
  <2>2. Terminated(Q) = <<>>
    BY <2>1 DEF Terminated
  <2>3. QED BY <1>1, <1>3, <2>2 DEF P
<1>4. CASE P # <<>>
  <2>1. Len(P) \in Nat /\ Len(P) # 0
    BY <1>1, <1>4
  <2>2. Q \notin {<<>>, <<Blank>>} /\ Last(Q) = Blank
    BY <1>2, <2>1 DEF Last
  <2> HIDE DEF Q
  <2>3. Terminated(Q) = Front(Q)
    BY <2>2 DEF Terminated
  <2>4. Len(P) \in Nat /\ 1 <= Len(P) + 1 /\ Len(P) <= Len(Q) /\ 1 \in Nat \ {0} /\ Len(P) - 1 + 1 = Len(P)
        /\ Len(Q) - 1 = Len(P)
    BY <1>2, <2>1
  <2>5. Front(Q) \in Seq(Line) /\ Len(Front(Q)) = Len(P)
        /\ \A i \in 1 .. Len(P) : Front(Q)[i] = Q[1 + i - 1]
    BY <1>2, <2>4, Part DEF Front
  <2>6. \A i \in 1 .. Len(P) : Front(Q)[i] = P[i]
    BY <1>2, <2>1, <2>5
  <2>7. Front(Q) = P
    BY <1>1, <2>5, <2>6, SameSeq
  <2>8. QED BY <1>1, <2>3, <2>7 DEF P, Q
<1>5. QED BY <1>3, <1>4

\* A block has a label.  (Named, because the SMT backend cannot read "".)
Labelled(b) == b.label # ""

\* Where the header stands in a block that is rendered.
HeadAt(b) == IF Labelled(b) THEN 3 ELSE 2

\* It is the third line, or the second.
LEMMA HeadAtIs ==
    ASSUME NEW b
    PROVE  HeadAt(b) \in 2 .. 3 /\ (Labelled(b) => HeadAt(b) = 3) /\ (~Labelled(b) => HeadAt(b) = 2)
BY DEF HeadAt

\* A block that is rendered: a blank line, the label, the header, the body.
LEMMA RenderIs ==
    ASSUME NEW b \in BlockType
    PROVE  LET r == RenderBlock(b)
               body == TrimTrailingBlank(b.body)
           IN /\ r \in Seq(Line) /\ body \in Seq(Line)
              /\ Len(r) = HeadAt(b) + Len(body)
              /\ r[1] = Blank /\ r[HeadAt(b)] = RenderHead(b.group)
              /\ Labelled(b) => r[2] = Note(b.label)
              /\ \A i \in 1 .. Len(body) : r[HeadAt(b) + i] = body[i]
<1>1. b.label \in Words /\ b.group \in Groups /\ b.body \in Seq(Line)
  BY DEF BlockType
<1> DEFINE body == TrimTrailingBlank(b.body)
           head == RenderHead(b.group)
           label == IF Labelled(b) THEN <<Note(b.label)>> ELSE <<>>
           front == (<<Blank>> \o label) \o <<head>>
<1>2. body \in Seq(Line)
  <2>1. PICK m \in 0 .. Len(b.body) : body = SubSeq(b.body, 1, m)
    BY <1>1, TrimIs
  <2>2. m \in Nat /\ 1 <= m + 1 /\ m <= Len(b.body) /\ 1 \in Nat \ {0}
    BY <1>1
  <2>3. QED BY <1>1, <2>1, <2>2, Part
<1>3. head \in Line /\ Note(b.label) \in Line /\ Blank \in Line
  BY <1>1, RenderHeadIs, LineKinds
<1>4. RenderBlock(b) = front \o body
  BY DEF RenderBlock, Labelled
<1> HIDE DEF body, head
<1> DEFINE q == <<Blank>> \o label
<1>5. q \in Seq(Line) /\ Len(q) = HeadAt(b) - 1 /\ q[1] = Blank /\ (Labelled(b) => q[2] = Note(b.label))
  <2>1. <<Blank>> \in Seq(Line) /\ Len(<<Blank>>) = 1 /\ <<Blank>>[1] = Blank
    BY <1>3
  <2>2. CASE Labelled(b)
    <3> DEFINE l == Note(b.label)
               u == <<Blank>>
    <3>1. q = <<Blank>> \o <<Note(b.label)>>
      BY <2>2
    <3> HIDE DEF q, l, u
    <3>2. u \in Seq(Line) /\ Len(u) = 1 /\ u[1] = Blank /\ l \in Line /\ q = u \o <<l>>
      BY <1>3, <2>1, <3>1 DEF u, l
    <3>3. q \in Seq(Line) /\ Len(q) = 2 /\ q[1] = Blank /\ q[2] = l
      <4>1. /\ u \o <<l>> \in Seq(Line) /\ Len(u \o <<l>>) = Len(u) + 1
            /\ (u \o <<l>>)[Len(u) + 1] = l
            /\ \A i \in 1 .. Len(u) : (u \o <<l>>)[i] = u[i]
        BY <3>2, Added
      <4>2. QED BY <3>2, <4>1
    <3>4. HeadAt(b) = 3
      BY <2>2, HeadAtIs
    <3>5. HeadAt(b) - 1 = 2
      BY <3>4
    <3>6. Len(q) = HeadAt(b) - 1
      BY <3>3, <3>5
    <3>7. QED BY <3>3, <3>6 DEF l
  <2>3. CASE ~Labelled(b)
    <3>1. label = <<>>
      BY <2>3
    <3>2. q = <<Blank>>
      BY <2>1, <3>1, ConcatEmptySeq
    <3>3. HeadAt(b) = 2
      BY <2>3, HeadAtIs
    <3>4. HeadAt(b) - 1 = 1
      BY <3>3
    <3> HIDE DEF q
    <3>5. Len(q) = HeadAt(b) - 1 /\ q[1] = Blank
      BY <2>1, <3>2, <3>4
    <3>6. QED BY <2>1, <2>3, <3>2, <3>5
  <2>4. QED BY <2>2, <2>3
<1>6. /\ front \in Seq(Line) /\ Len(front) = HeadAt(b) /\ front[1] = Blank /\ front[HeadAt(b)] = head
      /\ Labelled(b) => front[2] = Note(b.label)
  <2>1. front = q \o <<head>>
    OBVIOUS
  <2> HIDE DEF front, q
  <2>2. /\ q \o <<head>> \in Seq(Line) /\ Len(q \o <<head>>) = Len(q) + 1
        /\ (q \o <<head>>)[Len(q) + 1] = head
        /\ \A i \in 1 .. Len(q) : (q \o <<head>>)[i] = q[i]
    BY <1>3, <1>5, Added
  <2>3. HeadAt(b) \in Nat /\ 1 \in 1 .. HeadAt(b) - 1 /\ (Labelled(b) => 2 \in 1 .. HeadAt(b) - 1)
    <3> DEFINE c == HeadAt(b)
    <3>1. c \in 2 .. 3 /\ (Labelled(b) => c = 3)
      BY HeadAtIs
    <3> HIDE DEF c
    <3>2. c \in Nat /\ 1 \in 1 .. c - 1
      BY <3>1
    <3>3. Labelled(b) => 2 \in 1 .. c - 1
      BY <3>1
    <3>4. QED BY <3>2, <3>3 DEF c
  <2>4. Len(q) + 1 = HeadAt(b)
    <3>1. Len(q) = HeadAt(b) - 1
      BY <1>5
    <3> HIDE DEF HeadAt
    <3>2. HeadAt(b) \in Nat
      BY <2>3
    <3>3. QED BY <3>1, <3>2
  <2>5. QED BY <1>5, <2>1, <2>2, <2>3, <2>4
<1> HIDE DEF front
<1>7. /\ front \o body \in Seq(Line) /\ Len(front \o body) = Len(front) + Len(body)
      /\ \A i \in 1 .. Len(front) : (front \o body)[i] = front[i]
      /\ \A i \in 1 .. Len(body) : (front \o body)[Len(front) + i] = body[i]
  <2>1. front \in Seq(Line)
    BY <1>6
  <2>2. QED BY <1>2, <2>1, Joined
<1>8. 1 \in 1 .. HeadAt(b) /\ 2 \in 1 .. HeadAt(b) /\ HeadAt(b) \in 1 .. HeadAt(b)
  <2>1. HeadAt(b) \in 2 .. 3
    BY HeadAtIs
  <2>2. QED BY <2>1
<1> DEFINE r == RenderBlock(b)
<1>9. /\ r \in Seq(Line) /\ Len(r) = HeadAt(b) + Len(body)
      /\ \A i \in 1 .. HeadAt(b) : r[i] = front[i]
      /\ \A i \in 1 .. Len(body) : r[HeadAt(b) + i] = body[i]
  BY <1>4, <1>6, <1>7
<1> HIDE DEF r
<1>10. r[1] = Blank /\ r[HeadAt(b)] = head /\ (Labelled(b) => r[2] = Note(b.label))
  BY <1>6, <1>8, <1>9
<1>11. QED BY <1>2, <1>9, <1>10 DEF r, body, head

\* t is the preamble p, the n blocks bs as they are rendered, the k-th of them
\* behind the first o[k] lines, and a blank line.
Stands(t, p, o, bs, n) ==
    /\ t \in Seq(Line) /\ p \in Seq(Line) /\ Headless(p)
    /\ o \in [1 .. n + 1 -> Nat] /\ o[1] = Len(p) /\ Len(t) = o[n + 1] + 1
    /\ \A k \in 1 .. n : o[k + 1] = o[k] + HeadAt(bs[k]) + Len(TrimTrailingBlank(bs[k].body))
    /\ \A i \in 1 .. Len(p) : t[i] = p[i]
    /\ \A k \in 1 .. n + 1 : t[o[k] + 1] = Blank
    /\ \A k \in 1 .. n : /\ t[o[k] + HeadAt(bs[k])] = RenderHead(bs[k].group)
                         /\ Labelled(bs[k]) => t[o[k] + 2] = Note(bs[k].label)
    /\ \A k \in 1 .. n : \A i \in 1 .. Len(TrimTrailingBlank(bs[k].body)) :
         t[o[k] + HeadAt(bs[k]) + i] = TrimTrailingBlank(bs[k].body)[i]
    /\ \A i \in 1 .. Len(t) : \/ i <= Len(p) \/ i = Len(t)
                              \/ \E k \in 1 .. n : \E j \in 1 .. o[k + 1] - o[k] : i = o[k] + j

\* Well formed blocks, as they are given to writeConfBlocks.
WellFormed(bs, n) == bs \in [1 .. n -> BlockType] /\ \A k \in 1 .. n : Headless(bs[k].body)

\* What is written stands so.
LEMMA WriteIs ==
    ASSUME NEW pre \in Seq(Line), Headless(pre), NEW n \in Nat, NEW bs, WellFormed(bs, n)
    PROVE  \E o : Stands(Write(pre, bs), Terminated(pre), o, bs, n)
<1> DEFINE p == Terminated(pre)
           s == [k \in 1 .. n |-> RenderBlock(bs[k])]
           f == FlattenSeq(s)
           len(k) == Len(TrimTrailingBlank(bs[k].body))
<1>1. p \in Seq(Line) /\ Headless(p)
  BY TerminatedIs
<1>2. DOMAIN bs = 1 .. n /\ \A k \in 1 .. n : bs[k] \in BlockType
  BY DEF WellFormed
<1>3. \A k \in 1 .. n :
        /\ RenderBlock(bs[k]) \in Seq(Line) /\ len(k) \in Nat /\ HeadAt(bs[k]) \in 2 .. 3
        /\ Len(RenderBlock(bs[k])) = HeadAt(bs[k]) + len(k)
        /\ RenderBlock(bs[k])[1] = Blank
        /\ RenderBlock(bs[k])[HeadAt(bs[k])] = RenderHead(bs[k].group)
        /\ Labelled(bs[k]) => RenderBlock(bs[k])[2] = Note(bs[k].label)
        /\ \A i \in 1 .. len(k) : RenderBlock(bs[k])[HeadAt(bs[k]) + i] = TrimTrailingBlank(bs[k].body)[i]
  <2>1. ASSUME NEW k \in 1 .. n
        PROVE  TrimTrailingBlank(bs[k].body) \in Seq(Line) /\ HeadAt(bs[k]) \in 2 .. 3
    BY <1>2, RenderIs, HeadAtIs
  <2>2. \A k \in 1 .. n : len(k) \in Nat
    BY <2>1, LenProperties
  <2>3. QED BY <1>2, <2>1, <2>2, RenderIs
<1>4. s \in Seq(Seq(Line)) /\ Len(s) = n /\ \A k \in 1 .. n : s[k] = RenderBlock(bs[k])
  BY <1>3
<1>5. Write(pre, bs) = (p \o f) \o <<Blank>>
  BY <1>2 DEF Write
<1> HIDE DEF s, f, p, len
<1>6. f \in Seq(Line)
  BY <1>4, FlattenLayout DEF f
<1>7. PICK off : Layout(f, off, s, n)
  BY <1>4, FlattenLayout DEF f
<1> DEFINE u == p \o f
           t == u \o <<Blank>>
           o == [k \in 1 .. n + 1 |-> Len(p) + off[k]]
<1>8. /\ u \in Seq(Line) /\ Len(u) = Len(p) + Len(f)
      /\ \A i \in 1 .. Len(p) : u[i] = p[i]
      /\ \A i \in 1 .. Len(f) : u[Len(p) + i] = f[i]
  BY <1>1, <1>6, Joined
<1> HIDE DEF u
<1>9. t \in Seq(Line) /\ Len(t) = Len(u) + 1 /\ t[Len(u) + 1] = Blank
      /\ \A i \in 1 .. Len(u) : t[i] = u[i]
  BY <1>8, Ended
<1> HIDE DEF t
<1>10. Len(p) \in Nat /\ Len(f) \in Nat /\ Len(u) \in Nat
  BY <1>1, <1>6, <1>8, LenProperties
<1>11. /\ \A i \in 1 .. Len(p) : t[i] = p[i]
       /\ \A i \in 1 .. Len(f) : t[Len(p) + i] = f[i]
  BY <1>8, <1>9, <1>10
<1>12. off \in [1 .. n + 1 -> Nat] /\ off[1] = 0 /\ Len(f) = off[n + 1] /\ 1 \in 1 .. n + 1 /\ n + 1 \in 1 .. n + 1
  BY <1>7 DEF Layout
<1>13. \A k \in 1 .. n + 1 : o[k] = Len(p) + off[k] /\ o[k] \in Nat /\ off[k] \in Nat
  BY <1>10, <1>12
<1>14. o \in [1 .. n + 1 -> Nat] /\ o[1] = Len(p) /\ Len(t) = o[n + 1] + 1
  <2>1. o[1] = Len(p) /\ o[n + 1] = Len(u)
    BY <1>8, <1>10, <1>12, <1>13
  <2>2. o \in [1 .. n + 1 -> Nat]
    BY <1>10, <1>12
  <2>3. QED BY <1>9, <2>1, <2>2
<1> HIDE DEF o
<1>15. ASSUME NEW k \in 1 .. n
       PROVE  /\ o[k + 1] = o[k] + HeadAt(bs[k]) + len(k)
              /\ Len(s[k]) = o[k + 1] - o[k]
              /\ \A i \in 1 .. o[k + 1] - o[k] : t[o[k] + i] = RenderBlock(bs[k])[i]
  <2>1. k \in 1 .. n + 1 /\ k + 1 \in 1 .. n + 1
    OBVIOUS
  <2>2. off[k + 1] = off[k] + Len(s[k])
    BY <1>7 DEF Layout
  <2>3. Len(s[k]) = HeadAt(bs[k]) + len(k) /\ Len(s[k]) \in Nat /\ HeadAt(bs[k]) \in Nat /\ len(k) \in Nat
    <3>1. Len(s[k]) = HeadAt(bs[k]) + len(k) /\ HeadAt(bs[k]) \in 2 .. 3 /\ len(k) \in Nat
      BY <1>3, <1>4
    <3>2. QED BY <3>1
  <2>4. o[k] = Len(p) + off[k] /\ o[k + 1] = Len(p) + off[k + 1] /\ off[k] \in Nat /\ off[k + 1] \in Nat
    BY <1>13, <2>1
  <2>5. Len(s[k]) = o[k + 1] - o[k] /\ o[k + 1] = o[k] + HeadAt(bs[k]) + len(k)
    <3> DEFINE a == off[k]
               b == off[k + 1]
               c == Len(s[k])
               h == HeadAt(bs[k])
               m == len(k)
               x == o[k]
               y == o[k + 1]
               z == Len(p)
    <3>1. z \in Nat /\ a \in Nat /\ b \in Nat /\ c \in Nat /\ h \in Nat /\ m \in Nat
          /\ b = a + c /\ c = h + m /\ x = z + a /\ y = z + b
      BY <1>10, <2>2, <2>3, <2>4
    <3> HIDE DEF a, b, c, h, m, x, y, z
    <3>2. x \in Nat /\ y \in Nat
      BY <3>1
    <3>3. c = y - x /\ y = x + h + m
      BY <3>1, <3>2
    <3>4. QED BY <3>3 DEF c, h, m, x, y
  <2>6. ASSUME NEW i \in 1 .. Len(s[k]) PROVE t[o[k] + i] = RenderBlock(bs[k])[i]
    <3>1. off[k] + i <= Len(f) /\ f[off[k] + i] = s[k][i]
      BY <1>7 DEF Layout
    <3>2. off[k] + i \in 1 .. Len(f) /\ o[k] + i = Len(p) + (off[k] + i)
      <4>1. i \in Nat /\ i >= 1
        BY <2>3
      <4>2. off[k] + i <= Len(f)
        BY <3>1
      <4> DEFINE a == off[k]
                 x == o[k]
                 y == Len(p)
                 z == Len(f)
      <4>3. a \in Nat /\ y \in Nat /\ z \in Nat /\ x = y + a /\ a + i <= z
        BY <1>10, <2>4, <4>2
      <4> HIDE DEF a, x, y, z
      <4>4. a + i \in 1 .. z /\ x + i = y + (a + i)
        BY <4>1, <4>3
      <4>5. QED BY <4>4 DEF a, x, y, z
    <3>3. t[o[k] + i] = f[off[k] + i]
      BY <1>11, <3>2
    <3>4. QED BY <1>4, <3>1, <3>3
  <2>7. QED BY <2>5, <2>6
<1>16. ASSUME NEW k \in 1 .. n
       PROVE  /\ t[o[k] + 1] = Blank
              /\ t[o[k] + HeadAt(bs[k])] = RenderHead(bs[k].group)
              /\ Labelled(bs[k]) => t[o[k] + 2] = Note(bs[k].label)
              /\ \A i \in 1 .. len(k) : t[o[k] + HeadAt(bs[k]) + i] = TrimTrailingBlank(bs[k].body)[i]
  <2> DEFINE h == HeadAt(bs[k])
             d == o[k + 1] - o[k]
             m == len(k)
             q == o[k]
  <2>1. h \in 2 .. 3 /\ m \in Nat
    BY <1>3
  <2>2. q \in Nat /\ d = h + m
    <3>1. k \in 1 .. n + 1 /\ k + 1 \in 1 .. n + 1
      OBVIOUS
    <3>2. o[k + 1] = o[k] + HeadAt(bs[k]) + len(k) /\ o[k] \in Nat
      BY <1>13, <1>15, <3>1
    <3>3. QED BY <2>1, <3>2
  <2>3. \A i \in 1 .. d : t[q + i] = RenderBlock(bs[k])[i]
    BY <1>15
  <2> HIDE DEF h, d, m, q
  <2>4. 1 \in 1 .. d /\ h \in 1 .. d /\ 2 \in 1 .. d /\ \A i \in 1 .. m : h + i \in 1 .. d /\ q + h + i = q + (h + i)
    BY <2>1, <2>2
  <2>5. t[q + 1] = Blank /\ t[q + h] = RenderHead(bs[k].group)
    BY <1>3, <2>3, <2>4 DEF h
  <2>6. Labelled(bs[k]) => t[q + 2] = Note(bs[k].label)
    BY <1>3, <2>3, <2>4
  <2>7. ASSUME NEW i \in 1 .. m PROVE t[q + h + i] = TrimTrailingBlank(bs[k].body)[i]
    <3>1. t[q + h + i] = RenderBlock(bs[k])[h + i]
      BY <2>3, <2>4
    <3>2. RenderBlock(bs[k])[h + i] = TrimTrailingBlank(bs[k].body)[i]
      BY <1>3 DEF h, m
    <3>3. QED BY <3>1, <3>2
  <2>8. QED BY <2>5, <2>6, <2>7 DEF h, q, m
<1>17. \A k \in 1 .. n + 1 : t[o[k] + 1] = Blank
  <2>1. o[n + 1] + 1 = Len(u) + 1
    BY <1>9, <1>14
  <2>2. t[o[n + 1] + 1] = Blank
    BY <1>9, <2>1
  <2>3. \A k \in 1 .. n + 1 : k \in 1 .. n \/ k = n + 1
    OBVIOUS
  <2>4. QED BY <1>16, <2>2, <2>3
<1>18. ASSUME NEW i \in 1 .. Len(t)
       PROVE  \/ i <= Len(p) \/ i = Len(t)
              \/ \E k \in 1 .. n : \E j \in 1 .. o[k + 1] - o[k] : i = o[k] + j
  <2>1. CASE i <= Len(p) \/ i = Len(t)
    BY <2>1
  <2>2. CASE ~(i <= Len(p) \/ i = Len(t))
    <3>1. i - Len(p) \in 1 .. Len(f) /\ i = Len(p) + (i - Len(p))
      BY <1>8, <1>9, <1>10, <2>2
    <3>2. PICK k \in 1 .. n : \E j \in 1 .. Len(s[k]) : i - Len(p) = off[k] + j
      BY <1>7, <3>1 DEF Layout
    <3>3. PICK j \in 1 .. Len(s[k]) : i - Len(p) = off[k] + j
      BY <3>2
    <3>4. Len(s[k]) = o[k + 1] - o[k]
      BY <1>15
    <3>5. k \in 1 .. n + 1 /\ o[k] = Len(p) + off[k] /\ off[k] \in Nat
      BY <1>13
    <3>6. i = o[k] + j
      <4>1. Len(s[k]) \in Nat
        BY <1>4, LenProperties
      <4>2. j \in Nat /\ i \in Nat
        BY <1>9, <1>10, <4>1
      <4> DEFINE a == off[k]
                 x == o[k]
                 z == Len(p)
      <4>3. z \in Nat /\ a \in Nat /\ x = z + a /\ i - z = a + j
        BY <1>10, <3>3, <3>5
      <4> HIDE DEF a, x, z
      <4>4. i = x + j
        BY <4>2, <4>3
      <4>5. QED BY <4>4 DEF x
    <3>7. j \in 1 .. o[k + 1] - o[k]
      BY <3>4
    <3>8. QED BY <3>6, <3>7
  <2>3. QED BY <2>1, <2>2
<1>19. Stands(t, p, o, bs, n)
  BY <1>1, <1>9, <1>11, <1>14, <1>15, <1>16, <1>17, <1>18 DEF Stands, len
<1>20. Write(pre, bs) = t
  BY <1>5 DEF t, u
<1>21. QED BY <1>19, <1>20 DEF p

----------------------------------------------------------------------------
(* What is written is read *)

\* A sequence that grows from each element to the next grows throughout.
LEMMA Increasing ==
    ASSUME NEW n \in Nat, NEW f, \A k \in 1 .. n : f[k] \in Nat,
           \A k \in 1 .. n : k + 1 \in 1 .. n => f[k] < f[k + 1]
    PROVE  \A j, k \in 1 .. n : j < k => f[j] < f[k]
<1>1. SUFFICES ASSUME NEW j \in 1 .. n PROVE \A k \in 1 .. n : j < k => f[j] < f[k]
  OBVIOUS
<1> DEFINE Bad == {k \in 1 .. n : j < k /\ ~(f[j] < f[k])}
<1>2. SUFFICES ASSUME Bad # {} PROVE FALSE
  OBVIOUS
<1>3. Bad \in SUBSET Nat
  OBVIOUS
<1> HIDE DEF Bad
<1>4. PICK k \in Bad : \A m \in Bad : k <= m
  BY <1>2, <1>3, Least
<1>5. k \in 1 .. n /\ j < k /\ ~(f[j] < f[k])
  BY <1>4 DEF Bad
<1>6. k - 1 \in 1 .. n /\ (k - 1) + 1 = k /\ ~(k <= k - 1) /\ (j = k - 1 \/ j < k - 1)
  BY <1>5
<1>7. f[k - 1] < f[k]
  BY <1>5, <1>6
<1>8. j < k - 1 => f[j] < f[k - 1]
  BY <1>4, <1>6 DEF Bad
<1>9. f[j] \in Nat /\ f[k] \in Nat /\ f[k - 1] \in Nat
  BY <1>5, <1>6
<1>10. CASE j = k - 1
  BY <1>5, <1>7, <1>10
<1>11. CASE j < k - 1
  BY <1>5, <1>7, <1>8, <1>9, <1>11
<1>12. QED BY <1>6, <1>10, <1>11

\* scanUpToHeader up to a header as it is written: it finds the label, and
\* stops behind the blank line that stands before the block.
LEMMA ScanTo ==
    ASSUME NEW t \in Seq(Line), NEW b \in BlockType, NEW q \in Nat, t[q + 1] = Blank,
           Labelled(b) => t[q + 2] = Note(b.label),
           NEW a \in Nat \ {0}, a <= q + 1
    PROVE  /\ Pending(t, a, q + HeadAt(b)) = b.label
           /\ Scan(t, a, q + HeadAt(b)) = SubSeq(t, a, q + 1)
<1> DEFINE h == q + HeadAt(b)
<1>1. ~IsNote(t, q + 1)
  BY LineKinds DEF IsNote
<1>2. CASE Labelled(b)
  <2>1. h = q + 3 /\ h - 1 = q + 2 /\ h > a
    <3>1. HeadAt(b) = 3
      BY <1>2, HeadAtIs
    <3>2. QED BY <3>1
  <2> HIDE DEF h
  <2>2. b.label \in Words
    BY DEF BlockType
  <2>3. t[h - 1].kind = "note" /\ t[h - 1].text = b.label
    BY <1>2, <2>1, <2>2, LineKinds
  <2>4. Pending(t, a, h) = b.label
    BY <2>1, <2>3 DEF Pending, IsNote
  <2>5. Scan(t, a, h) = SubSeq(t, a, RunStart(t, a, h) - 1)
    BY <1>2, <2>4 DEF Scan, Labelled
  <2> DEFINE S == {j \in a .. h : \A k \in j .. h - 1 : IsNote(t, k)}
  <2>6. q + 2 \in S
    <3>1. q + 2 \in a .. h /\ \A k \in q + 2 .. h - 1 : k = h - 1
      BY <2>1
    <3>2. QED BY <2>3, <3>1 DEF IsNote
  <2>7. \A y \in S : y \in Nat /\ q + 2 <= y
    <3>1. ASSUME NEW y \in a .. h, \A k \in y .. h - 1 : IsNote(t, k), ~(q + 2 <= y) PROVE FALSE
      <4>1. q + 1 \in y .. h - 1
        BY <2>1, <3>1
      <4>2. QED BY <1>1, <3>1, <4>1
    <3>2. \A y \in a .. h : y \in Nat
      OBVIOUS
    <3>3. QED BY <3>1, <3>2
  <2> HIDE DEF S
  <2>8. Min(S) \in S /\ \A y \in S : Min(S) <= y
    BY <2>6, <2>7 DEF Min
  <2>9. Min(S) = q + 2
    <3> DEFINE x == Min(S)
    <3>1. x \in S /\ x <= q + 2
      BY <2>6, <2>8
    <3> HIDE DEF x
    <3>2. x \in Nat /\ q + 2 <= x
      BY <2>7, <3>1
    <3>3. x = q + 2
      BY <3>1, <3>2
    <3>4. QED BY <3>3 DEF x
  <2>10. RunStart(t, a, h) - 1 = q + 1
    <3>1. RunStart(t, a, h) = q + 2
      BY <2>9 DEF RunStart, S
    <3>2. QED BY <3>1
  <2>11. QED BY <2>4, <2>5, <2>10 DEF h
<1>3. CASE ~Labelled(b)
  <2>1. h = q + 2 /\ h - 1 = q + 1 /\ h > a
    <3>1. HeadAt(b) = 2
      BY <1>3, HeadAtIs
    <3>2. QED BY <3>1
  <2> HIDE DEF h
  <2>2. ~IsNote(t, h - 1)
    BY <1>1, <2>1
  <2>3. Pending(t, a, h) = ""
    BY <2>2 DEF Pending
  <2>4. Scan(t, a, h) = SubSeq(t, a, q + 1)
    BY <2>1, <2>3 DEF Scan
  <2>5. QED BY <1>3, <2>3, <2>4 DEF h, Labelled
<1>4. QED BY <1>2, <1>3

\* scanUpToHeader up to the end of a text that ends with a blank line.
LEMMA ScanEnd ==
    ASSUME NEW t \in Seq(Line), NEW q \in Nat, Len(t) = q + 1, t[q + 1] = Blank,
           NEW a \in Nat \ {0}, a <= q + 1
    PROVE  Scan(t, a, Len(t) + 1) = SubSeq(t, a, q + 1)
<1>1. ~IsNote(t, q + 1)
  BY LineKinds DEF IsNote
<1>2. (Len(t) + 1) - 1 = q + 1
  OBVIOUS
<1> DEFINE h == Len(t) + 1
<1> HIDE DEF h
<1>3. ~IsNote(t, h - 1)
  BY <1>1, <1>2 DEF h
<1>4. Pending(t, a, h) = ""
  BY <1>3 DEF Pending
<1>5. Scan(t, a, h) = SubSeq(t, a, h - 1)
  BY <1>4 DEF Scan
<1>6. QED BY <1>2, <1>5 DEF h

\* The lines on which the headers are written.
HeaderLine(o, bs, k) == o[k] + HeadAt(bs[k])

\* They are in order, and each within its block.
LEMMA HeaderLines ==
    ASSUME NEW n \in Nat, NEW bs, WellFormed(bs, n), NEW t, NEW p, NEW o, Stands(t, p, o, bs, n)
    PROVE  /\ \A k \in 1 .. n : /\ HeaderLine(o, bs, k) \in 1 .. Len(t)
                                /\ o[k] < HeaderLine(o, bs, k) /\ HeaderLine(o, bs, k) <= o[k + 1]
                                /\ o[k + 1] + 1 <= Len(t) /\ Len(p) <= o[k]
           /\ \A k \in 1 .. n + 1 : o[k] \in Nat
           /\ \A j, k \in 1 .. n : j < k => HeaderLine(o, bs, j) < HeaderLine(o, bs, k)
<1> DEFINE m == n + 1
           len(k) == Len(TrimTrailingBlank(bs[k].body))
           h(k) == HeaderLine(o, bs, k)
<1>1. \A k \in 1 .. n : HeadAt(bs[k]) \in 2 .. 3 /\ len(k) \in Nat
  <2>1. ASSUME NEW k \in 1 .. n PROVE HeadAt(bs[k]) \in 2 .. 3 /\ len(k) \in Nat
    <3>1. TrimTrailingBlank(bs[k].body) \in Seq(Line)
      BY RenderIs DEF WellFormed
    <3>2. QED BY <3>1, HeadAtIs, LenProperties
  <2>2. QED BY <2>1
<1> HIDE DEF len
<1>2. \A k \in 1 .. m : o[k] \in Nat
  BY DEF Stands
<1>3. ASSUME NEW k \in 1 .. n
      PROVE  /\ h(k) = o[k] + HeadAt(bs[k]) /\ HeadAt(bs[k]) \in 2 .. 3 /\ len(k) \in Nat
             /\ o[k + 1] = h(k) + len(k) /\ o[k] \in Nat /\ o[k + 1] \in Nat
             /\ o[k] < h(k) /\ h(k) <= o[k + 1] /\ h(k) \in Nat
  <2> DEFINE x == o[k]
             y == o[k + 1]
             c == HeadAt(bs[k])
             l == len(k)
             z == h(k)
  <2>1. k \in 1 .. m /\ k + 1 \in 1 .. m
    OBVIOUS
  <2>2. x \in Nat /\ y \in Nat /\ c \in 2 .. 3 /\ l \in Nat /\ z = x + c
    BY <1>1, <1>2, <2>1 DEF HeaderLine
  <2>3. y = x + c + l
    BY DEF Stands, len
  <2> HIDE DEF x, y, c, l, z
  <2>4. y = z + l /\ x < z /\ z <= y /\ z \in Nat
    BY <2>2, <2>3
  <2>5. QED BY <2>2, <2>4 DEF x, y, c, l, z
<1>4. \A j, k \in 1 .. m : j < k => o[j] < o[k]
  <2>1. m \in Nat
    OBVIOUS
  <2>2. ASSUME NEW k \in 1 .. m, k + 1 \in 1 .. m PROVE o[k] < o[k + 1]
    <3>1. k \in 1 .. n
      BY <2>2
    <3>2. o[k] < h(k) /\ h(k) <= o[k + 1] /\ o[k] \in Nat /\ o[k + 1] \in Nat /\ h(k) \in Nat
      BY <1>3, <3>1
    <3> HIDE DEF h
    <3>3. QED BY <3>2
  <2> HIDE DEF m
  <2>3. QED BY <1>2, <2>1, <2>2, Increasing
<1>5. ASSUME NEW j \in 1 .. n, NEW k \in 1 .. n, j < k PROVE h(j) < h(k)
  <2>1. j + 1 \in 1 .. m /\ k \in 1 .. m /\ (j + 1 = k \/ j + 1 < k)
    BY <1>5
  <2>2. o[j + 1] <= o[k]
    <3>1. o[k] \in Nat
      BY <1>3
    <3>2. o[j + 1] = o[k] \/ o[j + 1] < o[k]
      BY <1>4, <2>1
    <3>3. o[j + 1] \in Nat
      BY <1>3
    <3>4. QED BY <3>1, <3>2, <3>3
  <2>3. h(j) <= o[j + 1] /\ o[k] < h(k) /\ o[j + 1] \in Nat /\ o[k] \in Nat /\ h(j) \in Nat /\ h(k) \in Nat
    BY <1>3
  <2> HIDE DEF h
  <2>4. QED BY <2>2, <2>3
<1>6. ASSUME NEW k \in 1 .. n PROVE o[k + 1] + 1 <= Len(t) /\ Len(p) <= o[k] /\ h(k) \in 1 .. Len(t)
  <2>1. k + 1 \in 1 .. m /\ m \in 1 .. m /\ (k + 1 = m \/ k + 1 < m) /\ 1 \in 1 .. m /\ k \in 1 .. m /\ (k = 1 \/ 1 < k)
    OBVIOUS
  <2>2. o[m] \in Nat /\ o[k + 1] \in Nat /\ o[1] \in Nat /\ o[k] \in Nat
    BY <1>2, <2>1
  <2>3. Len(t) = o[m] + 1 /\ Len(p) = o[1]
    BY DEF Stands
  <2>4. o[k + 1] = o[m] \/ o[k + 1] < o[m]
    BY <1>4, <2>1
  <2>5. o[1] = o[k] \/ o[1] < o[k]
    BY <1>4, <2>1
  <2>6. h(k) <= o[k + 1] /\ o[k] < h(k) /\ h(k) \in Nat
    BY <1>3
  <2> HIDE DEF h, m
  <2> DEFINE x == o[k]
             y == o[k + 1]
             z == h(k)
             l == Len(t)
  <2>7. Len(p) <= x
    BY <2>2, <2>3, <2>5
  <2>8. y + 1 <= l
    BY <2>2, <2>3, <2>4
  <2>9. l \in Nat /\ x \in Nat /\ y \in Nat /\ z \in Nat /\ x < z /\ z <= y
    BY <2>2, <2>3, <2>6
  <2> HIDE DEF x, y, z, l
  <2>10. z \in 1 .. l
    BY <2>8, <2>9
  <2>11. QED BY <2>7, <2>8, <2>10 DEF x, y, z, l
<1>7. QED BY <1>2, <1>3, <1>5, <1>6

\* They are the headers that are found.
LEMMA WrittenHeads ==
    ASSUME NEW n \in Nat, NEW bs, WellFormed(bs, n), NEW t, NEW p, NEW o, Stands(t, p, o, bs, n)
    PROVE  HeadsOf(t) = [k \in 1 .. n |-> HeaderLine(o, bs, k)]
<1> DEFINE q == [k \in 1 .. n |-> HeaderLine(o, bs, k)]
<1>1. t \in Seq(Line) /\ p \in Seq(Line)
  BY DEF Stands
<1>2. Len(t) \in Nat /\ Len(p) \in Nat /\ DOMAIN t = 1 .. Len(t)
  BY <1>1
<1>3. \A k \in 1 .. n : q[k] = HeaderLine(o, bs, k) /\ q[k] \in 1 .. Len(t) /\ IsHead(t, q[k])
  <2>1. ASSUME NEW k \in 1 .. n PROVE HeaderLine(o, bs, k) \in 1 .. Len(t) /\ IsHead(t, HeaderLine(o, bs, k))
    <3>1. t[HeaderLine(o, bs, k)] = RenderHead(bs[k].group)
      BY DEF Stands, HeaderLine
    <3>2. bs[k].group \in Groups
      BY DEF WellFormed, BlockType
    <3>3. t[HeaderLine(o, bs, k)].kind = "head"
      BY <3>1, <3>2, RenderHeadIs
    <3>4. QED BY <3>3, HeaderLines DEF IsHead
  <2>2. QED BY <2>1
<1>4. ASSUME NEW i \in 1 .. Len(t), IsHead(t, i) PROVE \E k \in 1 .. n : HeaderLine(o, bs, k) = i
  <2>1. t[i].kind = "head"
    BY <1>4 DEF IsHead
  <2>2. Blank.kind # "head"
    BY LineKinds
  <2>3. ~(i <= Len(p))
    <3>1. SUFFICES ASSUME i <= Len(p) PROVE FALSE
      OBVIOUS
    <3>2. i \in 1 .. Len(p)
      BY <1>2, <3>1
    <3>3. t[i] = p[i] /\ p[i].kind # "head"
      BY <1>1, <1>2, <3>2 DEF Stands, Headless
    <3>4. QED BY <2>1, <3>3
  <2>4. i # Len(t)
    <3>1. n + 1 \in 1 .. n + 1
      OBVIOUS
    <3>2. t[Len(t)] = Blank
      BY <3>1 DEF Stands
    <3>3. QED BY <2>1, <2>2, <3>2
  <2>5. PICK k \in 1 .. n : \E j \in 1 .. o[k + 1] - o[k] : i = o[k] + j
    BY <2>3, <2>4 DEF Stands
  <2>6. PICK j \in 1 .. o[k + 1] - o[k] : i = o[k] + j
    BY <2>5
  <2> DEFINE body == TrimTrailingBlank(bs[k].body)
             c == HeadAt(bs[k])
             l == Len(body)
             d == o[k + 1] - o[k]
             x == o[k]
  <2>7. bs[k] \in BlockType /\ bs[k].body \in Seq(Line) /\ Headless(bs[k].body) /\ bs[k].label \in Words
    BY DEF WellFormed, BlockType
  <2>8. body \in Seq(Line) /\ Headless(body)
    BY <2>7, TrimType
  <2>9. c \in 2 .. 3 /\ l \in Nat /\ x \in Nat
    <3>1. k \in 1 .. n + 1
      OBVIOUS
    <3>2. x \in Nat
      BY <3>1, HeaderLines
    <3>3. QED BY <2>8, <3>2, HeadAtIs, LenProperties
  <2>10. o[k + 1] = x + c + l
    BY DEF Stands
  <2>11. d = c + l /\ j \in 1 .. d
    <3>1. j \in 1 .. d
      BY <2>6
    <3> HIDE DEF c, l
    <3>2. d = c + l
      BY <2>9, <2>10
    <3>3. QED BY <3>1, <3>2
  <2>12. t[x + 1] = Blank
    <3>1. k \in 1 .. n + 1
      OBVIOUS
    <3>2. QED BY <3>1 DEF Stands
  <2>13. c = 3 => t[x + 2] = Note(bs[k].label)
    <3>1. Labelled(bs[k]) => t[x + 2] = Note(bs[k].label)
      BY DEF Stands
    <3>2. c = 3 => Labelled(bs[k])
      BY HeadAtIs
    <3>3. QED BY <3>1, <3>2
  <2>14. \A r \in 1 .. l : t[x + c + r] = body[r]
    BY DEF Stands
  <2>15. HeaderLine(o, bs, k) = x + c
    BY DEF HeaderLine
  <2>16. i = x + j
    BY <2>6
  <2> HIDE DEF c, l, d, x, body
  <2>17. j # 1
    BY <2>1, <2>2, <2>12, <2>16
  <2>18. ~(c = 3 /\ j = 2)
    BY <2>1, <2>7, <2>13, <2>16, LineKinds
  <2>19. ~(j > c)
    <3>1. SUFFICES ASSUME j > c PROVE FALSE
      OBVIOUS
    <3>2. j - c \in 1 .. l /\ x + c + (j - c) = i
      BY <2>9, <2>11, <2>16, <3>1
    <3>3. t[i] = body[j - c]
      BY <2>14, <3>2
    <3>4. body[j - c].kind # "head"
      BY <2>8, <3>2 DEF Headless, l
    <3>5. QED BY <2>1, <3>3, <3>4
  <2>20. j = c
    BY <2>9, <2>11, <2>17, <2>18, <2>19
  <2>21. QED BY <2>15, <2>16, <2>20
<1>5. HeadLines(t) \subseteq 1 .. Len(t) /\ \A i \in HeadLines(t) : i \in Nat /\ IsHead(t, i)
  BY <1>2 DEF HeadLines
<1>6. \A k \in 1 .. n : q[k] \in HeadLines(t)
  BY <1>2, <1>3 DEF HeadLines
<1>7. q \in [1 .. n -> HeadLines(t)]
  BY <1>6
<1>8. \A j, k \in 1 .. n : j < k => q[j] < q[k]
  BY HeaderLines
<1>9. \A i \in HeadLines(t) : \E k \in 1 .. n : q[k] = i
  BY <1>3, <1>4, <1>5
<1> HIDE DEF q
<1>10. Lists(q, n, HeadLines(t))
  BY <1>7, <1>8, <1>9 DEF Lists
<1>11. InOrder(HeadLines(t)) = q
  BY <1>5, <1>10, InOrderIs
<1>12. QED BY <1>11 DEF HeadsOf, HeadLines, q

\* A block as it is read again.
Reread(b) ==
    [label |-> b.label, group |-> RenderHead(b.group).group, body |-> TrimTrailingBlank(b.body) \o <<Blank>>]

\* The text is read as the blocks that were written.
LEMMA WrittenBlocks ==
    ASSUME NEW n \in Nat, NEW bs, WellFormed(bs, n), NEW t, NEW p, NEW o, Stands(t, p, o, bs, n)
    PROVE  Blocks(t) = [k \in 1 .. n |-> Reread(bs[k])]
<1> DEFINE h == [k \in 1 .. n |-> HeaderLine(o, bs, k)]
           end(k) == IF k = n THEN Len(t) + 1 ELSE h[k + 1]
           begin(k) == IF k = 1 THEN 1 ELSE h[k - 1] + 1
<1>1. HeadsOf(t) = h
  BY WrittenHeads
<1>2. t \in Seq(Line) /\ Len(t) \in Nat
  BY DEF Stands
<1>3. DOMAIN h = 1 .. n /\ Len(h) = n
  OBVIOUS
<1>4. Blocks(t) = [k \in 1 .. n |->
                     [label |-> Pending(t, begin(k), h[k]), group |-> t[h[k]].group,
                      body |-> Scan(t, h[k] + 1, end(k))]]
  BY <1>1, <1>3 DEF Blocks
<1>5. /\ \A k \in 1 .. n : /\ h[k] = o[k] + HeadAt(bs[k]) /\ h[k] \in 1 .. Len(t)
                           /\ o[k] < h[k] /\ h[k] <= o[k + 1]
                           /\ o[k + 1] + 1 <= Len(t) /\ Len(p) <= o[k]
      /\ \A k \in 1 .. n + 1 : o[k] \in Nat /\ t[o[k] + 1] = Blank
  <2>1. \A k \in 1 .. n : h[k] = HeaderLine(o, bs, k)
    OBVIOUS
  <2>2. \A k \in 1 .. n : HeaderLine(o, bs, k) = o[k] + HeadAt(bs[k])
    BY DEF HeaderLine
  <2>3. \A k \in 1 .. n + 1 : t[o[k] + 1] = Blank
    BY DEF Stands
  <2>4. /\ \A k \in 1 .. n : /\ HeaderLine(o, bs, k) \in 1 .. Len(t)
                             /\ o[k] < HeaderLine(o, bs, k) /\ HeaderLine(o, bs, k) <= o[k + 1]
                             /\ o[k + 1] + 1 <= Len(t) /\ Len(p) <= o[k]
        /\ \A k \in 1 .. n + 1 : o[k] \in Nat
    BY HeaderLines
  <2> HIDE DEF h
  <2>5. ASSUME NEW k \in 1 .. n
        PROVE  /\ h[k] = o[k] + HeadAt(bs[k]) /\ h[k] \in 1 .. Len(t)
               /\ o[k] < h[k] /\ h[k] <= o[k + 1]
               /\ o[k + 1] + 1 <= Len(t) /\ Len(p) <= o[k]
    <3>1. h[k] = HeaderLine(o, bs, k)
      BY <2>1
    <3>2. QED BY <2>2, <2>4, <3>1
  <2>6. QED BY <2>3, <2>4, <2>5
<1> HIDE DEF h
<1>6. \A k \in 1 .. n : bs[k] \in BlockType /\ (Labelled(bs[k]) => t[o[k] + 2] = Note(bs[k].label))
  BY DEF WellFormed, Stands
<1>7. ASSUME NEW k \in 1 .. n, NEW a \in Nat \ {0}, a <= o[k] + 1
      PROVE  Pending(t, a, h[k]) = bs[k].label /\ Scan(t, a, h[k]) = SubSeq(t, a, o[k] + 1)
  <2>1. k \in 1 .. n + 1
    OBVIOUS
  <2>2. o[k] \in Nat /\ t[o[k] + 1] = Blank
    BY <1>5, <2>1
  <2>3. Pending(t, a, o[k] + HeadAt(bs[k])) = bs[k].label
        /\ Scan(t, a, o[k] + HeadAt(bs[k])) = SubSeq(t, a, o[k] + 1)
    BY <1>2, <1>6, <1>7, <2>2, ScanTo
  <2>4. h[k] = o[k] + HeadAt(bs[k])
    BY <1>5
  <2>5. QED BY <2>3, <2>4
<1>8. ASSUME NEW k \in 1 .. n PROVE Pending(t, begin(k), h[k]) = bs[k].label
  <2>1. begin(k) \in Nat \ {0} /\ begin(k) <= o[k] + 1
    <3>1. CASE k = 1
      <4>1. k \in 1 .. n + 1 /\ begin(k) = 1
        BY <3>1
      <4>2. o[k] \in Nat
        BY <1>5, <4>1
      <4>3. QED BY <4>1, <4>2
    <3>2. CASE k # 1
      <4>1. k - 1 \in 1 .. n /\ (k - 1) + 1 = k /\ k \in 1 .. n + 1
        BY <3>2
      <4>2. h[k - 1] \in 1 .. Len(t) /\ h[k - 1] <= o[k] /\ o[k] \in Nat
        BY <1>5, <4>1
      <4>3. begin(k) = h[k - 1] + 1
        BY <3>2
      <4>4. QED BY <4>2, <4>3
    <3>3. QED BY <3>1, <3>2
  <2> HIDE DEF begin
  <2>2. QED BY <1>7, <2>1
<1>9. ASSUME NEW k \in 1 .. n PROVE t[h[k]].group = RenderHead(bs[k].group).group
  <2>1. t[o[k] + HeadAt(bs[k])] = RenderHead(bs[k].group)
    BY DEF Stands
  <2>2. QED BY <1>5, <2>1
<1>10. ASSUME NEW k \in 1 .. n
       PROVE  Scan(t, h[k] + 1, end(k)) = TrimTrailingBlank(bs[k].body) \o <<Blank>>
  <2> DEFINE body == TrimTrailingBlank(bs[k].body)
             l == Len(body)
             c == h[k]
             e == o[k + 1]
  <2>1. body \in Seq(Line) /\ l \in Nat
    <3>1. bs[k].body \in Seq(Line) /\ Headless(bs[k].body)
      BY <1>6 DEF WellFormed, BlockType
    <3>2. body \in Seq(Line)
      BY <3>1, TrimType
    <3>3. QED BY <3>2, LenProperties
  <2>2. k \in 1 .. n + 1 /\ k + 1 \in 1 .. n + 1
    OBVIOUS
  <2>3. c \in 1 .. Len(t) /\ c <= e /\ e + 1 <= Len(t) /\ e \in Nat /\ t[e + 1] = Blank
    BY <1>5, <2>2
  <2>4. e = c + l
    <3>1. e = o[k] + HeadAt(bs[k]) + l
      BY DEF Stands
    <3>2. QED BY <1>5, <3>1
  <2>5. \A i \in 1 .. l : t[c + i] = body[i]
    <3>1. \A i \in 1 .. l : t[o[k] + HeadAt(bs[k]) + i] = body[i]
      BY DEF Stands
    <3>2. QED BY <1>5, <3>1
  <2>6. Scan(t, c + 1, end(k)) = SubSeq(t, c + 1, e + 1)
    <3>1. CASE k = n
      <4>1. e = o[n + 1] /\ Len(t) = e + 1
        BY <3>1 DEF Stands
      <4>2. end(k) = Len(t) + 1
        BY <3>1
      <4> HIDE DEF c, e, end
      <4>3. c + 1 \in Nat \ {0} /\ c + 1 <= e + 1
        BY <2>3
      <4>4. Scan(t, c + 1, Len(t) + 1) = SubSeq(t, c + 1, e + 1)
        BY <1>2, <2>3, <4>1, <4>3, ScanEnd
      <4>5. QED BY <4>2, <4>4
    <3>2. CASE k # n
      <4>1. k + 1 \in 1 .. n /\ end(k) = h[k + 1]
        BY <3>2
      <4>2. c + 1 \in Nat \ {0} /\ c + 1 <= e + 1
        <5> HIDE DEF c, e
        <5>1. QED BY <2>3
      <4>3. Scan(t, c + 1, h[k + 1]) = SubSeq(t, c + 1, e + 1)
        BY <1>7, <4>1, <4>2
      <4>4. QED BY <4>1, <4>3
    <3>3. QED BY <3>1, <3>2
  <2> HIDE DEF body, l, c, e, end
  <2> DEFINE u == SubSeq(t, c + 1, e + 1)
             v == body \o <<Blank>>
  <2>7. c + 1 \in Nat \ {0} /\ e + 1 \in Nat /\ c + 1 <= (e + 1) + 1 /\ e + 1 <= Len(t)
        /\ (e + 1) - (c + 1) + 1 = l + 1
    BY <1>2, <2>1, <2>3, <2>4
  <2>8. u \in Seq(Line) /\ Len(u) = l + 1 /\ \A i \in 1 .. l + 1 : u[i] = t[(c + 1) + i - 1]
    BY <1>2, <2>7, Part
  <2>9. v \in Seq(Line) /\ Len(v) = l + 1 /\ v[l + 1] = Blank /\ \A i \in 1 .. l : v[i] = body[i]
    BY <2>1, Ended DEF l
  <2> HIDE DEF u, v
  <2>10. ASSUME NEW i \in 1 .. l + 1 PROVE u[i] = v[i]
    <3>1. (c + 1) + i - 1 = c + i
      BY <2>1, <2>3
    <3>2. CASE i = l + 1
      <4>1. c + i = e + 1
        BY <2>1, <2>3, <2>4, <3>2
      <4>2. QED BY <2>3, <2>8, <2>9, <3>1, <3>2, <4>1
    <3>3. CASE i # l + 1
      <4>1. i \in 1 .. l
        BY <2>1, <3>3
      <4>2. QED BY <2>5, <2>8, <2>9, <3>1, <4>1
    <3>4. QED BY <3>2, <3>3
  <2>11. u = v
    BY <2>8, <2>9, <2>10, SameSeq
  <2>12. QED BY <2>6, <2>11 DEF u, v, c, body
<1> HIDE DEF begin, end
<1>11. QED BY <1>4, <1>8, <1>9, <1>10 DEF Reread

\* And as the preamble.
LEMMA WrittenPreamble ==
    ASSUME NEW n \in Nat, NEW bs, WellFormed(bs, n), NEW t, NEW p, NEW o, Stands(t, p, o, bs, n)
    PROVE  Preamble(t) = p \o <<Blank>>
<1> DEFINE l == Len(p)
           u == SubSeq(t, 1, l + 1)
           v == p \o <<Blank>>
<1>1. t \in Seq(Line) /\ p \in Seq(Line) /\ Len(t) \in Nat /\ l \in Nat
  BY DEF Stands
<1>2. 1 \in 1 .. n + 1 /\ o[1] = l /\ n + 1 \in 1 .. n + 1
  BY DEF Stands
<1>3. t[l + 1] = Blank /\ \A i \in 1 .. l : t[i] = p[i]
  BY <1>2 DEF Stands
<1>4. l + 1 <= Len(t)
  <2>1. CASE n = 0
    BY <1>1, <1>2, <2>1 DEF Stands
  <2>2. CASE n # 0
    <3>1. 1 \in 1 .. n
      BY <2>2
    <3>2. HeaderLine(o, bs, 1) \in 1 .. Len(t) /\ o[1] < HeaderLine(o, bs, 1)
      BY <3>1, HeaderLines
    <3>3. QED BY <1>1, <1>2, <3>2
  <2>3. QED BY <2>1, <2>2
<1> HIDE DEF l
<1>5. 1 \in Nat \ {0} /\ l + 1 \in Nat /\ 1 <= (l + 1) + 1 /\ l + 1 <= Len(t) /\ (l + 1) - 1 + 1 = l + 1
  BY <1>1, <1>4
<1>6. u \in Seq(Line) /\ Len(u) = l + 1 /\ \A i \in 1 .. l + 1 : u[i] = t[1 + i - 1]
  BY <1>1, <1>5, Part
<1>7. v \in Seq(Line) /\ Len(v) = l + 1 /\ v[l + 1] = Blank /\ \A i \in 1 .. l : v[i] = p[i]
  BY <1>1, Ended DEF l
<1> HIDE DEF u, v
<1>8. ASSUME NEW i \in 1 .. l + 1 PROVE u[i] = v[i] /\ u[i] = t[i]
  <2>1. 1 + i - 1 = i
    BY <1>1
  <2>2. CASE i = l + 1
    BY <1>3, <1>6, <1>7, <2>1, <2>2
  <2>3. CASE i # l + 1
    <3>1. i \in 1 .. l
      BY <1>1, <2>3
    <3>2. QED BY <1>3, <1>6, <1>7, <2>1, <3>1
  <2>4. QED BY <2>2, <2>3
<1>9. u = v
  BY <1>6, <1>7, <1>8, SameSeq
<1>10. CASE n = 0
  <2>1. HeadsOf(t) = <<>>
    BY <1>10, WrittenHeads
  <2>2. Preamble(t) = t
    BY <2>1 DEF Preamble
  <2>3. Len(t) = l + 1
    BY <1>2, <1>10 DEF Stands
  <2>4. t = u
    BY <1>1, <1>6, <1>8, <2>3, SameSeq
  <2>5. QED BY <1>9, <2>2, <2>4 DEF v
<1>11. CASE n # 0
  <2>1. 1 \in 1 .. n
    BY <1>11
  <2>2. HeadsOf(t) # <<>> /\ HeadsOf(t)[1] = l + HeadAt(bs[1])
    <3>1. HeadsOf(t) = [k \in 1 .. n |-> HeaderLine(o, bs, k)]
      BY WrittenHeads
    <3>2. HeadsOf(t)[1] = HeaderLine(o, bs, 1) /\ 1 \in DOMAIN HeadsOf(t)
      BY <2>1, <3>1
    <3>3. QED BY <1>2, <3>2 DEF HeaderLine
  <2>3. Preamble(t) = Scan(t, 1, l + HeadAt(bs[1]))
    BY <2>2 DEF Preamble
  <2>4. bs[1] \in BlockType
    BY <2>1 DEF WellFormed
  <2>5. Labelled(bs[1]) => t[l + 2] = Note(bs[1].label)
    BY <1>2, <2>1 DEF Stands
  <2>6. 1 <= l + 1
    BY <1>1
  <2>7. Scan(t, 1, l + HeadAt(bs[1])) = SubSeq(t, 1, l + 1)
    BY <1>1, <1>3, <1>5, <2>4, <2>5, <2>6, ScanTo
  <2>8. QED BY <1>9, <2>3, <2>7 DEF u, v
<1>12. QED BY <1>10, <1>11

\* What is written is read as the groups that were written.
LEMMA WriteReads ==
    ASSUME NEW pre \in Seq(Line), Headless(pre), NEW n \in Nat, NEW bs, WellFormed(bs, n)
    PROVE  /\ Write(pre, bs) \in Seq(Line) /\ Len(HeadsOf(Write(pre, bs))) = n
           /\ Preamble(Write(pre, bs)) = Terminated(pre) \o <<Blank>>
           /\ Blocks(Write(pre, bs)) = [k \in 1 .. n |-> Reread(bs[k])]
<1> DEFINE t == Write(pre, bs)
           p == Terminated(pre)
<1>1. PICK o : Stands(t, p, o, bs, n)
  BY WriteIs
<1> HIDE DEF t, p
<1>2. t \in Seq(Line)
  BY <1>1 DEF Stands
<1>3. HeadsOf(t) = [k \in 1 .. n |-> HeaderLine(o, bs, k)]
  BY <1>1, WrittenHeads
<1>4. Len(HeadsOf(t)) = n
  BY <1>3
<1>5. Preamble(t) = p \o <<Blank>>
  BY <1>1, WrittenPreamble
<1>6. Blocks(t) = [k \in 1 .. n |-> Reread(bs[k])]
  BY <1>1, WrittenBlocks
<1>7. QED BY <1>2, <1>4, <1>5, <1>6 DEF t, p

\* A block that was read is rendered as it was.
LEMMA RereadRenders ==
    ASSUME NEW b \in BlockType
    PROVE  RenderBlock(Reread(b)) = RenderBlock(b)
<1> DEFINE c == Reread(b)
<1>1. b.group \in Groups /\ b.body \in Seq(Line)
  BY DEF BlockType
<1>2. c.label = b.label /\ c.group = RenderHead(b.group).group
      /\ c.body = TrimTrailingBlank(b.body) \o <<Blank>>
  BY DEF Reread
<1>3. RenderHead(c.group) = RenderHead(b.group)
  BY <1>1, <1>2, RenderHeadIs
<1>4. TrimTrailingBlank(c.body) = TrimTrailingBlank(b.body)
  BY <1>1, <1>2, TrimAgain
<1> HIDE DEF c
<1>5. RenderBlock(c) = RenderBlock(b)
  BY <1>2, <1>3, <1>4 DEF RenderBlock
<1>6. QED BY <1>5 DEF c

\* What was written and read is written as it was.
LEMMA WriteAgain ==
    ASSUME NEW pre \in Seq(Line), Headless(pre), NEW n \in Nat, NEW bs, WellFormed(bs, n)
    PROVE  LET t == Write(pre, bs) IN Write(Preamble(t), Blocks(t)) = t
<1> DEFINE t == Write(pre, bs)
           again == [k \in 1 .. n |-> Reread(bs[k])]
<1>1. Preamble(t) = Terminated(pre) \o <<Blank>> /\ Blocks(t) = again
  BY WriteReads
<1>2. Terminated(Preamble(t)) = Terminated(pre)
  BY <1>1, TerminatedIs
<1>3. \A k \in 1 .. n : RenderBlock(again[k]) = RenderBlock(bs[k])
  BY RereadRenders DEF WellFormed
<1>4. DOMAIN again = 1 .. n /\ DOMAIN bs = 1 .. n
  BY DEF WellFormed
<1> HIDE DEF again
<1>5. [k \in DOMAIN again |-> RenderBlock(again[k])] = [k \in DOMAIN bs |-> RenderBlock(bs[k])]
  BY <1>3, <1>4
<1> DEFINE q == Preamble(t)
<1> HIDE DEF t, q
<1>6. Write(q, again) = Terminated(q) \o FlattenSeq([k \in DOMAIN again |-> RenderBlock(again[k])]) \o <<Blank>>
  BY DEF Write
<1>7. t = Terminated(pre) \o FlattenSeq([k \in DOMAIN bs |-> RenderBlock(bs[k])]) \o <<Blank>>
  BY DEF Write, t
<1>8. Write(q, again) = t
  BY <1>2, <1>5, <1>6, <1>7 DEF q
<1>9. QED BY <1>1, <1>8 DEF t, q

----------------------------------------------------------------------------
(* The edits *)

\* The other elements of a sequence stay, in order.
LEMMA Removed ==
    ASSUME NEW X, NEW s \in Seq(X), NEW i \in 1 .. Len(s)
    PROVE  /\ RemoveAt(s, i) \in Seq(X) /\ Len(RemoveAt(s, i)) = Len(s) - 1
           /\ \A j \in 1 .. Len(s) : j < i => RemoveAt(s, i)[j] = s[j]
           /\ \A j \in 1 .. Len(s) : j > i => RemoveAt(s, i)[j - 1] = s[j]
<1> DEFINE a == SubSeq(s, 1, i - 1)
           c == SubSeq(s, i + 1, Len(s))
           r == RemoveAt(s, i)
<1>1. Len(s) \in Nat /\ i \in Nat /\ 1 <= i /\ i <= Len(s)
  OBVIOUS
<1>2. 1 \in Nat \ {0} /\ i - 1 \in Nat /\ 1 <= (i - 1) + 1 /\ i - 1 <= Len(s) /\ (i - 1) - 1 + 1 = i - 1
      /\ i + 1 \in Nat \ {0} /\ i + 1 <= Len(s) + 1 /\ Len(s) <= Len(s) /\ Len(s) - (i + 1) + 1 = Len(s) - i
  BY <1>1
<1>3. a \in Seq(X) /\ Len(a) = i - 1 /\ \A j \in 1 .. i - 1 : a[j] = s[1 + j - 1]
  BY <1>2, Part
<1>4. c \in Seq(X) /\ Len(c) = Len(s) - i /\ \A j \in 1 .. Len(s) - i : c[j] = s[i + 1 + j - 1]
  <2> DEFINE b == i + 1
             l == Len(s)
  <2>1. b \in Nat \ {0} /\ l \in Nat /\ b <= l + 1 /\ l <= Len(s) /\ l - b + 1 = Len(s) - i
    BY <1>1, <1>2
  <2> HIDE DEF b, l
  <2>2. /\ SubSeq(s, b, l) \in Seq(X) /\ Len(SubSeq(s, b, l)) = l - b + 1
        /\ \A j \in 1 .. l - b + 1 : SubSeq(s, b, l)[j] = s[b + j - 1]
    BY <2>1, Part
  <2>3. QED BY <2>1, <2>2 DEF b, l
<1>5. r = a \o c
  BY DEF RemoveAt
<1> HIDE DEF a, c, r
<1>6. /\ a \o c \in Seq(X) /\ Len(a \o c) = Len(a) + Len(c)
      /\ \A j \in 1 .. Len(a) : (a \o c)[j] = a[j]
      /\ \A j \in 1 .. Len(c) : (a \o c)[Len(a) + j] = c[j]
  <2>1. a \in Seq(X) /\ c \in Seq(X)
    BY <1>3, <1>4
  <2>2. QED BY <2>1, Joined
<1>7. r \in Seq(X) /\ Len(r) = Len(s) - 1
  BY <1>1, <1>3, <1>4, <1>5, <1>6
<1>8. ASSUME NEW j \in 1 .. Len(s), j < i PROVE r[j] = s[j]
  <2>1. j \in 1 .. i - 1 /\ 1 + j - 1 = j
    BY <1>1, <1>8
  <2>2. QED BY <1>3, <1>5, <1>6, <2>1
<1>9. ASSUME NEW j \in 1 .. Len(s), j > i PROVE r[j - 1] = s[j]
  <2>1. j - i \in 1 .. Len(s) - i /\ (i - 1) + (j - i) = j - 1 /\ i + 1 + (j - i) - 1 = j
    BY <1>1, <1>9
  <2>2. r[(i - 1) + (j - i)] = c[j - i]
    BY <1>3, <1>4, <1>5, <1>6, <2>1
  <2>3. c[j - i] = s[i + 1 + (j - i) - 1]
    BY <1>4, <2>1
  <2>4. QED BY <2>1, <2>2, <2>3
<1>10. QED BY <1>7, <1>8, <1>9 DEF r

\* Where an edit op of the i-th group leaves the k-th.
To(op, i, k) == IF op = "delete" /\ k > i THEN k - 1 ELSE k

\* How many groups it leaves of n.
Left(op, n) == CASE op = "add" -> n + 1 [] op = "delete" -> n - 1 [] OTHER -> n

\* The edit op of the i-th of the n blocks old gives bs, well formed, where the
\* other blocks are what they were.
Edits(op, i, old, n, bs) ==
    /\ Left(op, n) \in Nat /\ WellFormed(bs, Left(op, n))
    /\ \A k \in 1 .. n : k # i => To(op, i, k) \in 1 .. Left(op, n) /\ bs[To(op, i, k)] = old[k]

\* What the form gives.
LEMMA FormType ==
    /\ \A g \in Form : g \in Groups
    /\ \A l \in Labels : l \in Words
<1>1. Domains \subseteq Words /\ Labels \subseteq Words /\ Certs \subseteq Words
  BY WordsAssumption
<1>2. ASSUME NEW d \in Domains, NEW f \in {"default", "set"}, NEW c \in Certs
      PROVE  Group(<<d>>, f, c) \in Groups
  <2> DEFINE w == <<d>>
  <2>1. w \in Seq(Words)
    BY <1>1
  <2> HIDE DEF w
  <2>2. Group(w, f, c) \in Groups
    BY <1>1, <2>1 DEF Group, Groups
  <2>3. QED BY <2>2 DEF w
<1>3. ASSUME NEW g \in Form PROVE g \in Groups
  <2>1. \E d \in Domains, f \in {"default", "set"}, c \in Certs : g = Group(<<d>>, f, c)
    BY DEF Form
  <2>2. QED BY <1>2, <2>1
<1>4. QED BY <1>1, <1>3

\* One block is replaced.
LEMMA Replaced ==
    ASSUME NEW n \in Nat, NEW old, WellFormed(old, n), NEW i \in 1 .. n,
           NEW b \in BlockType, Headless(b.body), NEW op \in {"save", "remove"}
    PROVE  Edits(op, i, old, n, [old EXCEPT ![i] = b])
<1> DEFINE bs == [old EXCEPT ![i] = b]
<1>1. Left(op, n) = n /\ \A k \in 1 .. n : To(op, i, k) = k
  BY DEF Left, To
<1>2. old \in [1 .. n -> BlockType] /\ \A k \in 1 .. n : Headless(old[k].body)
  BY DEF WellFormed
<1>3. bs \in [1 .. n -> BlockType] /\ bs[i] = b /\ \A k \in 1 .. n : k # i => bs[k] = old[k]
  BY <1>2
<1> HIDE DEF bs
<1>4. WellFormed(bs, n)
  BY <1>2, <1>3 DEF WellFormed
<1>5. Edits(op, i, old, n, bs)
  BY <1>1, <1>3, <1>4 DEF Edits
<1>6. QED BY <1>5 DEF bs

\* One block is added.
LEMMA AddedBlock ==
    ASSUME NEW n \in Nat, NEW old, WellFormed(old, n), NEW b \in BlockType, Headless(b.body)
    PROVE  Edits("add", n + 1, old, n, Append(old, b))
<1> DEFINE bs == Append(old, b)
<1>1. old \in [1 .. n -> BlockType] /\ \A k \in 1 .. n : Headless(old[k].body)
  BY DEF WellFormed
<1>2. old \in Seq(BlockType) /\ Len(old) = n
  BY <1>1
<1>3. bs \in Seq(BlockType) /\ Len(bs) = n + 1 /\ bs[n + 1] = b /\ \A k \in 1 .. n : bs[k] = old[k]
  BY <1>2, AppendProperties
<1> HIDE DEF bs
<1>4. bs \in [1 .. n + 1 -> BlockType]
  BY <1>3
<1>5. \A k \in 1 .. n + 1 : k \in 1 .. n \/ k = n + 1
  OBVIOUS
<1>6. WellFormed(bs, n + 1)
  BY <1>1, <1>3, <1>4, <1>5 DEF WellFormed
<1>7. Left("add", n) = n + 1 /\ \A k \in 1 .. n : To("add", n + 1, k) = k /\ k \in 1 .. n + 1
  BY DEF Left, To
<1>8. Edits("add", n + 1, old, n, bs)
  BY <1>3, <1>6, <1>7 DEF Edits
<1>9. QED BY <1>8 DEF bs

\* One block is removed.
LEMMA RemovedBlock ==
    ASSUME NEW n \in Nat, NEW old, WellFormed(old, n), NEW i \in 1 .. n
    PROVE  Edits("delete", i, old, n, RemoveAt(old, i))
<1> DEFINE bs == RemoveAt(old, i)
<1>1. old \in [1 .. n -> BlockType] /\ \A k \in 1 .. n : Headless(old[k].body)
  BY DEF WellFormed
<1>2. old \in Seq(BlockType) /\ Len(old) = n
  BY <1>1
<1>3. /\ bs \in Seq(BlockType) /\ Len(bs) = n - 1
      /\ \A k \in 1 .. n : k < i => bs[k] = old[k]
      /\ \A k \in 1 .. n : k > i => bs[k - 1] = old[k]
  BY <1>2, Removed
<1> HIDE DEF bs
<1>4. n - 1 \in Nat /\ Left("delete", n) = n - 1
  BY DEF Left
<1>5. bs \in [1 .. n - 1 -> BlockType]
  BY <1>3
<1>6. ASSUME NEW k \in 1 .. n - 1 PROVE Headless(bs[k].body)
  <2>1. k \in 1 .. n /\ k + 1 \in 1 .. n /\ (k + 1) - 1 = k /\ (k < i \/ k + 1 > i)
    OBVIOUS
  <2>2. CASE k < i
    BY <1>1, <1>3, <2>1, <2>2
  <2>3. CASE k + 1 > i
    <3>1. bs[(k + 1) - 1] = old[k + 1]
      BY <1>3, <2>1, <2>3
    <3>2. QED BY <1>1, <2>1, <3>1
  <2>4. QED BY <2>1, <2>2, <2>3
<1>7. WellFormed(bs, n - 1)
  BY <1>5, <1>6 DEF WellFormed
<1>8. ASSUME NEW k \in 1 .. n, k # i
      PROVE  To("delete", i, k) \in 1 .. n - 1 /\ bs[To("delete", i, k)] = old[k]
  <2>1. CASE k < i
    <3>1. To("delete", i, k) = k /\ k \in 1 .. n - 1
      BY <2>1 DEF To
    <3>2. QED BY <1>3, <2>1, <3>1
  <2>2. CASE k > i
    <3>1. To("delete", i, k) = k - 1 /\ k - 1 \in 1 .. n - 1
      BY <2>2 DEF To
    <3>2. QED BY <1>3, <2>2, <3>1
  <2>3. QED BY <1>8, <2>1, <2>2
<1>9. Edits("delete", i, old, n, bs)
  BY <1>4, <1>7, <1>8 DEF Edits
<1>10. QED BY <1>9 DEF bs

\* Every step writes the blocks it read, with one of them edited.
LEMMA NextEdits ==
    ASSUME text \in Seq(Line), NEW n \in Nat, Reads(text, n), Next
    PROVE  /\ edit'.op \in {"save", "add", "delete", "remove"}
           /\ \E bs : /\ text' = Write(Preamble(text), bs)
                      /\ Edits(edit'.op, edit'.at, Blocks(text), n, bs)
<1> DEFINE old == Blocks(text)
           Ok == /\ edit'.op \in {"save", "add", "delete", "remove"}
                 /\ \E bs : /\ text' = Write(Preamble(text), bs)
                            /\ Edits(edit'.op, edit'.at, old, n, bs)
<1>1. WellFormed(old, n)
  BY DEF Reads, WellFormed
<1>2. DOMAIN old = 1 .. n /\ Len(old) = n
      /\ \A k \in 1 .. n : old[k] \in BlockType /\ Headless(old[k].body)
  BY <1>1 DEF WellFormed
<1>3. ASSUME NEW op \in {"save", "add", "delete", "remove"}, NEW i, NEW bs, Put(op, i, bs),
             Edits(op, i, old, n, bs)
      PROVE  Ok
  <2>1. edit' = [op |-> op, at |-> i] /\ text' = Write(Preamble(text), bs)
    BY <1>3 DEF Put
  <2> HIDE DEF old
  <2>2. edit'.op = op /\ edit'.at = i
    BY <2>1
  <2>3. QED BY <1>3, <2>1, <2>2
<1> HIDE DEF Ok
<1>4. ASSUME NEW i \in 1 .. MaxBlocks, NEW g \in Form, NEW label \in Labels, SaveGroup(i, g, label)
      PROVE  Ok
  <2> DEFINE bs == [old EXCEPT ![i].group = g, ![i].label = label]
             b == [label |-> label, group |-> g, body |-> old[i].body]
  <2>1. i \in 1 .. n /\ Put("save", i, bs)
    BY <1>2, <1>4 DEF SaveGroup
  <2> HIDE DEF old
  <2>2. old[i].body \in Seq(Line) /\ Headless(old[i].body)
    BY <1>2, <2>1 DEF BlockType
  <2>3. b \in BlockType /\ Headless(b.body)
    BY <2>2, FormType DEF BlockType
  <2>4. bs = [old EXCEPT ![i] = b]
    <3>1. old[i] = [label |-> old[i].label, group |-> old[i].group, body |-> old[i].body]
      BY <1>2, <2>1 DEF BlockType
    <3>2. [[old[i] EXCEPT !.group = g] EXCEPT !.label = label] = b
      <4> DEFINE r == old[i]
                 x == old[i].label
                 y == old[i].group
                 z == old[i].body
      <4>1. r = [label |-> x, group |-> y, body |-> z] /\ b = [label |-> label, group |-> g, body |-> z]
        BY <3>1
      <4> HIDE DEF r, x, y, z, b
      <4>2. [r EXCEPT !.group = g] = [label |-> x, group |-> g, body |-> z]
        BY <4>1
      <4>3. [[r EXCEPT !.group = g] EXCEPT !.label = label] = [label |-> label, group |-> g, body |-> z]
        <5> DEFINE q == [r EXCEPT !.group = g]
        <5>1. q = [label |-> x, group |-> g, body |-> z]
          BY <4>2
        <5> HIDE DEF q
        <5>2. [q EXCEPT !.label = label] = [label |-> label, group |-> g, body |-> z]
          BY <5>1
        <5>3. QED BY <5>2 DEF q
      <4>4. QED BY <4>1, <4>3 DEF r
    <3>3. old \in [1 .. n -> BlockType]
      BY <1>1 DEF WellFormed
    <3>4. bs = [old EXCEPT ![i] = [[old[i] EXCEPT !.group = g] EXCEPT !.label = label]]
      BY <2>1, <3>3
    <3>5. QED BY <3>2, <3>4
  <2> HIDE DEF b, bs
  <2>5. Edits("save", i, old, n, [old EXCEPT ![i] = b])
    BY <1>1, <2>1, <2>3, Replaced
  <2>6. QED BY <1>3, <2>1, <2>4, <2>5
<1>5. ASSUME NEW g \in Form, NEW label \in Labels, AddGroup(g, label)
      PROVE  Ok
  <2> DEFINE b == [label |-> label, group |-> g, body |-> <<>>]
             bs == Append(old, b)
  <2>1. Put("add", n + 1, bs)
    BY <1>2, <1>5 DEF AddGroup
  <2> HIDE DEF old
  <2>2. <<>> \in Seq(Line) /\ Headless(<<>>)
    BY DEF Headless
  <2>3. b \in BlockType /\ Headless(b.body)
    BY <2>2, FormType DEF BlockType
  <2> HIDE DEF b
  <2>4. Edits("add", n + 1, old, n, bs)
    BY <1>1, <2>3, AddedBlock
  <2>5. QED BY <1>3, <2>1, <2>4
<1>6. ASSUME NEW i \in 1 .. MaxBlocks, DeleteGroup(i)
      PROVE  Ok
  <2>1. i \in 1 .. n /\ Put("delete", i, RemoveAt(old, i))
    BY <1>2, <1>6 DEF DeleteGroup
  <2>2. Edits("delete", i, old, n, RemoveAt(old, i))
    BY <1>1, <2>1, RemovedBlock
  <2> HIDE DEF old
  <2>3. QED BY <1>3, <2>1, <2>2
<1>7. ASSUME NEW i \in 1 .. MaxBlocks, NEW name \in Names, RemoveSite(i, name)
      PROVE  Ok
  <2> DEFINE body == old[i].body
             at == {j \in DOMAIN body : body[j] = Site(name)}
             rest == RemoveAt(body, Min(at))
             bs == [old EXCEPT ![i].body = RemoveAt(@, Min(at))]
             b == [old[i] EXCEPT !.body = rest]
  <2>1. i \in 1 .. n /\ at # {} /\ Put("remove", i, bs)
    BY <1>2, <1>7 DEF RemoveSite
  <2> HIDE DEF old
  <2>2. old[i] \in BlockType /\ body \in Seq(Line) /\ Headless(body)
    BY <1>2, <2>1 DEF BlockType
  <2> HIDE DEF body
  <2>3. Min(at) \in 1 .. Len(body)
    <3>1. at \in SUBSET Nat /\ at \subseteq 1 .. Len(body)
      BY <2>2
    <3> HIDE DEF at
    <3>2. PICK j \in at : \A m \in at : j <= m
      BY <2>1, <3>1, Least
    <3>3. Min(at) \in at
      BY <3>2 DEF Min
    <3>4. QED BY <3>1, <3>3
  <2> DEFINE c == Min(at)
  <2>4. bs = [old EXCEPT ![i] = b]
    <3> HIDE DEF at
    <3>1. QED BY DEF body
  <2> HIDE DEF bs, at, c
  <2>5. c \in 1 .. Len(body) /\ rest = RemoveAt(body, c)
    BY <2>3 DEF c
  <2>6. /\ rest \in Seq(Line) /\ Len(rest) = Len(body) - 1
        /\ \A j \in 1 .. Len(body) : j < c => rest[j] = body[j]
        /\ \A j \in 1 .. Len(body) : j > c => rest[j - 1] = body[j]
    BY <2>2, <2>5, Removed
  <2> HIDE DEF rest
  <2>7. Headless(rest)
    <3>1. ASSUME NEW j \in DOMAIN rest PROVE rest[j].kind # "head"
      <4>1. j \in 1 .. Len(body) /\ j + 1 \in 1 .. Len(body) /\ (j + 1) - 1 = j /\ (j < c \/ j + 1 > c)
        BY <2>2, <2>5, <2>6
      <4>2. \A k \in 1 .. Len(body) : body[k].kind # "head"
        BY <2>2 DEF Headless
      <4>3. CASE j < c
        BY <2>6, <4>1, <4>2, <4>3
      <4>4. CASE j + 1 > c
        <5>1. rest[(j + 1) - 1] = body[j + 1]
          BY <2>6, <4>1, <4>4
        <5>2. QED BY <4>1, <4>2, <5>1
      <4>5. QED BY <4>1, <4>3, <4>4
    <3>2. QED BY <3>1 DEF Headless
  <2>8. b \in BlockType /\ b.body = rest
    BY <2>2, <2>6 DEF BlockType
  <2> HIDE DEF b
  <2>9. Edits("remove", i, old, n, [old EXCEPT ![i] = b])
    BY <1>1, <2>1, <2>7, <2>8, Replaced
  <2>10. QED BY <1>3, <2>1, <2>4, <2>9
<1>8. Ok
  BY <1>4, <1>5, <1>6, <1>7 DEF Next
<1>9. QED BY <1>8 DEF Ok

\* A block that was read, written and read again, has to the reader what it had.
LEMMA RereadKeeps ==
    ASSUME NEW t \in Seq(Line), NEW n \in Nat, Reads(t, n), NEW k \in 1 .. n,
           NEW u \in Seq(Line), NEW m \in Nat, Reads(u, m), NEW j \in 1 .. m,
           Blocks(u)[j] = Reread(Blocks(t)[k])
    PROVE  Same(Content(u, j), Content(t, k))
<1> DEFINE b == Blocks(t)[k]
           c == Blocks(u)[j]
           g == b.group
           before == Content(t, k)
           now == Content(u, j)
<1>1. b \in BlockType
  BY DEF Reads
<1>2. g \in Groups /\ b.body \in Seq(Line)
  BY <1>1 DEF BlockType
<1>3. c.label = b.label /\ c.group = RenderHead(g).group /\ c.body = TrimTrailingBlank(b.body) \o <<Blank>>
  BY DEF Reread
<1>4. before.label = b.label /\ before.lines = TrimTrailingBlank(b.body) /\ before.parsed = ParsedGroup(t, k)
  BY DEF Content
<1>5. now.label = c.label /\ now.lines = TrimTrailingBlank(c.body) /\ now.parsed = ParsedGroup(u, j)
  BY DEF Content
<1>6. ParsedGroup(t, k) = [group |-> g, sites |-> SitesOf(b.body)]
      /\ ParsedGroup(u, j) = [group |-> c.group, sites |-> SitesOf(c.body)]
  BY DEF Reads
<1> HIDE DEF b, c, before, now
<1>7. now.lines = before.lines
  BY <1>2, <1>3, <1>4, <1>5, TrimAgain
<1>8. SitesOf(c.body) = SitesOf(b.body)
  BY <1>2, <1>3, TrimSites
<1>9. /\ before.parsed.group = g /\ before.parsed.sites = SitesOf(b.body)
      /\ now.parsed.group = c.group /\ now.parsed.sites = SitesOf(c.body)
  BY <1>4, <1>5, <1>6
<1>10. (g.flags = "default" => g.cert = "") => c.group = g
  <2>1. (g.flags = "default" => g.cert = "") => RenderHead(g).group = g
    BY <1>2, RenderHeadIs
  <2>2. QED BY <1>3, <2>1
<1> HIDE DEF g
<1>11. now.label = before.label
  BY <1>3, <1>4, <1>5
<1>12. Same(now, before)
  BY <1>7, <1>8, <1>9, <1>10, <1>11 DEF Same
<1>13. QED BY <1>12 DEF now, before

\* An edit keeps the other groups.
LEMMA EditKeeps ==
    ASSUME NEW t \in Seq(Line), NEW n \in Nat, Reads(t, n), NEW op, NEW i, NEW bs,
           Edits(op, i, Blocks(t), n, bs)
    PROVE  LET u == Write(Preamble(t), bs)
           IN  /\ u \in Seq(Line) /\ Write(Preamble(u), Blocks(u)) = u
               /\ Len(HeadsOf(u)) = Left(op, n)
               /\ \A k \in 1 .. n : k # i => Same(Content(u, To(op, i, k)), Content(t, k))
<1> DEFINE u == Write(Preamble(t), bs)
           m == Left(op, n)
<1>1. Preamble(t) \in Seq(Line) /\ Headless(Preamble(t))
  BY DEF Reads
<1>2. m \in Nat /\ WellFormed(bs, m)
  BY DEF Edits
<1> HIDE DEF m
<1>3. u \in Seq(Line) /\ Len(HeadsOf(u)) = m /\ Blocks(u) = [k \in 1 .. m |-> Reread(bs[k])]
  BY <1>1, <1>2, WriteReads
<1>4. Write(Preamble(u), Blocks(u)) = u
  BY <1>1, <1>2, WriteAgain
<1> HIDE DEF u
<1>5. Reads(u, m)
  <2>1. PICK l \in Nat : Reads(u, l)
    BY <1>3, ReadsText
  <2>2. l = m
    BY <1>3, <2>1 DEF Reads
  <2>3. QED BY <2>1, <2>2
<1>6. ASSUME NEW k \in 1 .. n, k # i PROVE Same(Content(u, To(op, i, k)), Content(t, k))
  <2> DEFINE j == To(op, i, k)
  <2>1. j \in 1 .. m /\ bs[j] = Blocks(t)[k]
    BY <1>6 DEF Edits, m
  <2> HIDE DEF j
  <2>2. Blocks(u)[j] = Reread(Blocks(t)[k])
    BY <1>3, <2>1
  <2>3. Same(Content(u, j), Content(t, k))
    BY <1>2, <1>3, <1>5, <2>1, <2>2, RereadKeeps
  <2>4. QED BY <2>3 DEF j
<1>7. QED BY <1>3, <1>4, <1>6 DEF u, m

----------------------------------------------------------------------------
(* The theorems *)

\* The text is always a sequence of lines, and what revpro wrote is stable.
TextInv == text \in Seq(Line) /\ Stable

\* What a step does with the text.
LEMMA StepKeeps ==
    ASSUME text \in Seq(Line), Next
    PROVE  /\ text' \in Seq(Line) /\ Stable'
           /\ \E n \in Nat :
                /\ Len(HeadsOf(text)) = n /\ Len(HeadsOf(text')) = Left(edit'.op, n)
                /\ \A k \in 1 .. n :
                     k # edit'.at => Same(Content(text', To(edit'.op, edit'.at, k)), Content(text, k))
<1>1. PICK n \in Nat : Reads(text, n)
  BY ReadsText
<1>2. PICK bs : /\ text' = Write(Preamble(text), bs)
                /\ Edits(edit'.op, edit'.at, Blocks(text), n, bs)
  BY <1>1, NextEdits
<1> DEFINE u == Write(Preamble(text), bs)
           op == edit'.op
           i == edit'.at
<1>3. text' = u
  BY <1>2
<1> HIDE DEF op, i
<1>4. Edits(op, i, Blocks(text), n, bs)
  BY <1>2 DEF op, i
<1>5. /\ u \in Seq(Line) /\ Write(Preamble(u), Blocks(u)) = u
      /\ Len(HeadsOf(u)) = Left(op, n)
      /\ \A k \in 1 .. n : k # i => Same(Content(u, To(op, i, k)), Content(text, k))
  BY <1>1, <1>4, EditKeeps
<1> HIDE DEF u
<1>6. Stable'
  BY <1>3, <1>5 DEF Stable
<1>7. Len(HeadsOf(text)) = n
  BY <1>1 DEF Reads
<1>8. QED BY <1>3, <1>5, <1>6, <1>7 DEF op, i

\* Both are kept by every step, and TextInv is inductive as it stands.
LEMMA TextInvariant == Spec => []TextInv
<1>1. Init => TextInv
  BY TextsAssumption DEF Init, TextInv, Stable
<1>2. TextInv /\ [Next]_vars => TextInv'
  <2>1. CASE Next
    BY <2>1, StepKeeps DEF TextInv
  <2>2. CASE UNCHANGED vars
    BY <2>2 DEF vars, TextInv, Stable
  <2>3. QED BY <2>1, <2>2
<1>3. QED BY <1>1, <1>2, PTL DEF Spec

\* groups.go, readConfBlocks and writeConfBlocks: whatever the texts, the
\* domains and the labels, a text revpro wrote is read and written back as it
\* is.
THEOREM WrittenTextStable == Spec => []Stable
<1>1. TextInv => Stable
  BY DEF TextInv
<1>2. QED BY <1>1, TextInvariant, PTL

\* groups.go 3-4: an edit of one group keeps the label, the lines, the sites and
\* the header of all the others, and their order.
THEOREM EditsKeepOthers == Spec => OthersKept
<1> DEFINE Kept == LET i == edit'.at
                       n == Len(HeadsOf(text))
                       to(k) == IF edit'.op = "delete" /\ k > i THEN k - 1 ELSE k
                   IN /\ Len(HeadsOf(text')) = CASE edit'.op = "add" -> n + 1
                                                 [] edit'.op = "delete" -> n - 1
                                                 [] OTHER -> n
                      /\ \A k \in 1 .. n : k # i => Same(Content(text', to(k)), Content(text, k))
<1>1. TextInv /\ [Next]_vars => [Kept]_vars
  <2>1. ASSUME TextInv, Next PROVE Kept
    <3>1. PICK n \in Nat :
            /\ Len(HeadsOf(text)) = n /\ Len(HeadsOf(text')) = Left(edit'.op, n)
            /\ \A k \in 1 .. n :
                 k # edit'.at => Same(Content(text', To(edit'.op, edit'.at, k)), Content(text, k))
      BY <2>1, StepKeeps DEF TextInv
    <3>2. QED BY <3>1 DEF Left, To
  <2>2. QED BY <2>1
<1>2. QED BY <1>1, TextInvariant, PTL DEF Spec, OthersKept
=============================================================================
