------------------------- MODULE TreeCompare_proofs -------------------------
(***************************************************************************)
(* The traversal of any graph by any visitor makes the calls of the        *)
(* recursive definition, builds the tree of the nodes it enters, and the   *)
(* forward and backward lists of that tree.  The comparison of two trees   *)
(* by is_same_tree is right.                                               *)
(***************************************************************************)
EXTENDS TreeCompare, InductionFacts, TLAPS

-----------------------------------------------------------------------------
\* A sequence, whatever its entries are.
Sequence(s) == s \in Seq(ToSet(s))

\* A sequence over a set is one.
LEMMA SequenceIn ==
  ASSUME NEW S, NEW s \in Seq(S)
  PROVE  Sequence(s)
BY DEF Sequence, ToSet

\* A sequence is over any set that has its entries.
LEMMA SequenceOver ==
  ASSUME NEW S, NEW s, Sequence(s), ToSet(s) \in SUBSET S
  PROVE  s \in Seq(S)
BY DEF Sequence

\* Two sequences are over a common set.
LEMMA CommonSet ==
  ASSUME NEW s, NEW t, NEW u, Sequence(s), Sequence(t), Sequence(u)
  PROVE  \E S : s \in Seq(S) /\ t \in Seq(S) /\ u \in Seq(S)
<1> DEFINE S == ToSet(s) \cup ToSet(t) \cup ToSet(u)
<1>1. s \in Seq(S) /\ t \in Seq(S) /\ u \in Seq(S)
  BY DEF Sequence
<1> QED
  BY <1>1

\* Concatenation, named: the provers take its instances better.
Join(s, t) == s \o t

\* Concatenation of sequences.
LEMMA Concatenation ==
  ASSUME NEW s, NEW t, Sequence(s), Sequence(t)
  PROVE  /\ Sequence(Join(s, t)) /\ Len(Join(s, t)) = Len(s) + Len(t) /\ Len(s) \in Nat /\ Len(t) \in Nat
         /\ Join(s, << >>) = s /\ Join(<< >>, s) = s
<1>1. PICK S : s \in Seq(S) /\ t \in Seq(S)
  BY CommonSet
<1>2. Join(s, t) \in Seq(S) /\ Len(Join(s, t)) = Len(s) + Len(t)
  BY <1>1, ConcatProperties DEF Join
<1>3. Join(s, << >>) = s /\ Join(<< >>, s) = s
  BY <1>1, ConcatEmptySeq DEF Join
<1> QED
  BY <1>1, <1>2, <1>3, SequenceIn, LenProperties

\* It is associative.
LEMMA Associative ==
  ASSUME NEW s, NEW t, NEW u, Sequence(s), Sequence(t), Sequence(u)
  PROVE  Join(Join(s, t), u) = Join(s, Join(t, u))
<1>1. PICK S : s \in Seq(S) /\ t \in Seq(S) /\ u \in Seq(S)
  BY CommonSet
<1> QED
  BY <1>1, ConcatAssociative, SMTT(60) DEF Join

\* Short sequences.
LEMMA ShortSequences ==
  ASSUME NEW x
  PROVE  Sequence(<< >>) /\ Sequence(<<x>>) /\ Len(<<x>>) = 1 /\ <<x>>[1] = x
<1>1. << >> \in Seq({x}) /\ <<x>> \in Seq({x})
  OBVIOUS
<1> QED
  BY <1>1, SequenceIn

\* A sequence with one entry more.
LEMMA Appended ==
  ASSUME NEW s, Sequence(s), NEW x
  PROVE  /\ Append(s, x) = Join(s, <<x>>) /\ Sequence(Append(s, x)) /\ Len(Append(s, x)) = Len(s) + 1
         /\ Append(s, x)[Len(s) + 1] = x /\ \A k \in 1 .. Len(s) : Append(s, x)[k] = s[k]
<1> DEFINE S == ToSet(s) \cup {x}
<1>1. s \in Seq(S) /\ x \in S
  BY DEF Sequence
<1> HIDE DEF S
<1>2. Append(s, x) \in Seq(S) /\ Len(Append(s, x)) = Len(s) + 1
  BY <1>1
<1>3. Append(s, x) = Join(s, <<x>>)
  BY <1>1, AppendIsConcat DEF Join
<1>4. Append(s, x)[Len(s) + 1] = x /\ \A k \in 1 .. Len(s) : Append(s, x)[k] = s[k]
  BY <1>1, AppendProperties
<1>5. Sequence(Append(s, x))
  BY <1>2, SequenceIn
<1> QED
  BY <1>2, <1>3, <1>4, <1>5

-----------------------------------------------------------------------------
(***************************************************************************)
(* The traversal by recursion exists: each node entered uses an answer, so *)
(* that the recursion goes to later answers only.                          *)
(***************************************************************************)

Places(g, a) == (1 .. Len(a) + 2) \X Seq(DOMAIN g.forward) \X Seq(DOMAIN g.forward)

\* The call of the way down or up, announced below the roots.
WayOf(kind, anc, path) == IF anc = << >> THEN << >> ELSE << <<kind, path>> >>

\* What is below a node, and after it, with the traversals u of later answers.
BelowOf(g, u, a, i, ns, anc) ==
  IF a[i] = "into" THEN u[<<i + 1, g.forward[Head(ns)], Append(anc, Head(ns))>>]
  ELSE Result(<< >>, i + 1, a[i] = "out", << >>)
OtherOf(u, below, ns, anc) ==
  IF below.stop THEN Result(<< >>, below.left, TRUE, << >>) ELSE u[<<below.left, Tail(ns), anc>>]
Entered(below, other, ns, anc) ==
  LET path == Append(anc, Head(ns))
      before == Join(WayOf("down", anc, path), << <<"pre", path>> >>)
  IN  Result(Join(Join(Join(Join(before, below.calls), << <<"post", path>> >>), WayOf("up", anc, path)),
                  other.calls),
             other.left, other.stop, Join(<< <<Head(ns), below.trees>> >>, other.trees))
VisitBody(g, u, a, at) ==
  IF at[2] = << >> THEN Result(<< >>, at[1], FALSE, << >>)
  ELSE IF at[1] > Len(a)
  THEN Result(WayOf("down", at[3], Append(at[3], Head(at[2]))), Len(a) + 2, TRUE, << >>)
  ELSE LET below == BelowOf(g, u, a, at[1], at[2], at[3])
       IN  Entered(below, OtherOf(u, below, at[2], at[3]), at[2], at[3])
IsVisit(g, u, a) == u = [at \in Places(g, a) |-> VisitBody(g, u, a, at)]

\* A result of a traversal that starts at the i-th of n answers.
IsResult(r, i, n) ==
  /\ r = Result(r.calls, r.left, r.stop, r.trees)
  /\ Sequence(r.calls) /\ Sequence(r.trees)
  /\ r.left \in i .. n + 2
  /\ r.stop \in BOOLEAN

\* Visit is such a function, if there is one.
LEMMA VisitIsChosen ==
  ASSUME NEW g, NEW a
  PROVE  Visit(g, a) = CHOOSE u : IsVisit(g, u, a)
BY DEF Visit, IsVisit, VisitBody, Entered, Join, OtherOf, BelowOf, WayOf, Places

\* The shape of a result.
LEMMA ResultFields ==
  ASSUME NEW c, NEW left, NEW stop, NEW subtrees
  PROVE  /\ Result(c, left, stop, subtrees).calls = c
         /\ Result(c, left, stop, subtrees).left = left
         /\ Result(c, left, stop, subtrees).stop = stop
         /\ Result(c, left, stop, subtrees).trees = subtrees
BY DEF Result

\* A result made of sequences.
LEMMA ResultMade ==
  ASSUME NEW c, NEW left, NEW stop \in BOOLEAN, NEW subtrees, NEW i, NEW n,
         Sequence(c), Sequence(subtrees), left \in i .. n + 2
  PROVE  IsResult(Result(c, left, stop, subtrees), i, n)
BY ResultFields DEF IsResult

\* The call of a way is a sequence.
LEMMA WaySequence ==
  ASSUME NEW kind, NEW anc, NEW path
  PROVE  Sequence(WayOf(kind, anc, path))
BY ShortSequences DEF WayOf

\* The head and the tail of the siblings left.
LEMMA HeadTail ==
  ASSUME NEW S, NEW ns \in Seq(S), ns # << >>
  PROVE  Head(ns) \in S /\ Tail(ns) \in Seq(S)
BY HeadTailProperties

\* A place.
LEMMA PlaceIn ==
  ASSUME NEW g, NEW a, NEW i \in 1 .. Len(a) + 2,
         NEW ns \in Seq(DOMAIN g.forward), NEW anc \in Seq(DOMAIN g.forward)
  PROVE  /\ <<i, ns, anc>> \in Places(g, a)
         /\ <<i, ns, anc>>[1] = i /\ <<i, ns, anc>>[2] = ns /\ <<i, ns, anc>>[3] = anc
BY DEF Places

\* The places the traversal goes on from are among those of later answers.
LEMMA BelowFacts ==
  ASSUME NEW g, IsGraph(g), NEW a \in Seq(Step), NEW u,
         NEW i \in 1 .. Len(a), NEW ns \in Seq(DOMAIN g.forward), NEW anc \in Seq(DOMAIN g.forward),
         ns # << >>,
         \A p \in Places(g, a) : p[1] > i => IsResult(u[p], p[1], Len(a))
  PROVE  /\ IsResult(BelowOf(g, u, a, i, ns, anc), i + 1, Len(a))
         /\ <<i + 1, g.forward[Head(ns)], Append(anc, Head(ns))>> \in Places(g, a)
<1> DEFINE Node == DOMAIN g.forward
           path == Append(anc, Head(ns))
           p == <<i + 1, g.forward[Head(ns)], path>>
<1>1. Head(ns) \in Node /\ path \in Seq(Node) /\ g.forward[Head(ns)] \in Seq(Node)
  <2>1. Head(ns) \in Node
    BY HeadTail
  <2>2. path \in Seq(Node)
    BY <2>1, AppendProperties
  <2> QED
    BY <2>1, <2>2 DEF IsGraph
<1>2. Len(a) \in Nat /\ i + 1 \in 1 .. Len(a) + 2
  BY LenProperties
<1>3. p \in Places(g, a) /\ p[1] = i + 1 /\ p[1] > i
  <2> DEFINE j == i + 1
             f == g.forward[Head(ns)]
  <2>1. j \in 1 .. Len(a) + 2 /\ f \in Seq(DOMAIN g.forward) /\ path \in Seq(DOMAIN g.forward) /\ j > i
    BY <1>1, <1>2
  <2>2. p = <<j, f, path>>
    OBVIOUS
  <2> HIDE DEF j, f, path, p
  <2>3. p \in Places(g, a) /\ p[1] = j
    BY <2>1, <2>2, PlaceIn
  <2> QED
    BY <2>1, <2>3 DEF j
<1>4. CASE a[i] = "into"
  <2>1. IsResult(u[p], i + 1, Len(a))
    <3> HIDE DEF p
    <3> QED
      BY <1>3
  <2> QED
    BY <1>3, <1>4, <2>1 DEF BelowOf
<1>5. CASE a[i] # "into"
  <2>1. i + 1 \in (i + 1) .. Len(a) + 2
    BY <1>2
  <2>2. IsResult(Result(<< >>, i + 1, a[i] = "out", << >>), i + 1, Len(a))
    BY <2>1, ResultMade, ShortSequences
  <2> QED
    BY <1>3, <1>5, <2>2 DEF BelowOf
<1> QED
  BY <1>4, <1>5

\* The same for the siblings after the node.
LEMMA OtherFacts ==
  ASSUME NEW g, NEW a \in Seq(Step), NEW u,
         NEW i \in 1 .. Len(a), NEW ns \in Seq(DOMAIN g.forward), NEW anc \in Seq(DOMAIN g.forward),
         ns # << >>, NEW below, IsResult(below, i + 1, Len(a)),
         \A p \in Places(g, a) : p[1] > i => IsResult(u[p], p[1], Len(a))
  PROVE  /\ IsResult(OtherOf(u, below, ns, anc), i + 1, Len(a))
         /\ <<below.left, Tail(ns), anc>> \in Places(g, a) /\ below.left > i
<1> DEFINE p == <<below.left, Tail(ns), anc>>
<1>1. Tail(ns) \in Seq(DOMAIN g.forward)
  BY HeadTail
<1>2. Len(a) \in Nat /\ below.left \in i + 1 .. Len(a) + 2 /\ below.left \in 1 .. Len(a) + 2 /\ below.left > i
  BY LenProperties DEF IsResult
<1>3. p \in Places(g, a) /\ p[1] = below.left
  BY <1>1, <1>2, PlaceIn
<1>4. CASE below.stop
  <2>1. IsResult(Result(<< >>, below.left, TRUE, << >>), i + 1, Len(a))
    BY <1>2, ResultMade, ShortSequences
  <2> QED
    BY <1>2, <1>3, <1>4, <2>1 DEF OtherOf
<1>5. CASE ~below.stop
  <2>1. IsResult(u[p], below.left, Len(a))
    <3> HIDE DEF p
    <3> QED
      BY <1>2, <1>3
  <2>2. u[p].left \in i + 1 .. Len(a) + 2
    BY <1>2, <2>1 DEF IsResult
  <2>3. IsResult(u[p], i + 1, Len(a))
    BY <2>1, <2>2 DEF IsResult
  <2> QED
    BY <1>2, <1>3, <1>5, <2>3 DEF OtherOf
<1> QED
  BY <1>4, <1>5

\* The result of a node entered.
LEMMA EnteredFacts ==
  ASSUME NEW n, NEW i, NEW below, NEW other, NEW ns, NEW anc, IsResult(below, i, n), IsResult(other, i, n)
  PROVE  IsResult(Entered(below, other, ns, anc), i, n)
<1> DEFINE path == Append(anc, Head(ns))
           c1 == Join(WayOf("down", anc, path), << <<"pre", path>> >>)
           c2 == Join(c1, below.calls)
           c3 == Join(c2, << <<"post", path>> >>)
           c4 == Join(c3, WayOf("up", anc, path))
           c5 == Join(c4, other.calls)
           t == Join(<< <<Head(ns), below.trees>> >>, other.trees)
<1>0. Sequence(below.calls) /\ Sequence(other.calls) /\ Sequence(other.trees) /\ other.stop \in BOOLEAN
      /\ other.left \in i .. n + 2
  BY DEF IsResult
<1>1. Sequence(c1)
  BY WaySequence, ShortSequences, Concatenation
<1>2. Sequence(c2)
  <2> HIDE DEF c1
  <2> QED
    BY <1>0, <1>1, Concatenation
<1>3. Sequence(c3)
  <2> HIDE DEF c2
  <2> QED
    BY <1>2, ShortSequences, Concatenation
<1>4. Sequence(c4)
  <2> HIDE DEF c3
  <2> QED
    BY <1>3, WaySequence, Concatenation
<1>5. Sequence(c5)
  <2> HIDE DEF c4
  <2> QED
    BY <1>0, <1>4, Concatenation
<1>6. Sequence(t)
  BY <1>0, ShortSequences, Concatenation
<1>7. Entered(below, other, ns, anc) = Result(c5, other.left, other.stop, t)
  BY DEF Entered
<1> HIDE DEF c5, t
<1> QED
  BY <1>0, <1>5, <1>6, <1>7, ResultMade

\* A place is a number of an answer, the siblings and the ancestors.
LEMMA PlaceParts ==
  ASSUME NEW g, NEW a, NEW p \in Places(g, a)
  PROVE  /\ p[1] \in 1 .. Len(a) + 2 /\ p[2] \in Seq(DOMAIN g.forward) /\ p[3] \in Seq(DOMAIN g.forward)
         /\ p = <<p[1], p[2], p[3]>>
BY DEF Places

\* The body of the recursion gives results, and depends on later answers only.
LEMMA BodyFacts ==
  ASSUME NEW g, IsGraph(g), NEW a \in Seq(Step), NEW u, NEW at \in Places(g, a),
         \A p \in Places(g, a) : p[1] > at[1] => IsResult(u[p], p[1], Len(a))
  PROVE  /\ IsResult(VisitBody(g, u, a, at), at[1], Len(a))
         /\ \A v : (\A p \in Places(g, a) : p[1] > at[1] => v[p] = u[p])
                      => VisitBody(g, v, a, at) = VisitBody(g, u, a, at)
<1> DEFINE i == at[1]
           ns == at[2]
           anc == at[3]
<1>0. Len(a) \in Nat /\ i \in 1 .. Len(a) + 2 /\ ns \in Seq(DOMAIN g.forward) /\ anc \in Seq(DOMAIN g.forward)
  BY LenProperties, PlaceParts
<1>1. CASE ns = << >>
  <2>1. \A v : VisitBody(g, v, a, at) = Result(<< >>, i, FALSE, << >>)
    BY <1>1 DEF VisitBody
  <2>2. IsResult(Result(<< >>, i, FALSE, << >>), i, Len(a))
    <3>1. i \in i .. Len(a) + 2
      BY <1>0
    <3> QED
      BY <3>1, ResultMade, ShortSequences
  <2> QED
    BY <2>1, <2>2
<1>2. CASE ns # << >> /\ i > Len(a)
  <2> DEFINE r == Result(WayOf("down", anc, Append(anc, Head(ns))), Len(a) + 2, TRUE, << >>)
  <2>1. \A v : VisitBody(g, v, a, at) = r
    BY <1>2 DEF VisitBody
  <2>2. IsResult(r, i, Len(a))
    <3>1. Len(a) + 2 \in i .. Len(a) + 2
      BY <1>0
    <3> QED
      BY <3>1, ResultMade, ShortSequences, WaySequence
  <2> QED
    BY <2>1, <2>2
<1>3. CASE ns # << >> /\ ~(i > Len(a))
  <2> DEFINE below(v) == BelowOf(g, v, a, i, ns, anc)
             other(v, b) == OtherOf(v, b, ns, anc)
             p == <<i + 1, g.forward[Head(ns)], Append(anc, Head(ns))>>
             q == <<below(u).left, Tail(ns), anc>>
  <2>0. i \in 1 .. Len(a)
    BY <1>0, <1>3
  <2>1. \A v : VisitBody(g, v, a, at) = Entered(below(v), other(v, below(v)), ns, anc)
    BY <1>3 DEF VisitBody
  <2>2. IsResult(below(u), i + 1, Len(a)) /\ p \in Places(g, a) /\ p[1] = i + 1
    <3>1. IsResult(below(u), i + 1, Len(a)) /\ p \in Places(g, a)
      BY <1>0, <1>3, <2>0, BelowFacts
    <3> QED
      BY <3>1
  <2>3. IsResult(other(u, below(u)), i + 1, Len(a)) /\ q \in Places(g, a) /\ q[1] > i
    <3> HIDE DEF below
    <3>1. IsResult(other(u, below(u)), i + 1, Len(a)) /\ q \in Places(g, a) /\ below(u).left > i
      BY <1>0, <1>3, <2>0, <2>2, OtherFacts
    <3> QED
      BY <3>1
  <2>4. IsResult(VisitBody(g, u, a, at), i, Len(a))
    <3> HIDE DEF below, other
    <3>1. IsResult(VisitBody(g, u, a, at), i + 1, Len(a))
      BY <2>1, <2>2, <2>3, EnteredFacts
    <3> QED
      BY <1>0, <3>1 DEF IsResult
  <2>5. ASSUME NEW v, \A w \in Places(g, a) : w[1] > i => v[w] = u[w]
        PROVE  VisitBody(g, v, a, at) = VisitBody(g, u, a, at)
    <3>1. v[p] = u[p]
      <4> HIDE DEF p
      <4> QED
        BY <1>0, <2>2, <2>5
    <3>2. v[q] = u[q]
      <4> HIDE DEF q
      <4> QED
        BY <2>3, <2>5
    <3>3. below(v) = below(u)
      BY <3>1 DEF BelowOf
    <3>4. other(v, below(u)) = other(u, below(u))
      <4> HIDE DEF below
      <4> QED
        BY <3>2 DEF OtherOf
    <3> HIDE DEF below, other
    <3> QED
      BY <2>1, <3>3, <3>4
  <2> QED
    BY <2>4, <2>5
<1> QED
  BY <1>1, <1>2, <1>3

\* The traversals exist, one for each place.
LEMMA VisitExists ==
  ASSUME NEW g, IsGraph(g), NEW a \in Seq(Step)
  PROVE  \E u : IsVisit(g, u, a)
<1> DEFINE n == Len(a)
           Late(k) == {p \in Places(g, a) : p[1] >= n + 2 - k}
           Partial(u, k) == /\ u = [at \in Late(k) |-> VisitBody(g, u, a, at)]
                            /\ \A p \in Late(k) : IsResult(u[p], p[1], n)
           K == {k \in 0 .. n + 1 : \E u : Partial(u, k)}
<1>0. n \in Nat /\ \A p \in Places(g, a) : p[1] \in 1 .. n + 2
  BY LenProperties, PlaceParts
<1> HIDE DEF n
<1>1. ASSUME NEW k \in 0 .. n + 1, NEW u, NEW L, L \in SUBSET Late(k),
             \A p \in Late(k) : p[1] > n + 2 - k => p \in L,
             \A p \in L : u[p] = VisitBody(g, u, a, p) /\ IsResult(u[p], p[1], n)
      PROVE  \E v : Partial(v, k)
  <2> DEFINE val(p) == IF p \in L THEN u[p] ELSE VisitBody(g, u, a, p)
             v == [p \in Late(k) |-> val(p)]
  <2>1. \A p \in L : v[p] = u[p] /\ p \in Late(k)
    BY <1>1
  <2>2. ASSUME NEW p \in Late(k) PROVE v[p] = VisitBody(g, v, a, p) /\ IsResult(v[p], p[1], n)
    <3>1. p \in Places(g, a) /\ p[1] >= n + 2 - k /\ p[1] \in Int /\ n + 2 - k \in Int
      BY <1>0
    <3>2. \A q \in Places(g, a) : q[1] > p[1] => q \in L
      <4> TAKE q \in Places(g, a)
      <4> HAVE q[1] > p[1]
      <4>1. q[1] > n + 2 - k /\ q[1] >= n + 2 - k
        BY <1>0, <3>1
      <4> QED
        BY <1>1, <4>1
    <3>3. \A q \in Places(g, a) : q[1] > p[1] => IsResult(u[q], q[1], n) /\ v[q] = u[q]
      BY <1>1, <2>1, <3>2
    <3> HIDE DEF v
    <3>4. IsResult(VisitBody(g, u, a, p), p[1], n) /\ VisitBody(g, v, a, p) = VisitBody(g, u, a, p)
      BY <3>1, <3>3, BodyFacts DEF n
    <3>5. v[p] = VisitBody(g, u, a, p)
      BY <1>1 DEF v
    <3> QED
      BY <3>4, <3>5
  <2>3. v = [at \in Late(k) |-> VisitBody(g, v, a, at)]
    <3> DEFINE body(at) == VisitBody(g, v, a, at)
    <3>1. \A at \in Late(k) : v[at] = body(at)
      BY <2>2
    <3>2. v = [at \in Late(k) |-> v[at]]
      <4> HIDE DEF Late, val
      <4> QED
        OBVIOUS
    <3> HIDE DEF body, v, Late
    <3>3. v = [at \in Late(k) |-> body(at)]
      BY <3>1, <3>2
    <3> QED
      BY <3>3 DEF body
  <2> HIDE DEF v
  <2> QED
    BY <2>2, <2>3
<1>2. 0 \in K
  <2>1. \E v : Partial(v, 0)
    <3> DEFINE empty == {}
    <3>1. 0 \in 0 .. n + 1 /\ empty \in SUBSET Late(0) /\ \A p \in Late(0) : p[1] > n + 2 - 0 => p \in empty
      BY <1>0
    <3> DEFINE none == << >>
    <3>2. \A p \in empty : none[p] = VisitBody(g, none, a, p) /\ IsResult(none[p], p[1], n)
      OBVIOUS
    <3> HIDE DEF Late, Partial, none, empty
    <3> QED
      BY <3>1, <3>2, <1>1
  <2> HIDE DEF Partial
  <2> QED
    BY <1>0, <2>1
<1>3. ASSUME NEW k \in 0 .. n, k \in K PROVE k + 1 \in K
  <2>1. PICK u : Partial(u, k)
    BY <1>3
  <2>2. Late(k) \in SUBSET Late(k + 1) /\ \A p \in Late(k + 1) : p[1] > n + 2 - (k + 1) => p \in Late(k)
    BY <1>0
  <2>3. \A p \in Late(k) : u[p] = VisitBody(g, u, a, p) /\ IsResult(u[p], p[1], n)
    <3> HIDE DEF Late
    <3> QED
      BY <2>1
  <2>4. k + 1 \in 0 .. n + 1
    BY <1>0
  <2>5. \E v : Partial(v, k + 1)
    <3> HIDE DEF Late, Partial
    <3> QED
      BY <1>1, <2>2, <2>3, <2>4
  <2> HIDE DEF Partial
  <2> QED
    BY <2>4, <2>5
<1>4. n + 1 \in K
  <2> HIDE DEF K
  <2> DEFINE m == n + 1
  <2>1. m \in Nat /\ m \in 0 .. m
    BY <1>0
  <2>2. \A i \in 0 .. m - 1 : i \in K => i + 1 \in K
    <3>1. 0 .. m - 1 = 0 .. n
      BY <1>0
    <3> QED
      BY <1>3, <3>1
  <2> HIDE DEF m
  <2>3. \A i \in 0 .. m : i \in K
    BY <1>2, <2>1, <2>2, IntervalInduction
  <2> QED
    BY <2>1, <2>3 DEF m
<1>5. PICK u : Partial(u, n + 1)
  BY <1>4
<1>6. Late(n + 1) = Places(g, a)
  BY <1>0
<1> HIDE DEF Late
<1>7. IsVisit(g, u, a)
  BY <1>5, <1>6 DEF IsVisit
<1> QED
  BY <1>7

\* The traversals by recursion, as the recursion defines them.
LEMMA VisitFacts ==
  ASSUME NEW g, IsGraph(g), NEW a \in Seq(Step), NEW p \in Places(g, a)
  PROVE  /\ Visit(g, a)[p] = VisitBody(g, Visit(g, a), a, p)
         /\ IsResult(Visit(g, a)[p], p[1], Len(a))
<1>1. PICK w : IsVisit(g, w, a)
  BY VisitExists
<1>2. IsVisit(g, Visit(g, a), a)
  BY <1>1, VisitIsChosen
<1> DEFINE u == Visit(g, a)
           n == Len(a)
<1>3. \A q \in Places(g, a) : u[q] = VisitBody(g, u, a, q)
  <2> HIDE DEF u
  <2> QED
    BY <1>2 DEF IsVisit, u
<1> HIDE DEF u
<1>4. \A q \in Places(g, a) : IsResult(u[q], q[1], n)
  <2> DEFINE K == {k \in 0 .. n + 1 : \A q \in Places(g, a) : q[1] >= n + 2 - k => IsResult(u[q], q[1], n)}
  <2>0. n \in Nat /\ \A q \in Places(g, a) : q[1] \in 1 .. n + 2
    BY LenProperties, PlaceParts
  <2> HIDE DEF n
  <2>1. ASSUME NEW k \in 0 .. n + 1,
               \A q \in Places(g, a) : q[1] > n + 2 - k => IsResult(u[q], q[1], n)
        PROVE  k \in K
    <3>1. ASSUME NEW q \in Places(g, a), q[1] >= n + 2 - k PROVE IsResult(u[q], q[1], n)
      <4>1. \A r \in Places(g, a) : r[1] > q[1] => r[1] > n + 2 - k
        BY <2>0, <3>1
      <4>2. \A r \in Places(g, a) : r[1] > q[1] => IsResult(u[r], r[1], n)
        BY <2>1, <4>1
      <4>3. IsResult(VisitBody(g, u, a, q), q[1], n)
        BY <4>2, BodyFacts DEF n
      <4> QED
        BY <1>3, <4>3
    <3> QED
      BY <3>1
  <2>2. 0 \in K
    BY <2>0, <2>1
  <2>3. ASSUME NEW k \in 0 .. n, k \in K PROVE k + 1 \in K
    <3>1. k + 1 \in 0 .. n + 1
      BY <2>0
    <3>2. \A q \in Places(g, a) : q[1] > n + 2 - (k + 1) => q[1] >= n + 2 - k
      BY <2>0
    <3>3. \A q \in Places(g, a) : q[1] > n + 2 - (k + 1) => IsResult(u[q], q[1], n)
      BY <2>3, <3>2
    <3> HIDE DEF K
    <3> QED
      BY <2>1, <3>1, <3>3
  <2>4. n + 1 \in K
    <3> HIDE DEF K
    <3> DEFINE m == n + 1
    <3>1. m \in Nat /\ m \in 0 .. m
      BY <2>0
    <3>2. \A i \in 0 .. m - 1 : i \in K => i + 1 \in K
      <4>1. 0 .. m - 1 = 0 .. n
        BY <2>0
      <4> QED
        BY <2>3, <4>1
    <3> HIDE DEF m
    <3>3. \A i \in 0 .. m : i \in K
      BY <2>2, <3>1, <3>2, IntervalInduction
    <3> QED
      BY <3>1, <3>3 DEF m
  <2> QED
    BY <2>0, <2>4
<1> QED
  BY <1>3, <1>4 DEF u, n

-----------------------------------------------------------------------------
(***************************************************************************)
(* The traversal cut in pieces: what is left of it after the calls made.   *)
(***************************************************************************)

\* The traversal of the siblings ns under the ancestors anc from the i-th answer on.
VisitOf(g, a, i, ns, anc) == Visit(g, a)[<<i, ns, anc>>]

\* The result r after the calls c and the trees t.
After(c, r, t) == Result(Join(c, r.calls), r.left, r.stop, Join(t, r.trees))

\* The result of the siblings ns after the trees t, once what is below the first one has the
\* result r.
Closing(g, a, r, ns, anc, t) ==
  LET path == Append(anc, Head(ns))
      other == OtherOf(Visit(g, a), r, ns, anc)
  IN  Result(Join(r.calls, Join(<< <<"post", path>> >>, Join(WayOf("up", anc, path), other.calls))),
             other.left, other.stop, Join(t, Join(<< <<Head(ns), r.trees>> >>, other.trees)))

\* The traversal without the announcement of the way down.
DownOf(ns, anc) == IF ns = << >> THEN << >> ELSE WayOf("down", anc, Append(anc, Head(ns)))
RestOf(g, a, i, ns, anc) ==
  IF ns = << >> THEN Result(<< >>, i, FALSE, << >>)
  ELSE IF i > Len(a) THEN Result(<< >>, Len(a) + 2, TRUE, << >>)
  ELSE After(<< <<"pre", Append(anc, Head(ns))>> >>,
             Closing(g, a, BelowOf(g, Visit(g, a), a, i, ns, anc), ns, anc, << >>), << >>)

\* The way down is a sequence.
LEMMA DownSequence ==
  ASSUME NEW ns, NEW anc
  PROVE  Sequence(DownOf(ns, anc))
BY ShortSequences, WaySequence DEF DownOf

\* The parts of a result after others.
LEMMA AfterFields ==
  ASSUME NEW c, NEW r, NEW t
  PROVE  /\ After(c, r, t).calls = Join(c, r.calls)
         /\ After(c, r, t).left = r.left
         /\ After(c, r, t).stop = r.stop
         /\ After(c, r, t).trees = Join(t, r.trees)
BY DEF After, Result

\* What is before a result is joined.
LEMMA AfterTwice ==
  ASSUME NEW c, NEW d, NEW t, NEW s, NEW r, NEW i, NEW n, IsResult(r, i, n),
         Sequence(c), Sequence(d), Sequence(t), Sequence(s)
  PROVE  After(c, After(d, r, s), t) = After(Join(c, d), r, Join(t, s))
<1>1. Sequence(r.calls) /\ Sequence(r.trees)
  BY DEF IsResult
<1>2. Join(c, Join(d, r.calls)) = Join(Join(c, d), r.calls) /\ Join(t, Join(s, r.trees)) = Join(Join(t, s), r.trees)
  BY <1>1, Associative
<1> DEFINE q == After(d, r, s)
<1>3. q.calls = Join(d, r.calls) /\ q.left = r.left /\ q.stop = r.stop /\ q.trees = Join(s, r.trees)
  BY AfterFields
<1>4. After(c, q, t) = Result(Join(c, Join(d, r.calls)), r.left, r.stop, Join(t, Join(s, r.trees)))
  <2> HIDE DEF q
  <2> QED
    BY <1>3 DEF After
<1> QED
  BY <1>2, <1>4 DEF After

\* Nothing before a result.
LEMMA AfterNothing ==
  ASSUME NEW r, NEW i, NEW n, IsResult(r, i, n)
  PROVE  After(<< >>, r, << >>) = r
<1>1. Sequence(r.calls) /\ Sequence(r.trees) /\ r = Result(r.calls, r.left, r.stop, r.trees)
  BY DEF IsResult
<1>2. Join(<< >>, r.calls) = r.calls /\ Join(<< >>, r.trees) = r.trees
  BY <1>1, Concatenation
<1> QED
  BY <1>1, <1>2 DEF After

\* A result after sequences is a result.
LEMMA AfterResult ==
  ASSUME NEW c, NEW t, NEW r, NEW i, NEW n, IsResult(r, i, n), Sequence(c), Sequence(t)
  PROVE  IsResult(After(c, r, t), i, n)
<1>1. Sequence(r.calls) /\ Sequence(r.trees) /\ r.left \in i .. n + 2 /\ r.stop \in BOOLEAN
  BY DEF IsResult
<1>2. Sequence(Join(c, r.calls)) /\ Sequence(Join(t, r.trees))
  BY <1>1, Concatenation
<1> QED
  BY <1>1, <1>2, ResultMade DEF After

\* What a level is closed with after r.
LEMMA ClosingResult ==
  ASSUME NEW g, IsGraph(g), NEW a \in Seq(Step), NEW i \in 1 .. Len(a),
         NEW ns \in Seq(DOMAIN g.forward), NEW anc \in Seq(DOMAIN g.forward), ns # << >>,
         NEW r, IsResult(r, i + 1, Len(a)), NEW t, Sequence(t)
  PROVE  /\ IsResult(Closing(g, a, r, ns, anc, t), i + 1, Len(a))
         /\ IsResult(OtherOf(Visit(g, a), r, ns, anc), i + 1, Len(a))
<1> DEFINE path == Append(anc, Head(ns))
           other == OtherOf(Visit(g, a), r, ns, anc)
           post == << <<"post", path>> >>
           up == WayOf("up", anc, path)
           tree == << <<Head(ns), r.trees>> >>
<1>1. \A p \in Places(g, a) : p[1] > i => IsResult(Visit(g, a)[p], p[1], Len(a))
  BY VisitFacts
<1>2. IsResult(other, i + 1, Len(a))
  BY <1>1, OtherFacts
<1>3. Sequence(post) /\ Sequence(up) /\ Sequence(tree)
  BY ShortSequences, WaySequence
<1>4. Closing(g, a, r, ns, anc, t)
        = Result(Join(r.calls, Join(post, Join(up, other.calls))), other.left, other.stop, Join(t, Join(tree, other.trees)))
  BY DEF Closing
<1> HIDE DEF other, post, up, tree
<1>5. /\ Sequence(other.calls) /\ Sequence(other.trees) /\ other.left \in i + 1 .. Len(a) + 2
      /\ other.stop \in BOOLEAN /\ Sequence(r.calls)
  BY <1>2 DEF IsResult
<1>6. Sequence(Join(up, other.calls)) /\ Sequence(Join(tree, other.trees))
  BY <1>3, <1>5, Concatenation
<1>7. Sequence(Join(post, Join(up, other.calls))) /\ Sequence(Join(t, Join(tree, other.trees)))
  BY <1>3, <1>6, Concatenation
<1>8. Sequence(Join(r.calls, Join(post, Join(up, other.calls))))
  BY <1>5, <1>7, Concatenation
<1>9. IsResult(Closing(g, a, r, ns, anc, t), i + 1, Len(a))
  BY <1>4, <1>5, <1>7, <1>8, ResultMade
<1> QED
  BY <1>2, <1>9 DEF other

\* Calls made before what is below a node are made before its level is closed.
LEMMA ClosingAfter ==
  ASSUME NEW g, IsGraph(g), NEW a \in Seq(Step), NEW i \in 1 .. Len(a),
         NEW ns \in Seq(DOMAIN g.forward), NEW anc \in Seq(DOMAIN g.forward), ns # << >>,
         NEW r, IsResult(r, i + 1, Len(a)), NEW c, Sequence(c), NEW t, Sequence(t)
  PROVE  Closing(g, a, After(c, r, << >>), ns, anc, t) = After(c, Closing(g, a, r, ns, anc, << >>), t)
<1> DEFINE path == Append(anc, Head(ns))
           other == OtherOf(Visit(g, a), r, ns, anc)
           calls_ == Join(<< <<"post", path>> >>, Join(WayOf("up", anc, path), other.calls))
           trees_ == Join(<< <<Head(ns), r.trees>> >>, other.trees)
           q == After(c, r, << >>)
<1>1. Sequence(r.calls) /\ Sequence(r.trees)
  BY DEF IsResult
<1>2. q.calls = Join(c, r.calls) /\ q.left = r.left /\ q.stop = r.stop /\ q.trees = r.trees
  <2>1. Join(<< >>, r.trees) = r.trees
    BY <1>1, Concatenation
  <2> QED
    BY <2>1, AfterFields
<1>3. OtherOf(Visit(g, a), q, ns, anc) = other
  <2> HIDE DEF q
  <2> QED
    BY <1>2 DEF OtherOf
<1>4. Closing(g, a, q, ns, anc, t)
        = Result(Join(Join(c, r.calls), calls_), other.left, other.stop, Join(t, trees_))
  <2> HIDE DEF other, q
  <2> QED
    BY <1>2, <1>3 DEF Closing
<1>5. Closing(g, a, r, ns, anc, << >>) = Result(Join(r.calls, calls_), other.left, other.stop, Join(<< >>, trees_))
  <2> HIDE DEF other
  <2> QED
    BY DEF Closing, other
<1>6. Sequence(calls_) /\ Sequence(trees_)
  <2>1. IsResult(other, i + 1, Len(a))
    BY ClosingResult
  <2>2. Sequence(other.calls) /\ Sequence(other.trees)
    BY <2>1 DEF IsResult
  <2> HIDE DEF other
  <2>3. Sequence(Join(WayOf("up", anc, path), other.calls))
    BY <2>2, WaySequence, Concatenation
  <2> QED
    BY <2>2, <2>3, ShortSequences, Concatenation
<1> HIDE DEF calls_, trees_, other, q
<1>7. Join(Join(c, r.calls), calls_) = Join(c, Join(r.calls, calls_)) /\ Join(<< >>, trees_) = trees_
  <2>1. Join(Join(c, r.calls), calls_) = Join(c, Join(r.calls, calls_))
    BY <1>1, <1>6, Associative
  <2>2. Join(<< >>, trees_) = trees_
    BY <1>6, Concatenation
  <2> QED
    BY <2>1, <2>2
<1>8. Closing(g, a, q, ns, anc, t) = Result(Join(c, Join(r.calls, calls_)), other.left, other.stop, Join(t, trees_))
  BY <1>4, <1>7
<1> DEFINE z == Closing(g, a, r, ns, anc, << >>)
<1>9. z.calls = Join(r.calls, calls_) /\ z.left = other.left /\ z.stop = other.stop /\ z.trees = trees_
  BY <1>5, <1>7 DEF Result
<1> HIDE DEF z
<1>10. Closing(g, a, q, ns, anc, t) = After(c, z, t)
  BY <1>8, <1>9 DEF After
<1> QED
  BY <1>10 DEF q, z

\* The traversal announces the way down and goes on.
LEMMA VisitOfRest ==
  ASSUME NEW g, IsGraph(g), NEW a \in Seq(Step), NEW i \in 1 .. Len(a) + 2,
         NEW ns \in Seq(DOMAIN g.forward), NEW anc \in Seq(DOMAIN g.forward)
  PROVE  /\ VisitOf(g, a, i, ns, anc) = After(DownOf(ns, anc), RestOf(g, a, i, ns, anc), << >>)
         /\ IsResult(RestOf(g, a, i, ns, anc), i, Len(a))
         /\ IsResult(VisitOf(g, a, i, ns, anc), i, Len(a))
<1> DEFINE u == Visit(g, a)
           at == <<i, ns, anc>>
           path == Append(anc, Head(ns))
<1>1. at \in Places(g, a) /\ at[1] = i /\ at[2] = ns /\ at[3] = anc
  BY PlaceIn
<1>2. u[at] = VisitBody(g, u, a, at) /\ IsResult(u[at], i, Len(a))
  <2> HIDE DEF at
  <2> QED
    BY <1>1, VisitFacts
<1>0. Len(a) \in Nat
  BY LenProperties
<1>3. CASE ns = << >>
  <2> DEFINE r == Result(<< >>, i, FALSE, << >>)
  <2>1. u[at] = r /\ RestOf(g, a, i, ns, anc) = r /\ DownOf(ns, anc) = << >>
    <3> HIDE DEF at
    <3> QED
      BY <1>1, <1>2, <1>3 DEF VisitBody, RestOf, DownOf
  <2>2. IsResult(r, i, Len(a))
    BY <1>2, <2>1
  <2>3. After(<< >>, r, << >>) = r
    <3> HIDE DEF r
    <3> QED
      BY <2>2, AfterNothing
  <2> HIDE DEF r
  <2> QED
    BY <2>1, <2>2, <2>3 DEF VisitOf
<1>4. CASE ns # << >> /\ i > Len(a)
  <2> DEFINE r == Result(<< >>, Len(a) + 2, TRUE, << >>)
             down == DownOf(ns, anc)
  <2>1. u[at] = Result(down, Len(a) + 2, TRUE, << >>) /\ RestOf(g, a, i, ns, anc) = r
    <3> HIDE DEF at
    <3> QED
      BY <1>1, <1>2, <1>4 DEF VisitBody, RestOf, DownOf
  <2>2. IsResult(r, i, Len(a))
    <3>1. Len(a) + 2 \in i .. Len(a) + 2
      BY <1>0
    <3> QED
      BY <3>1, ShortSequences, ResultMade
  <2>3. After(down, r, << >>) = Result(down, Len(a) + 2, TRUE, << >>)
    <3>1. Join(down, << >>) = down /\ Join(<< >>, << >>) = << >>
      BY DownSequence, ShortSequences, Concatenation
    <3> HIDE DEF down
    <3> QED
      BY <3>1 DEF After, Result
  <2> HIDE DEF r, down
  <2> QED
    BY <1>2, <2>1, <2>2, <2>3 DEF VisitOf, down
<1>5. CASE ns # << >> /\ ~(i > Len(a))
  <2> DEFINE below == BelowOf(g, u, a, i, ns, anc)
             other == OtherOf(u, below, ns, anc)
             down == DownOf(ns, anc)
             pre == << <<"pre", path>> >>
             post == << <<"post", path>> >>
             up == WayOf("up", anc, path)
             tree == << <<Head(ns), below.trees>> >>
             close == Closing(g, a, below, ns, anc, << >>)
  <2>0. i \in 1 .. Len(a)
    BY <1>0, <1>5
  <2>1. IsResult(below, i + 1, Len(a))
    <3>1. \A p \in Places(g, a) : p[1] > i => IsResult(u[p], p[1], Len(a))
      BY VisitFacts
    <3> QED
      BY <1>5, <2>0, <3>1, BelowFacts
  <2>2. IsResult(other, i + 1, Len(a)) /\ IsResult(close, i + 1, Len(a))
    <3> HIDE DEF below
    <3> QED
      BY <1>5, <2>0, <2>1, ClosingResult, ShortSequences
  <2>3. u[at] = Result(Join(Join(Join(Join(Join(down, pre), below.calls), post), up), other.calls),
                       other.left, other.stop, Join(tree, other.trees))
    <3>1. u[at] = Entered(below, other, ns, anc)
      <4> HIDE DEF at
      <4> QED
        BY <1>1, <1>2, <1>5 DEF VisitBody
    <3>2. down = WayOf("down", anc, path)
      BY <1>5 DEF DownOf
    <3> HIDE DEF below, other, down
    <3> QED
      BY <3>1, <3>2 DEF Entered
  <2>4. close = Result(Join(below.calls, Join(post, Join(up, other.calls))), other.left, other.stop,
                       Join(<< >>, Join(tree, other.trees)))
    <3> HIDE DEF below
    <3> QED
      BY DEF Closing
  <2>5. RestOf(g, a, i, ns, anc) = After(pre, close, << >>)
    BY <1>5 DEF RestOf
  <2>6. Sequence(down) /\ Sequence(pre) /\ Sequence(post) /\ Sequence(up) /\ Sequence(tree)
    BY DownSequence, WaySequence, ShortSequences
  <2> HIDE DEF below, other, down, pre, post, up, tree, close
  <2>7. Sequence(below.calls) /\ Sequence(other.calls) /\ Sequence(other.trees)
    BY <2>1, <2>2 DEF IsResult
  <2>8. Join(Join(Join(Join(Join(down, pre), below.calls), post), up), other.calls)
          = Join(Join(down, pre), Join(below.calls, Join(post, Join(up, other.calls))))
    <3> DEFINE dp == Join(down, pre)
               bc == Join(dp, below.calls)
               po == Join(bc, post)
               uo == Join(up, other.calls)
               puo == Join(post, uo)
    <3>1. Sequence(dp) /\ Sequence(uo)
      BY <2>6, <2>7, Concatenation
    <3>2. Sequence(bc) /\ Sequence(puo)
      <4> HIDE DEF dp, uo
      <4> QED
        BY <2>6, <2>7, <3>1, Concatenation
    <3>3. Sequence(po)
      <4> HIDE DEF bc
      <4> QED
        BY <2>6, <3>2, Concatenation
    <3>4. Join(Join(po, up), other.calls) = Join(po, uo)
      <4> HIDE DEF po
      <4> QED
        BY <2>6, <2>7, <3>3, Associative
    <3>5. Join(po, uo) = Join(bc, puo)
      <4> HIDE DEF bc, uo
      <4> QED
        BY <2>6, <3>1, <3>2, Associative
    <3>6. Join(bc, puo) = Join(dp, Join(below.calls, puo))
      <4> HIDE DEF dp, puo
      <4> QED
        BY <2>7, <3>1, <3>2, Associative
    <3> QED
      BY <3>4, <3>5, <3>6
  <2>9. Join(<< >>, Join(tree, other.trees)) = Join(tree, other.trees)
    <3>1. Sequence(Join(tree, other.trees))
      BY <2>6, <2>7, Concatenation
    <3> DEFINE w == Join(tree, other.trees)
    <3> HIDE DEF w
    <3> QED
      BY <3>1, Concatenation DEF w
  <2>10. u[at] = After(Join(down, pre), close, << >>)
    <3>1. /\ close.calls = Join(below.calls, Join(post, Join(up, other.calls)))
          /\ close.left = other.left /\ close.stop = other.stop /\ close.trees = Join(tree, other.trees)
      BY <2>4, <2>9 DEF Result
    <3> QED
      BY <2>3, <2>8, <2>9, <3>1 DEF After
  <2>11. After(Join(down, pre), close, << >>) = After(down, After(pre, close, << >>), << >>)
    <3>1. Join(<< >>, << >>) = << >> /\ Sequence(<< >>)
      BY ShortSequences, Concatenation
    <3> QED
      BY <2>2, <2>6, <3>1, AfterTwice
  <2>12. IsResult(After(pre, close, << >>), i, Len(a))
    <3>1. IsResult(After(pre, close, << >>), i + 1, Len(a))
      BY <2>2, <2>6, ShortSequences, AfterResult
    <3> QED
      BY <1>0, <3>1 DEF IsResult
  <2> QED
    BY <1>2, <2>5, <2>10, <2>11, <2>12 DEF VisitOf, down
<1> QED
  BY <1>3, <1>4, <1>5

-----------------------------------------------------------------------------
(***************************************************************************)
(* The steps of the traversal, on the result still to come                 *)
(***************************************************************************)

\* Before pre: what is below the node, then its level.
PreSplits(g, a, i, ns, anc, c, t) ==
  LET below == BelowOf(g, Visit(g, a), a, i, ns, anc)
      pre == << <<"pre", Append(anc, Head(ns))>> >>
  IN  After(c, RestOf(g, a, i, ns, anc), t) = Closing(g, a, After(Join(c, pre), below, << >>), ns, anc, t)

\* The traversal before pre is split so.
LEMMA PreBelow ==
  ASSUME NEW g, IsGraph(g), NEW a \in Seq(Step), NEW i \in 1 .. Len(a),
         NEW ns \in Seq(DOMAIN g.forward), NEW anc \in Seq(DOMAIN g.forward), ns # << >>,
         NEW c, Sequence(c), NEW t, Sequence(t)
  PROVE  PreSplits(g, a, i, ns, anc, c, t)
<1> DEFINE below == BelowOf(g, Visit(g, a), a, i, ns, anc)
           pre == << <<"pre", Append(anc, Head(ns))>> >>
           close == Closing(g, a, below, ns, anc, << >>)
<1>1. RestOf(g, a, i, ns, anc) = After(pre, close, << >>)
  <2>1. ~(i > Len(a))
    BY LenProperties
  <2> QED
    BY <2>1 DEF RestOf
<1>2. IsResult(below, i + 1, Len(a))
  <2>1. \A p \in Places(g, a) : p[1] > i => IsResult(Visit(g, a)[p], p[1], Len(a))
    BY VisitFacts
  <2> QED
    BY <2>1, BelowFacts
<1> HIDE DEF below
<1>3. IsResult(close, i + 1, Len(a))
  BY <1>2, ClosingResult, ShortSequences
<1>4. Sequence(pre) /\ Sequence(<< >>)
  BY ShortSequences
<1>5. ASSUME NEW z, IsResult(z, i + 1, Len(a))
      PROVE  After(c, After(pre, z, << >>), t) = After(Join(c, pre), z, t)
  <2>1. Join(t, << >>) = t
    BY <1>4, Concatenation
  <2>2. After(c, After(pre, z, << >>), t) = After(Join(c, pre), z, Join(t, << >>))
    <3> HIDE DEF pre
    <3> QED
      BY <1>4, <1>5, AfterTwice
  <2> QED
    BY <2>1, <2>2
<1>6. Closing(g, a, After(Join(c, pre), below, << >>), ns, anc, t) = After(Join(c, pre), close, t)
  <2>1. Sequence(Join(c, pre))
    BY <1>4, Concatenation
  <2> HIDE DEF pre
  <2> QED
    BY <1>2, <2>1, ClosingAfter
<1>7. After(c, After(pre, close, << >>), t) = After(Join(c, pre), close, t)
  <2> HIDE DEF close, pre
  <2> QED
    BY <1>3, <1>5
<1>8. After(c, RestOf(g, a, i, ns, anc), t) = Closing(g, a, After(Join(c, pre), below, << >>), ns, anc, t)
  <2> HIDE DEF close, pre
  <2> QED
    BY <1>1, <1>6, <1>7
<1> QED
  BY <1>8 DEF below, PreSplits

\* After pre answered to go into the node.
IntoGoesOn(g, a, i, ns, anc, c) ==
  LET path == Append(anc, Head(ns))
      kids == g.forward[Head(ns)]
  IN  After(c, BelowOf(g, Visit(g, a), a, i, ns, anc), << >>)
        = After(Join(c, DownOf(kids, path)), RestOf(g, a, i + 1, kids, path), << >>)

\* The traversal goes on so.
LEMMA BelowInto ==
  ASSUME NEW g, IsGraph(g), NEW a \in Seq(Step), NEW i \in 1 .. Len(a),
         NEW ns \in Seq(DOMAIN g.forward), NEW anc \in Seq(DOMAIN g.forward), ns # << >>,
         NEW c, Sequence(c), a[i] = "into"
  PROVE  IntoGoesOn(g, a, i, ns, anc, c)
<1> DEFINE path == Append(anc, Head(ns))
           kids == g.forward[Head(ns)]
           below == BelowOf(g, Visit(g, a), a, i, ns, anc)
           down == DownOf(kids, path)
           rest == RestOf(g, a, i + 1, kids, path)
           j == i + 1
<1>1. path \in Seq(DOMAIN g.forward) /\ kids \in Seq(DOMAIN g.forward)
  <2>1. Head(ns) \in DOMAIN g.forward
    BY HeadTail
  <2>2. path \in Seq(DOMAIN g.forward)
    BY <2>1, AppendProperties
  <2> QED
    BY <2>1, <2>2 DEF IsGraph
<1>2. j \in 1 .. Len(a) + 2
  BY LenProperties
<1>3. below = VisitOf(g, a, j, kids, path)
  BY DEF BelowOf, VisitOf
<1>4. below = After(down, rest, << >>) /\ IsResult(rest, j, Len(a))
  <2> HIDE DEF path, kids, j, below
  <2> QED
    BY <1>1, <1>2, <1>3, VisitOfRest DEF j
<1>5. After(c, After(down, rest, << >>), << >>) = After(Join(c, down), rest, << >>)
  <2>1. Sequence(<< >>) /\ Join(<< >>, << >>) = << >> /\ Sequence(down)
    BY ShortSequences, Concatenation, DownSequence
  <2>2. After(c, After(down, rest, << >>), << >>) = After(Join(c, down), rest, Join(<< >>, << >>))
    <3> HIDE DEF down, rest
    <3> QED
      BY <1>4, <2>1, AfterTwice
  <2> QED
    BY <2>1, <2>2
<1> HIDE DEF below, down, rest
<1>6. After(c, below, << >>) = After(Join(c, down), rest, << >>)
  BY <1>4, <1>5
<1> QED
  BY <1>6 DEF below, down, rest, IntoGoesOn

\* After pre answered not to go into the node, or to stop.
LEMMA BelowNone ==
  ASSUME NEW g, NEW a, NEW i, NEW ns, NEW anc, NEW c, Sequence(c), a[i] # "into"
  PROVE  After(c, BelowOf(g, Visit(g, a), a, i, ns, anc), << >>) = Result(c, i + 1, a[i] = "out", << >>)
<1> DEFINE r == BelowOf(g, Visit(g, a), a, i, ns, anc)
<1>1. Join(c, << >>) = c /\ Join(<< >>, << >>) = << >>
  BY ShortSequences, Concatenation
<1>2. r.calls = << >> /\ r.left = i + 1 /\ r.stop = (a[i] = "out") /\ r.trees = << >>
  BY DEF BelowOf, Result
<1> HIDE DEF r
<1>3. After(c, r, << >>) = Result(c, i + 1, a[i] = "out", << >>)
  BY <1>1, <1>2 DEF After
<1> QED
  BY <1>3 DEF r

\* A level without siblings left.
RestIsNone(g, a, i, anc, c, t) == After(c, RestOf(g, a, i, << >>, anc), t) = Result(c, i, FALSE, t)

\* Nothing is left of it.
LEMMA RestNone ==
  ASSUME NEW g, NEW a, NEW i, NEW anc, NEW c, Sequence(c), NEW t, Sequence(t)
  PROVE  RestIsNone(g, a, i, anc, c, t)
<1> DEFINE r == RestOf(g, a, i, << >>, anc)
<1>1. Join(c, << >>) = c /\ Join(t, << >>) = t
  BY ShortSequences, Concatenation
<1>2. r.calls = << >> /\ r.left = i /\ r.stop = FALSE /\ r.trees = << >>
  BY DEF Result, RestOf
<1> HIDE DEF r
<1>3. After(c, r, t) = Result(c, i, FALSE, t)
  BY <1>1, <1>2 DEF After
<1> QED
  BY <1>3 DEF r, RestIsNone

\* post, when what is below the node is complete.
PostGoesOn(g, a, i, ns, anc, c, t, sub) ==
  LET path == Append(anc, Head(ns))
      post == << <<"post", path>> >>
      way == Join(WayOf("up", anc, path), DownOf(Tail(ns), anc))
  IN  Closing(g, a, Result(c, i, FALSE, sub), ns, anc, t)
        = After(Join(Join(c, post), way), RestOf(g, a, i, Tail(ns), anc), Join(t, << <<Head(ns), sub>> >>))

\* The traversal goes on so.
LEMMA ClosingPost ==
  ASSUME NEW g, IsGraph(g), NEW a \in Seq(Step), NEW i \in 1 .. Len(a) + 2,
         NEW ns \in Seq(DOMAIN g.forward), NEW anc \in Seq(DOMAIN g.forward), ns # << >>,
         NEW c, Sequence(c), NEW t, Sequence(t), NEW sub
  PROVE  PostGoesOn(g, a, i, ns, anc, c, t, sub)
<1> DEFINE path == Append(anc, Head(ns))
           post == << <<"post", path>> >>
           up == WayOf("up", anc, path)
           down == DownOf(Tail(ns), anc)
           tree == << <<Head(ns), sub>> >>
           r == Result(c, i, FALSE, sub)
           other == VisitOf(g, a, i, Tail(ns), anc)
           rest == RestOf(g, a, i, Tail(ns), anc)
<1>1. r.calls = c /\ r.left = i /\ r.stop = FALSE /\ r.trees = sub
  BY DEF Result
<1>2. Tail(ns) \in Seq(DOMAIN g.forward)
  BY HeadTail
<1>3. other = After(down, rest, << >>) /\ IsResult(rest, i, Len(a))
  BY <1>2, VisitOfRest
<1>4. Closing(g, a, r, ns, anc, t)
        = Result(Join(c, Join(post, Join(up, other.calls))), other.left, other.stop, Join(t, Join(tree, other.trees)))
  <2>1. OtherOf(Visit(g, a), r, ns, anc) = other
    <3> HIDE DEF r
    <3> QED
      BY <1>1 DEF OtherOf, VisitOf
  <2> HIDE DEF r, other
  <2> QED
    BY <1>1, <2>1 DEF Closing
<1>5. Sequence(post) /\ Sequence(up) /\ Sequence(down) /\ Sequence(tree)
  BY ShortSequences, WaySequence, DownSequence
<1> HIDE DEF post, up, down, tree, r, other, rest
<1>6. Sequence(rest.calls) /\ Sequence(rest.trees)
  BY <1>3 DEF IsResult
<1>7. /\ other.calls = Join(down, rest.calls) /\ other.left = rest.left /\ other.stop = rest.stop
      /\ other.trees = rest.trees
  <2>1. Join(<< >>, rest.trees) = rest.trees
    BY <1>6, Concatenation
  <2> QED
    BY <1>3, <2>1, AfterFields
<1>8. Join(c, Join(post, Join(up, Join(down, rest.calls)))) = Join(Join(Join(c, post), Join(up, down)), rest.calls)
  <2> DEFINE ud == Join(up, down)
             cp == Join(c, post)
             w == Join(ud, rest.calls)
  <2>1. Sequence(ud) /\ Sequence(cp)
    BY <1>5, Concatenation
  <2>2. Join(up, Join(down, rest.calls)) = w
    BY <1>5, <1>6, Associative
  <2>3. Sequence(w)
    <3> HIDE DEF ud
    <3> QED
      BY <1>6, <2>1, Concatenation
  <2>4. Join(c, Join(post, w)) = Join(cp, w)
    <3> HIDE DEF w
    <3> QED
      BY <1>5, <2>3, Associative
  <2>5. Join(cp, w) = Join(Join(cp, ud), rest.calls)
    <3> HIDE DEF cp, ud
    <3> QED
      BY <1>6, <2>1, Associative
  <2> QED
    BY <2>2, <2>4, <2>5
<1>9. Join(t, Join(tree, rest.trees)) = Join(Join(t, tree), rest.trees)
  BY <1>5, <1>6, Associative
<1>10. Closing(g, a, r, ns, anc, t) = After(Join(Join(c, post), Join(up, down)), rest, Join(t, tree))
  BY <1>4, <1>7, <1>8, <1>9 DEF After
<1> QED
  BY <1>10 DEF post, up, down, tree, r, rest, PostGoesOn

\* post of a node at which the traversal is unwound.
UnwindGoesOn(g, a, i, ns, anc, c, t, sub) ==
  LET path == Append(anc, Head(ns))
      post == << <<"post", path>> >>
  IN  Closing(g, a, Result(c, i, TRUE, sub), ns, anc, t)
        = Result(Join(Join(c, post), WayOf("up", anc, path)), i, TRUE, Join(t, << <<Head(ns), sub>> >>))

\* The traversal goes on so.
LEMMA ClosingUnwind ==
  ASSUME NEW g, NEW a, NEW i, NEW ns, NEW anc, NEW c, Sequence(c), NEW t, Sequence(t), NEW sub
  PROVE  UnwindGoesOn(g, a, i, ns, anc, c, t, sub)
<1> DEFINE path == Append(anc, Head(ns))
           post == << <<"post", path>> >>
           up == WayOf("up", anc, path)
           tree == << <<Head(ns), sub>> >>
           r == Result(c, i, TRUE, sub)
           other == Result(<< >>, i, TRUE, << >>)
<1>1. r.calls = c /\ r.left = i /\ r.stop = TRUE /\ r.trees = sub
  BY DEF Result
<1>2. other.calls = << >> /\ other.left = i /\ other.stop = TRUE /\ other.trees = << >>
  BY DEF Result
<1>3. OtherOf(Visit(g, a), r, ns, anc) = other
  <2> HIDE DEF r
  <2> QED
    BY <1>1 DEF OtherOf
<1>4. Closing(g, a, r, ns, anc, t)
        = Result(Join(c, Join(post, Join(up, << >>))), i, TRUE, Join(t, Join(tree, << >>)))
  <2> HIDE DEF r, other
  <2> QED
    BY <1>1, <1>2, <1>3 DEF Closing
<1>5. Sequence(post) /\ Sequence(up) /\ Sequence(tree)
  BY ShortSequences, WaySequence
<1> HIDE DEF post, up, tree, r
<1>6. Join(up, << >>) = up /\ Join(tree, << >>) = tree
  BY <1>5, Concatenation
<1>7. Join(c, Join(post, up)) = Join(Join(c, post), up)
  BY <1>5, Associative
<1>8. Closing(g, a, r, ns, anc, t) = Result(Join(Join(c, post), up), i, TRUE, Join(t, tree))
  BY <1>4, <1>6, <1>7
<1> QED
  BY <1>8 DEF post, up, tree, r, UnwindGoesOn

-----------------------------------------------------------------------------
(***************************************************************************)
(* The levels of the stack                                                 *)
(***************************************************************************)

\* The first nodes of the first k levels.
Heads(s, k) == [j \in 1 .. k |-> Head(s[j])]

\* The result of the whole traversal is base, closed by the levels m to 1 of the stack.
Tower(g, a, s, b, m, base) ==
  \E out : /\ out[m + 1] = base
           /\ \A k \in 1 .. m : out[k] = Closing(g, a, out[k + 1], s[k], Heads(s, k - 1), b[k])
           /\ out[1] = VisitOf(g, a, 1, g.roots, << >>)

\* One more level.
LEMMA HeadsMore ==
  ASSUME NEW N, NEW s, NEW k \in Nat, \A j \in 1 .. k + 1 : s[j] \in Seq(N) /\ s[j] # << >>
  PROVE  /\ Heads(s, k) \in Seq(N) /\ Heads(s, k + 1) \in Seq(N)
         /\ Heads(s, k + 1) = Append(Heads(s, k), Head(s[k + 1]))
<1>1. \A j \in 1 .. k + 1 : Head(s[j]) \in N
  BY HeadTail
<1>2. Heads(s, k) \in Seq(N) /\ Heads(s, k + 1) \in Seq(N) /\ Len(Heads(s, k)) = k
  <2> DEFINE h(j) == Head(s[j])
  <2>1. ASSUME NEW n \in {k, k + 1} PROVE [j \in 1 .. n |-> h(j)] \in Seq(N) /\ Len([j \in 1 .. n |-> h(j)]) = n
    <3>1. \A j \in 1 .. n : h(j) \in N
      BY <1>1
    <3> HIDE DEF h
    <3> QED
      BY <3>1
  <2> QED
    BY <2>1 DEF Heads
<1>3. Head(s[k + 1]) \in N
  BY <1>1
<1> DEFINE h == Heads(s, k)
           x == Head(s[k + 1])
<1>4. Append(h, x) \in Seq(N) /\ Len(Append(h, x)) = k + 1 /\ Append(h, x)[k + 1] = x
      /\ \A j \in 1 .. k : Append(h, x)[j] = h[j]
  <2> HIDE DEF h, x
  <2> QED
    BY <1>2, <1>3, AppendProperties DEF h, x
<1>5. \A j \in 1 .. k : h[j] = Head(s[j])
  BY DEF Heads
<1>6. \A j \in 1 .. k + 1 : Append(h, x)[j] = Head(s[j])
  <2> TAKE j \in 1 .. k + 1
  <2>1. j \in 1 .. k \/ j = k + 1
    OBVIOUS
  <2> HIDE DEF h
  <2> QED
    BY <1>4, <1>5, <2>1
<1>7. Append(h, x) = [j \in 1 .. k + 1 |-> Append(h, x)[j]]
  <2> DEFINE z == Append(h, x)
  <2> HIDE DEF z
  <2>1. z \in Seq(N) /\ Len(z) = k + 1
    BY <1>4 DEF z
  <2>2. z = [j \in 1 .. k + 1 |-> z[j]]
    BY <2>1
  <2> QED
    BY <2>2 DEF z
<1>8. Heads(s, k + 1) = Append(h, x)
  <2> DEFINE z == Append(h, x)
  <2> HIDE DEF z
  <2> QED
    BY <1>6, <1>7 DEF Heads, z
<1> QED
  BY <1>2, <1>8

\* Stacks that agree have the same first nodes.
LEMMA HeadsSame ==
  ASSUME NEW s, NEW s2, NEW k \in Int, \A j \in 1 .. k : s2[j] = s[j]
  PROVE  Heads(s2, k) = Heads(s, k)
BY DEF Heads

\* A level is opened.
LEMMA TowerPush ==
  ASSUME NEW g, NEW a, NEW s, NEW b, NEW m \in Nat, NEW base, Tower(g, a, s, b, m, base),
         NEW base2, base = Closing(g, a, base2, s[m + 1], Heads(s, m), b[m + 1]),
         NEW s2, NEW b2, \A k \in 1 .. m + 1 : s2[k] = s[k] /\ b2[k] = b[k]
  PROVE  Tower(g, a, s2, b2, m + 1, base2)
<1>1. PICK out : /\ out[m + 1] = base
                 /\ \A k \in 1 .. m : out[k] = Closing(g, a, out[k + 1], s[k], Heads(s, k - 1), b[k])
                 /\ out[1] = VisitOf(g, a, 1, g.roots, << >>)
  BY DEF Tower
<1> DEFINE val(k) == IF k = m + 2 THEN base2 ELSE out[k]
           out2 == [k \in 1 .. m + 2 |-> val(k)]
<1>2. out2[m + 2] = base2 /\ \A k \in 1 .. m + 1 : out2[k] = out[k]
  OBVIOUS
<1> HIDE DEF out2
<1>3. ASSUME NEW k \in 1 .. m + 1
      PROVE  out2[k] = Closing(g, a, out2[k + 1], s2[k], Heads(s2, k - 1), b2[k])
  <2>1. Heads(s2, k - 1) = Heads(s, k - 1)
    <3>1. k - 1 \in Int /\ \A j \in 1 .. k - 1 : s2[j] = s[j]
      OBVIOUS
    <3> QED
      BY <3>1, HeadsSame
  <2>2. CASE k = m + 1
    <3>1. k + 1 = m + 2 /\ k - 1 = m /\ k = m + 1
      BY <2>2
    <3> QED
      BY <1>1, <1>2, <2>1, <3>1
  <2>3. CASE k # m + 1
    <3>1. k \in 1 .. m /\ k + 1 \in 1 .. m + 1
      BY <2>3
    <3> QED
      BY <1>1, <1>2, <2>1, <3>1
  <2> QED
    BY <2>2, <2>3
<1>4. out2[1] = out[1] /\ m + 1 + 1 = m + 2
  BY <1>2
<1>5. out2[m + 1 + 1] = base2 /\ out2[1] = VisitOf(g, a, 1, g.roots, << >>)
  BY <1>1, <1>2, <1>4
<1> QED
  BY <1>3, <1>5 DEF Tower

\* A level is closed.
LEMMA TowerPop ==
  ASSUME NEW g, NEW a, NEW s, NEW b, NEW m \in Nat, m > 0, NEW base, Tower(g, a, s, b, m, base),
         NEW s2, NEW b2, \A k \in 1 .. m - 1 : s2[k] = s[k] /\ b2[k] = b[k]
  PROVE  Tower(g, a, s2, b2, m - 1, Closing(g, a, base, s[m], Heads(s, m - 1), b[m]))
<1>1. PICK out : /\ out[m + 1] = base
                 /\ \A k \in 1 .. m : out[k] = Closing(g, a, out[k + 1], s[k], Heads(s, k - 1), b[k])
                 /\ out[1] = VisitOf(g, a, 1, g.roots, << >>)
  BY DEF Tower
<1>2. out[m - 1 + 1] = Closing(g, a, base, s[m], Heads(s, m - 1), b[m])
  <2>1. m - 1 + 1 = m /\ m \in 1 .. m
    OBVIOUS
  <2> QED
    BY <1>1, <2>1
<1>3. ASSUME NEW k \in 1 .. m - 1
      PROVE  out[k] = Closing(g, a, out[k + 1], s2[k], Heads(s2, k - 1), b2[k])
  <2>1. Heads(s2, k - 1) = Heads(s, k - 1)
    <3>1. k - 1 \in Int /\ \A j \in 1 .. k - 1 : s2[j] = s[j]
      OBVIOUS
    <3> QED
      BY <3>1, HeadsSame
  <2>2. k \in 1 .. m
    OBVIOUS
  <2> QED
    BY <1>1, <2>1, <2>2
<1> QED
  BY <1>1, <1>2, <1>3 DEF Tower

\* All levels are closed.
LEMMA TowerGround ==
  ASSUME NEW g, NEW a, NEW s, NEW b, NEW base, Tower(g, a, s, b, 0, base)
  PROVE  VisitOf(g, a, 1, g.roots, << >>) = base
<1>1. 0 + 1 = 1
  OBVIOUS
<1> QED
  BY <1>1 DEF Tower

-----------------------------------------------------------------------------
(***************************************************************************)
(* The invariant of the traversal: whatever is answered next, the calls    *)
(* made and the trees built, continued by the recursion, are the whole     *)
(* traversal by recursion.                                                 *)
(***************************************************************************)

\* The answers a begin with those given.
Upto(st, a) == Len(st) <= Len(a) /\ \A j \in 1 .. Len(st) : a[j] = st[j]

Shape(g, s, c, st, b) ==
  /\ IsGraph(g)
  /\ s \in Seq(Seq(DOMAIN g.forward)) /\ Len(s) > 0
  /\ \A k \in 1 .. Len(s) - 1 : s[k] # << >>
  /\ Sequence(c) /\ st \in Seq(Step)
  /\ Sequence(b) /\ \A k \in 1 .. Len(b) : Sequence(b[k])

Searching(g, s, c, st, b) ==
  /\ Len(b) = Len(s)
  /\ \A a \in Seq(Step) : Upto(st, a) =>
       Tower(g, a, s, b, Len(s) - 1,
             After(c, RestOf(g, a, Len(st) + 1, s[Len(s)], Heads(s, Len(s) - 1)), b[Len(s)]))

Unwinding(g, s, c, st, b) ==
  /\ Len(b) = Len(s) + 1 /\ s[Len(s)] # << >>
  /\ \A a \in Seq(Step) : Upto(st, a) =>
       Tower(g, a, s, b, Len(s), Result(c, Len(st) + 1, TRUE, b[Len(s) + 1]))

Ended(g, c, st, b, stop) ==
  /\ Len(b) = 1
  /\ \A a \in Seq(Step) : Upto(st, a) =>
       VisitOf(g, a, 1, g.roots, << >>) = Result(c, Len(st) + 1, stop, b[1])

\* The node found was the last of those a call of pre was made with.
FoundIn(f, c) ==
  \E n : f = <<n>> /\ \E i \in 1 .. Len(c) : c[i][1] = "pre" /\ Last(c[i][2]) = n

TraversalInv ==
  /\ Shape(graph, stack, calls, steps, built)
  /\ phase \in {"search", "unwind", "done"}
  /\ phase = "search" => Searching(graph, stack, calls, steps, built) /\ found = << >>
  /\ phase = "unwind" => Unwinding(graph, stack, calls, steps, built) /\ FoundIn(found, calls)
  /\ phase = "done" => /\ Ended(graph, calls, steps, built, found # << >>)
                       /\ found = << >> \/ FoundIn(found, calls)

\* An index is the last one or before it.
LEMMA LastIndex ==
  ASSUME NEW n \in Nat, NEW k \in 1 .. n
  PROVE  k \in 1 .. n - 1 \/ k = n
OBVIOUS

\* The stack with the top level not empty has a path.
LEMMA PathFacts ==
  ASSUME NEW g, NEW s \in Seq(Seq(DOMAIN g.forward)), Len(s) > 0, NEW m \in 0 .. Len(s),
         \A k \in 1 .. m : s[k] # << >>
  PROVE  /\ Heads(s, m) \in Seq(DOMAIN g.forward)
         /\ m > 0 => /\ Heads(s, m - 1) \in Seq(DOMAIN g.forward)
                     /\ Heads(s, m) = Append(Heads(s, m - 1), Head(s[m]))
                     /\ Heads(s, m) # << >>
<1>1. \A k \in 1 .. m : s[k] \in Seq(DOMAIN g.forward)
  BY ElementOfSeq
<1>2. CASE m = 0
  <2>1. Heads(s, 0) = << >>
    BY DEF Heads
  <2>2. ~(m > 0)
    BY <1>2
  <2>3. Heads(s, 0) \in Seq(DOMAIN g.forward)
    BY <2>1, EmptySeq
  <2> QED
    BY <1>2, <2>2, <2>3
<1>3. CASE m # 0
  <2> DEFINE k == m - 1
  <2>1. k \in Nat /\ k + 1 = m
    BY <1>3
  <2> HIDE DEF k
  <2>2. \A j \in 1 .. k + 1 : s[j] \in Seq(DOMAIN g.forward) /\ s[j] # << >>
    BY <1>1, <2>1
  <2>3. /\ Heads(s, k) \in Seq(DOMAIN g.forward) /\ Heads(s, k + 1) \in Seq(DOMAIN g.forward)
        /\ Heads(s, k + 1) = Append(Heads(s, k), Head(s[k + 1]))
    BY <2>1, <2>2, HeadsMore
  <2>4. Heads(s, m) # << >>
    <3>1. 1 \in DOMAIN Heads(s, m)
      BY <1>3 DEF Heads
    <3> QED
      BY <3>1
  <2> QED
    BY <2>1, <2>3, <2>4 DEF k
<1> QED
  BY <1>2, <1>3

\* Answers that begin with one more.
LEMMA UptoMore ==
  ASSUME NEW st \in Seq(Step), NEW x \in Step, NEW a \in Seq(Step), Upto(Append(st, x), a)
  PROVE  /\ Upto(st, a) /\ Len(st) + 1 \in 1 .. Len(a) /\ a[Len(st) + 1] = x
         /\ Append(st, x) \in Seq(Step) /\ Len(Append(st, x)) = Len(st) + 1
<1> DEFINE w == Append(st, x)
<1>1. /\ w \in Seq(Step) /\ Len(w) = Len(st) + 1 /\ w[Len(st) + 1] = x /\ Len(st) \in Nat /\ Len(a) \in Nat
      /\ \A j \in 1 .. Len(st) : w[j] = st[j]
  BY AppendProperties, LenProperties
<1> HIDE DEF w
<1>2. Len(w) <= Len(a) /\ \A j \in 1 .. Len(w) : a[j] = w[j]
  BY DEF Upto, w
<1>3. Upto(st, a)
  BY <1>1, <1>2 DEF Upto
<1> QED
  BY <1>1, <1>2, <1>3 DEF w

\* The stack above which a call of pre is made, and the result it stands for.
LEMMA PreTower ==
  ASSUME NEW g, NEW s, NEW c, NEW st, NEW b, Shape(g, s, c, st, b), Searching(g, s, c, st, b),
         s[Len(s)] # << >>, NEW answer \in Step,
         NEW a \in Seq(Step), Upto(Append(st, answer), a)
  PROVE  LET i == Len(st) + 1
             anc == Heads(s, Len(s) - 1)
             below == BelowOf(g, Visit(g, a), a, i, s[Len(s)], anc)
         IN  \A s2, b2 : (\A k \in 1 .. Len(s) : s2[k] = s[k] /\ b2[k] = b[k]) =>
               Tower(g, a, s2, b2, Len(s), After(Join(c, << <<"pre", Heads(s, Len(s))>> >>), below, << >>))
<1> DEFINE i == Len(st) + 1
           m == Len(s) - 1
           ns == s[Len(s)]
           anc == Heads(s, m)
           below == BelowOf(g, Visit(g, a), a, i, ns, anc)
           pre == << <<"pre", Heads(s, Len(s))>> >>
           base2 == After(Join(c, pre), below, << >>)
<1>1. /\ IsGraph(g) /\ s \in Seq(Seq(DOMAIN g.forward)) /\ Len(s) > 0 /\ st \in Seq(Step) /\ Sequence(c)
      /\ Len(b) = Len(s) /\ \A k \in 1 .. Len(b) : Sequence(b[k])
  BY DEF Shape, Searching
<1>2. /\ m \in Nat /\ m + 1 = Len(s) /\ Len(s) \in 1 .. Len(s) /\ Len(s) \in 0 .. Len(s)
      /\ Len(s) \in Nat
  BY <1>1, LenProperties
<1>3. ns \in Seq(DOMAIN g.forward) /\ ns # << >> /\ Sequence(b[Len(s)])
  BY <1>1, <1>2, ElementOfSeq
<1>4. anc \in Seq(DOMAIN g.forward) /\ Heads(s, Len(s)) = Append(anc, Head(ns))
  <2>1. ASSUME NEW k \in 1 .. Len(s) PROVE s[k] # << >>
    <3>1. k \in 1 .. Len(s) - 1 \/ k = Len(s)
      BY <1>2, LastIndex, Zenon
    <3> QED
      BY <3>1 DEF Shape
  <2> QED
    BY <1>1, <1>2, <2>1, PathFacts
<1>5. Upto(st, a) /\ i \in 1 .. Len(a)
  BY <1>1, UptoMore
<1>6. Tower(g, a, s, b, m, After(c, RestOf(g, a, i, ns, anc), b[Len(s)]))
  BY <1>5 DEF Searching
<1>7. After(c, RestOf(g, a, i, ns, anc), b[Len(s)]) = Closing(g, a, base2, ns, anc, b[Len(s)])
  <2> HIDE DEF i, anc, ns, m
  <2>1. After(c, RestOf(g, a, i, ns, anc), b[Len(s)])
          = Closing(g, a, After(Join(c, << <<"pre", Append(anc, Head(ns))>> >>), below, << >>), ns, anc, b[Len(s)])
    <3> DEFINE t == b[Len(s)]
    <3>1. IsGraph(g) /\ Sequence(c) /\ Sequence(t)
      BY <1>1, <1>3
    <3>2. ns \in Seq(DOMAIN g.forward) /\ ns # << >> /\ anc \in Seq(DOMAIN g.forward) /\ i \in 1 .. Len(a)
      BY <1>3, <1>4, <1>5
    <3>3. PreSplits(g, a, i, ns, anc, c, t)
      <4> HIDE DEF t
      <4> QED
        BY <3>1, <3>2, PreBelow
    <3> QED
      BY <3>3 DEF PreSplits
  <2> QED
    BY <1>4, <2>1
<1>8. ASSUME NEW s2, NEW b2, \A k \in 1 .. Len(s) : s2[k] = s[k] /\ b2[k] = b[k]
      PROVE  Tower(g, a, s2, b2, m + 1, base2)
  <2>1. \A k \in 1 .. m + 1 : s2[k] = s[k] /\ b2[k] = b[k]
    BY <1>2, <1>8
  <2> DEFINE base == After(c, RestOf(g, a, i, ns, anc), b[Len(s)])
  <2>2. Tower(g, a, s, b, m, base) /\ base = Closing(g, a, base2, s[m + 1], Heads(s, m), b[m + 1])
    <3> HIDE DEF base2, m
    <3> QED
      BY <1>2, <1>6, <1>7
  <2>3. m \in Nat
    BY <1>2
  <2> HIDE DEF base2, base, m
  <2> QED
    BY <2>1, <2>2, <2>3, TowerPush
<1> QED
  BY <1>2, <1>8

\* A level pushed on a stack.
Pushed(g, s, l, c2, st, answer, b) ==
  /\ Shape(g, Append(s, l), c2, Append(st, answer), Append(b, << >>))
  /\ Len(Append(s, l)) = Len(s) + 1 /\ Append(s, l)[Len(s) + 1] = l
  /\ \A k \in 1 .. Len(s) : Append(s, l)[k] = s[k]
  /\ Len(Append(b, << >>)) = Len(b) + 1 /\ Append(b, << >>)[Len(b) + 1] = << >>
  /\ \A k \in 1 .. Len(b) : Append(b, << >>)[k] = b[k]
  /\ Len(Append(st, answer)) = Len(st) + 1

\* It is a stack again.
LEMMA ShapePushed ==
  ASSUME NEW g, NEW s, NEW c, NEW st, NEW b, Shape(g, s, c, st, b), s[Len(s)] # << >>,
         NEW l \in Seq(DOMAIN g.forward), NEW c2, Sequence(c2), NEW answer \in Step
  PROVE  Pushed(g, s, l, c2, st, answer, b)
<1> DEFINE s2 == Append(s, l)
           b2 == Append(b, << >>)
           st2 == Append(st, answer)
<1>1. /\ IsGraph(g) /\ s \in Seq(Seq(DOMAIN g.forward)) /\ Len(s) > 0 /\ st \in Seq(Step)
      /\ Sequence(b) /\ (\A k \in 1 .. Len(b) : Sequence(b[k]))
      /\ (\A k \in 1 .. Len(s) - 1 : s[k] # << >>)
  BY DEF Shape
<1>2. /\ s2 \in Seq(Seq(DOMAIN g.forward)) /\ Len(s2) = Len(s) + 1 /\ s2[Len(s) + 1] = l
      /\ Len(s) \in Nat /\ \A k \in 1 .. Len(s) : s2[k] = s[k]
  BY <1>1, AppendProperties, LenProperties
<1>3. st2 \in Seq(Step) /\ Len(st2) = Len(st) + 1
  BY <1>1, AppendProperties
<1>4. /\ Sequence(b2) /\ Len(b2) = Len(b) + 1 /\ b2[Len(b) + 1] = << >>
      /\ \A k \in 1 .. Len(b) : b2[k] = b[k]
  BY <1>1, Appended
<1>5. Len(b) \in Nat
  BY <1>1, Concatenation
<1> HIDE DEF s2, b2, st2
<1>6. \A k \in 1 .. Len(b2) : Sequence(b2[k])
  <2> TAKE k \in 1 .. Len(b2)
  <2>1. k \in 1 .. Len(b) \/ k = Len(b) + 1
    BY <1>4, <1>5
  <2> QED
    BY <1>1, <1>4, <2>1, ShortSequences
<1>7. \A k \in 1 .. Len(s2) - 1 : s2[k] # << >>
  <2> TAKE k \in 1 .. Len(s2) - 1
  <2>1. k \in 1 .. Len(s) /\ (k \in 1 .. Len(s) - 1 \/ k = Len(s))
    BY <1>2
  <2> QED
    BY <1>1, <1>2, <2>1
<1>8. Shape(g, s2, c2, st2, b2)
  <2>1. Len(s2) > 0
    BY <1>2
  <2> QED
    BY <1>1, <1>2, <1>3, <1>4, <1>6, <1>7, <2>1 DEF Shape
<1> QED
  BY <1>2, <1>3, <1>4, <1>8 DEF s2, b2, st2, Pushed

\* The path to the current node of a stack.
LEMMA PathToTop ==
  ASSUME NEW g, NEW s, NEW c, NEW st, NEW b, Shape(g, s, c, st, b), s[Len(s)] # << >>
  PROVE  /\ Len(s) \in Nat /\ Len(s) \in 1 .. Len(s)
         /\ s[Len(s)] \in Seq(DOMAIN g.forward)
         /\ Heads(s, Len(s) - 1) \in Seq(DOMAIN g.forward) /\ Heads(s, Len(s)) \in Seq(DOMAIN g.forward)
         /\ Heads(s, Len(s)) = Append(Heads(s, Len(s) - 1), Head(s[Len(s)]))
         /\ Heads(s, Len(s)) # << >>
<1>1. s \in Seq(Seq(DOMAIN g.forward)) /\ Len(s) > 0 /\ \A k \in 1 .. Len(s) - 1 : s[k] # << >>
  BY DEF Shape
<1>2. Len(s) \in Nat /\ Len(s) \in 1 .. Len(s) /\ Len(s) \in 0 .. Len(s)
  BY <1>1, LenProperties
<1>3. \A k \in 1 .. Len(s) : s[k] # << >>
  <2> TAKE k \in 1 .. Len(s)
  <2>1. k \in 1 .. Len(s) - 1 \/ k = Len(s)
    BY <1>2, LastIndex
  <2> QED
    BY <1>1, <2>1
<1>4. s[Len(s)] \in Seq(DOMAIN g.forward)
  BY <1>1, <1>2, ElementOfSeq, SMTT(60)
<1> QED
  BY <1>1, <1>2, <1>3, <1>4, PathFacts

\* pre answers to go into the node.
LEMMA SearchInto ==
  ASSUME NEW g, NEW s, NEW c, NEW st, NEW b, Shape(g, s, c, st, b), Searching(g, s, c, st, b),
         s[Len(s)] # << >>
  PROVE  LET kids == g.forward[Head(s[Len(s)])]
             path == Heads(s, Len(s))
             c2 == Join(Join(c, << <<"pre", path>> >>), DownOf(kids, path))
         IN  /\ Shape(g, Append(s, kids), c2, Append(st, "into"), Append(b, << >>))
             /\ Searching(g, Append(s, kids), c2, Append(st, "into"), Append(b, << >>))
<1> DEFINE ns == s[Len(s)]
           anc == Heads(s, Len(s) - 1)
           kids == g.forward[Head(ns)]
           path == Heads(s, Len(s))
           cp == Join(c, << <<"pre", path>> >>)
           c2 == Join(cp, DownOf(kids, path))
           s2 == Append(s, kids)
           b2 == Append(b, << >>)
           st2 == Append(st, "into")
           i == Len(st) + 1
<1>1. /\ Len(s) \in Nat /\ ns \in Seq(DOMAIN g.forward) /\ anc \in Seq(DOMAIN g.forward)
      /\ path \in Seq(DOMAIN g.forward) /\ path = Append(anc, Head(ns))
  BY PathToTop
<1>2. IsGraph(g) /\ Sequence(c) /\ st \in Seq(Step) /\ Len(b) = Len(s) /\ ns # << >> /\ Len(st) \in Nat
  BY LenProperties DEF Shape, Searching
<1>3. kids \in Seq(DOMAIN g.forward)
  <2>1. Head(ns) \in DOMAIN g.forward
    BY <1>1, <1>2, HeadTail
  <2> QED
    BY <1>2, <2>1 DEF IsGraph
<1>4. Sequence(cp)
  BY <1>2, ShortSequences, Concatenation
<1>5. Sequence(c2)
  <2> HIDE DEF cp
  <2> QED
    BY <1>4, DownSequence, Concatenation
<1>6. "into" \in Step
  BY DEF Step
<1>7. /\ Shape(g, s2, c2, st2, b2)
      /\ Len(s2) = Len(s) + 1 /\ s2[Len(s) + 1] = kids /\ (\A k \in 1 .. Len(s) : s2[k] = s[k])
      /\ Len(b2) = Len(b) + 1 /\ b2[Len(b) + 1] = << >> /\ (\A k \in 1 .. Len(b) : b2[k] = b[k])
      /\ Len(st2) = Len(st) + 1
  <2>1. Pushed(g, s, kids, c2, st, "into", b)
    <3> HIDE DEF c2, kids
    <3> QED
      BY <1>3, <1>5, <1>6, ShapePushed DEF ns
  <2> HIDE DEF c2, kids
  <2> QED
    BY <2>1 DEF Pushed
<1>8. ASSUME NEW a \in Seq(Step), Upto(st2, a)
      PROVE  Tower(g, a, s2, b2, Len(s2) - 1,
                   After(c2, RestOf(g, a, Len(st2) + 1, s2[Len(s2)], Heads(s2, Len(s2) - 1)), b2[Len(s2)]))
  <2>1. \A k \in 1 .. Len(s) : s2[k] = s[k] /\ b2[k] = b[k]
    BY <1>2, <1>7
  <2> DEFINE below == BelowOf(g, Visit(g, a), a, i, ns, anc)
  <2>2. Tower(g, a, s2, b2, Len(s), After(cp, below, << >>))
    <3> HIDE DEF s2, b2
    <3> QED
      BY <1>6, <1>8, <2>1, PreTower
  <2>3. i \in 1 .. Len(a) /\ a[i] = "into"
    BY <1>2, <1>6, <1>8, UptoMore
  <2>4. IntoGoesOn(g, a, i, ns, anc, cp)
    <3> HIDE DEF cp, i, ns, anc
    <3> QED
      BY <1>1, <1>2, <1>4, <2>3, BelowInto
  <2>5. After(cp, below, << >>) = After(c2, RestOf(g, a, i + 1, kids, path), << >>)
    <3> HIDE DEF cp, i, path
    <3> QED
      BY <1>1, <2>4 DEF IntoGoesOn
  <2>6. Heads(s2, Len(s)) = path
    <3>1. Len(s) \in Int /\ \A k \in 1 .. Len(s) : s2[k] = s[k]
      BY <1>1, <2>1
    <3> HIDE DEF s2
    <3> QED
      BY <3>1, HeadsSame
  <2>7. /\ Len(s2) - 1 = Len(s) /\ Len(st2) + 1 = i + 1 /\ s2[Len(s2)] = kids /\ b2[Len(s2)] = << >>
    <3> HIDE DEF s2, b2, st2, kids
    <3> QED
      BY <1>1, <1>2, <1>7
  <2> HIDE DEF s2, b2, st2, kids, path, c2, cp, below, i
  <2> QED
    BY <2>2, <2>5, <2>6, <2>7
<1>9. Len(b2) = Len(s2)
  BY <1>2, <1>7
<1> QED
  BY <1>7, <1>8, <1>9 DEF Searching

\* pre answers to go over the node.
LEMMA SearchOver ==
  ASSUME NEW g, NEW s, NEW c, NEW st, NEW b, Shape(g, s, c, st, b), Searching(g, s, c, st, b),
         s[Len(s)] # << >>
  PROVE  LET c2 == Join(c, << <<"pre", Heads(s, Len(s))>> >>)
         IN  /\ Shape(g, Append(s, << >>), c2, Append(st, "over"), Append(b, << >>))
             /\ Searching(g, Append(s, << >>), c2, Append(st, "over"), Append(b, << >>))
<1> DEFINE ns == s[Len(s)]
           anc == Heads(s, Len(s) - 1)
           c2 == Join(c, << <<"pre", Heads(s, Len(s))>> >>)
           s2 == Append(s, << >>)
           b2 == Append(b, << >>)
           st2 == Append(st, "over")
           i == Len(st) + 1
<1>2. Len(s) \in Nat /\ Sequence(c) /\ st \in Seq(Step) /\ Len(b) = Len(s) /\ Len(st) \in Nat
  BY LenProperties DEF Shape, Searching
<1>3. << >> \in Seq(DOMAIN g.forward)
  BY EmptySeq
<1>4. Sequence(c2)
  BY <1>2, ShortSequences, Concatenation
<1>6. "over" \in Step
  BY DEF Step
<1>7. /\ Shape(g, s2, c2, st2, b2)
      /\ Len(s2) = Len(s) + 1 /\ s2[Len(s) + 1] = << >> /\ (\A k \in 1 .. Len(s) : s2[k] = s[k])
      /\ Len(b2) = Len(b) + 1 /\ b2[Len(b) + 1] = << >> /\ (\A k \in 1 .. Len(b) : b2[k] = b[k])
      /\ Len(st2) = Len(st) + 1
  <2> DEFINE none == << >>
  <2>0. none \in Seq(DOMAIN g.forward)
    BY <1>3
  <2>1. Pushed(g, s, none, c2, st, "over", b)
    <3> HIDE DEF c2, none
    <3> QED
      BY <2>0, <1>4, <1>6, ShapePushed
  <2> HIDE DEF c2
  <2> QED
    BY <2>1 DEF Pushed
<1>8. ASSUME NEW a \in Seq(Step), Upto(st2, a)
      PROVE  Tower(g, a, s2, b2, Len(s2) - 1,
                   After(c2, RestOf(g, a, Len(st2) + 1, s2[Len(s2)], Heads(s2, Len(s2) - 1)), b2[Len(s2)]))
  <2>1. \A k \in 1 .. Len(s) : s2[k] = s[k] /\ b2[k] = b[k]
    BY <1>2, <1>7
  <2> DEFINE below == BelowOf(g, Visit(g, a), a, i, ns, anc)
             rest == RestOf(g, a, i + 1, << >>, Heads(s2, Len(s2) - 1))
  <2>2. Tower(g, a, s2, b2, Len(s), After(c2, below, << >>))
    <3> HIDE DEF s2, b2
    <3> QED
      BY <1>6, <1>8, <2>1, PreTower
  <2>3. a[i] = "over"
    BY <1>2, <1>6, <1>8, UptoMore
  <2>4. After(c2, below, << >>) = Result(c2, i + 1, FALSE, << >>)
    <3> HIDE DEF c2
    <3>1. After(c2, below, << >>) = Result(c2, i + 1, a[i] = "out", << >>)
      BY <1>4, <2>3, BelowNone
    <3>2. (a[i] = "out") = FALSE
      BY <2>3
    <3> QED
      BY <3>1, <3>2
  <2>5. After(c2, rest, << >>) = Result(c2, i + 1, FALSE, << >>)
    <3> DEFINE anc2 == Heads(s2, Len(s2) - 1)
               j == i + 1
    <3>1. RestIsNone(g, a, j, anc2, c2, << >>)
      <4> HIDE DEF c2, anc2, j
      <4> QED
        BY <1>4, ShortSequences, RestNone
    <3> QED
      BY <3>1 DEF RestIsNone
  <2>7. /\ Len(s2) - 1 = Len(s) /\ Len(st2) + 1 = i + 1 /\ s2[Len(s2)] = << >> /\ b2[Len(s2)] = << >>
    <3> HIDE DEF s2, b2, st2
    <3> QED
      BY <1>2, <1>7
  <2>8. RestOf(g, a, Len(st2) + 1, s2[Len(s2)], Heads(s2, Len(s2) - 1)) = rest
    <3> HIDE DEF s2, st2, i
    <3> QED
      BY <2>7
  <2> HIDE DEF s2, b2, st2, c2, below, i, rest
  <2> QED
    BY <2>2, <2>4, <2>5, <2>7, <2>8
<1>9. Len(b2) = Len(s2)
  BY <1>2, <1>7
<1> QED
  BY <1>7, <1>8, <1>9 DEF Searching

\* pre answers to stop.
LEMMA SearchOut ==
  ASSUME NEW g, NEW s, NEW c, NEW st, NEW b, Shape(g, s, c, st, b), Searching(g, s, c, st, b),
         s[Len(s)] # << >>
  PROVE  LET c2 == Join(c, << <<"pre", Heads(s, Len(s))>> >>)
         IN  /\ Shape(g, s, c2, Append(st, "out"), Append(b, << >>))
             /\ Unwinding(g, s, c2, Append(st, "out"), Append(b, << >>))
<1> DEFINE ns == s[Len(s)]
           anc == Heads(s, Len(s) - 1)
           c2 == Join(c, << <<"pre", Heads(s, Len(s))>> >>)
           b2 == Append(b, << >>)
           st2 == Append(st, "out")
           i == Len(st) + 1
<1>2. Len(s) \in Nat /\ Sequence(c) /\ st \in Seq(Step) /\ Len(b) = Len(s) /\ Len(st) \in Nat
  BY LenProperties DEF Shape, Searching
<1>3. << >> \in Seq(DOMAIN g.forward)
  BY EmptySeq
<1>4. Sequence(c2)
  BY <1>2, ShortSequences, Concatenation
<1>6. "out" \in Step
  BY DEF Step
<1>7. /\ Shape(g, Append(s, << >>), c2, st2, b2)
      /\ Len(b2) = Len(b) + 1 /\ b2[Len(b) + 1] = << >> /\ (\A k \in 1 .. Len(b) : b2[k] = b[k])
      /\ Len(st2) = Len(st) + 1
  <2> DEFINE none == << >>
  <2>0. none \in Seq(DOMAIN g.forward)
    BY <1>3
  <2>1. Pushed(g, s, none, c2, st, "out", b)
    <3> HIDE DEF c2, none
    <3> QED
      BY <2>0, <1>4, <1>6, ShapePushed
  <2> HIDE DEF c2
  <2> QED
    BY <2>1 DEF Pushed
<1>8. ASSUME NEW a \in Seq(Step), Upto(st2, a)
      PROVE  Tower(g, a, s, b2, Len(s), Result(c2, Len(st2) + 1, TRUE, b2[Len(s) + 1]))
  <2>1. \A k \in 1 .. Len(s) : s[k] = s[k] /\ b2[k] = b[k]
    BY <1>2, <1>7
  <2> DEFINE below == BelowOf(g, Visit(g, a), a, i, ns, anc)
  <2>2. Tower(g, a, s, b2, Len(s), After(c2, below, << >>))
    <3> HIDE DEF b2
    <3> QED
      BY <1>6, <1>8, <2>1, PreTower
  <2>3. a[i] = "out"
    BY <1>2, <1>6, <1>8, UptoMore
  <2>4. After(c2, below, << >>) = Result(c2, i + 1, TRUE, << >>)
    <3> HIDE DEF c2
    <3>1. After(c2, below, << >>) = Result(c2, i + 1, a[i] = "out", << >>)
      BY <1>4, <2>3, BelowNone
    <3>2. (a[i] = "out") = TRUE
      BY <2>3
    <3> QED
      BY <3>1, <3>2
  <2>7. Len(st2) + 1 = i + 1 /\ b2[Len(s) + 1] = << >>
    <3> HIDE DEF b2, st2
    <3> QED
      BY <1>2, <1>7
  <2> HIDE DEF b2, st2, c2, below, i
  <2> QED
    BY <2>2, <2>4, <2>7
<1>9. Len(b2) = Len(s) + 1 /\ s[Len(s)] # << >>
  BY <1>2, <1>7
<1>10. Shape(g, s, c2, st2, b2)
  BY <1>7 DEF Shape
<1> QED
  BY <1>8, <1>9, <1>10 DEF Unwinding

\* The level below the top one takes the tree of its current node: s2 and b2 are the stacks
\* without the top level.
Closed(s, b, m, s2, b2) ==
  /\ \A k \in 1 .. m - 1 : s2[k] = s[k]
  /\ Len(b2) = m /\ \A k \in 1 .. m - 1 : b2[k] = b[k]
  /\ b2[m] = Join(b[m], << <<Head(s[m]), b[m + 1]>> >>)

\* The level below is complete: post.
LEMMA SearchPost ==
  ASSUME NEW g, NEW s, NEW c, NEW st, NEW b, Shape(g, s, c, st, b), Searching(g, s, c, st, b),
         s[Len(s)] = << >>, NEW m \in Nat, m > 0, Len(s) = m + 1,
         NEW s2, NEW b2, Closed(s, b, m, s2, b2), s2 \in Seq(Seq(DOMAIN g.forward)), Len(s2) = m,
         s2[m] = Tail(s[m]),
         Sequence(b2)
  PROVE  LET path == Heads(s, m)
             anc == Heads(s, m - 1)
             c2 == Join(Join(c, << <<"post", path>> >>), Join(WayOf("up", anc, path), DownOf(Tail(s[m]), anc)))
         IN  Shape(g, s2, c2, st, b2) /\ Searching(g, s2, c2, st, b2)
<1> DEFINE ns == s[m]
           anc == Heads(s, m - 1)
           path == Heads(s, m)
           post == << <<"post", path>> >>
           up == WayOf("up", anc, path)
           down == DownOf(Tail(ns), anc)
           c2 == Join(Join(c, post), Join(up, down))
           i == Len(st) + 1
           tree == << <<Head(ns), b[m + 1]>> >>
<1>1. /\ IsGraph(g) /\ s \in Seq(Seq(DOMAIN g.forward)) /\ Sequence(c) /\ st \in Seq(Step)
      /\ Len(b) = m + 1 /\ (\A k \in 1 .. m + 1 : Sequence(b[k])) /\ Len(st) \in Nat
      /\ (\A k \in 1 .. m : s[k] # << >>)
  <2>1. Len(s) - 1 = m
    OBVIOUS
  <2> QED
    BY <2>1, LenProperties DEF Shape, Searching
<1>2. m \in 1 .. m + 1 /\ m + 1 \in 1 .. m + 1 /\ m \in 1 .. Len(s) /\ m \in 0 .. Len(s) /\ Len(s) > 0 /\ m \in 1 .. m
  OBVIOUS
<1>3. ns \in Seq(DOMAIN g.forward) /\ ns # << >> /\ Sequence(b[m]) /\ Sequence(b[m + 1])
  BY <1>1, <1>2, ElementOfSeq
<1>4. anc \in Seq(DOMAIN g.forward) /\ path = Append(anc, Head(ns))
  BY <1>1, <1>2, PathFacts
<1>5. Sequence(Join(c, post)) /\ Sequence(Join(up, down)) /\ Sequence(tree)
  BY <1>1, ShortSequences, WaySequence, DownSequence, Concatenation
<1>6. Sequence(c2)
  <2> DEFINE x == Join(c, post)
             y == Join(up, down)
  <2> HIDE DEF x, y
  <2> QED
    BY <1>5, Concatenation DEF x, y
<1>7. Shape(g, s2, c2, st, b2)
  <2>1. \A k \in 1 .. Len(b2) : Sequence(b2[k])
    <3> TAKE k \in 1 .. Len(b2)
    <3>1. k \in 1 .. m
      BY DEF Closed
    <3>2. CASE k = m
      <4>1. Sequence(Join(b[m], tree))
        <5> HIDE DEF tree
        <5> QED
          BY <1>3, <1>5, Concatenation
      <4> QED
        BY <3>2, <4>1 DEF Closed
    <3>3. CASE k # m
      <4>1. k \in 1 .. m - 1 /\ k \in 1 .. m + 1
        BY <3>1, <3>3
      <4> QED
        BY <1>1, <4>1 DEF Closed
    <3> QED
      BY <3>2, <3>3
  <2>2. Len(s2) > 0 /\ \A k \in 1 .. Len(s2) - 1 : s2[k] # << >>
    <3>1. Len(s2) = m /\ \A k \in 1 .. m - 1 : s2[k] = s[k] /\ k \in 1 .. m
      BY DEF Closed
    <3> QED
      BY <1>1, <3>1
  <2> HIDE DEF c2
  <2> QED
    BY <1>1, <1>6, <2>1, <2>2 DEF Shape
<1>8. ASSUME NEW a \in Seq(Step), Upto(st, a)
      PROVE  Tower(g, a, s2, b2, Len(s2) - 1,
                   After(c2, RestOf(g, a, i, s2[Len(s2)], Heads(s2, Len(s2) - 1)), b2[Len(s2)]))
  <2> DEFINE base == Result(c, i, FALSE, b[m + 1])
             t == b[m]
             sub == b[m + 1]
  <2>1. Tower(g, a, s, b, m, base)
    <3>1. Tower(g, a, s, b, Len(s) - 1, After(c, RestOf(g, a, i, s[Len(s)], Heads(s, Len(s) - 1)), b[Len(s)]))
      BY <1>8 DEF Searching
    <3>2. Len(s) - 1 = m
      OBVIOUS
    <3>3. Tower(g, a, s, b, m, After(c, RestOf(g, a, i, << >>, path), b[m + 1]))
      BY <3>1, <3>2
    <3>4. RestIsNone(g, a, i, path, c, sub)
      <4> HIDE DEF sub, path, i
      <4>1. Sequence(sub) /\ Sequence(c)
        BY <1>1, <1>3 DEF sub
      <4> QED
        BY <4>1, RestNone
    <3> QED
      BY <3>3, <3>4 DEF RestIsNone
  <2>2. Tower(g, a, s2, b2, m - 1, Closing(g, a, base, ns, anc, t))
    <3>1. \A k \in 1 .. m - 1 : s2[k] = s[k] /\ b2[k] = b[k]
      BY DEF Closed
    <3> HIDE DEF base
    <3> QED
      BY <2>1, <3>1, TowerPop
  <2>3. PostGoesOn(g, a, i, ns, anc, c, t, sub)
    <3>1. i \in 1 .. Len(a) + 2
      BY <1>1, <1>8, LenProperties, SMTT(60) DEF Upto
    <3>2. IsGraph(g) /\ Sequence(c) /\ Sequence(t)
      BY <1>1, <1>3
    <3> HIDE DEF t, sub, i, ns, anc
    <3> QED
      BY <1>3, <1>4, <3>1, <3>2, ClosingPost
  <2>4. Closing(g, a, base, ns, anc, t) = After(c2, RestOf(g, a, i, Tail(ns), anc), Join(t, tree))
    <3> HIDE DEF path
    <3> QED
      BY <1>4, <2>3 DEF PostGoesOn
  <2>5. Len(s2) - 1 = m - 1 /\ s2[Len(s2)] = Tail(ns) /\ b2[Len(s2)] = Join(t, tree)
    BY DEF Closed
  <2>6. Heads(s2, Len(s2) - 1) = anc
    <3>1. m - 1 \in Int /\ \A k \in 1 .. m - 1 : s2[k] = s[k]
      BY DEF Closed
    <3>2. Heads(s2, m - 1) = anc
      BY <3>1, HeadsSame
    <3> QED
      BY <2>5, <3>2
  <2> HIDE DEF base, ns, anc, c2, i, t, tree
  <2> QED
    BY <2>2, <2>4, <2>5, <2>6
<1>9. Len(b2) = Len(s2)
  BY DEF Closed
<1> QED
  BY <1>7, <1>8, <1>9 DEF Searching

\* A level is closed while the traversal is unwound.
LEMMA UnwindPost ==
  ASSUME NEW g, NEW s, NEW c, NEW st, NEW b, Shape(g, s, c, st, b), Unwinding(g, s, c, st, b),
         NEW m \in Nat, m > 0, Len(s) = m,
         NEW s2, NEW b2, Closed(s, b, m, s2, b2), Sequence(b2)
  PROVE  LET path == Heads(s, m)
             c2 == Join(Join(c, << <<"post", path>> >>), WayOf("up", Heads(s, m - 1), path))
         IN  /\ Sequence(c2) /\ \A k \in 1 .. Len(b2) : Sequence(b2[k])
             /\ \A a \in Seq(Step) : Upto(st, a) =>
                  Tower(g, a, s2, b2, m - 1, Result(c2, Len(st) + 1, TRUE, b2[m]))
<1> DEFINE ns == s[m]
           anc == Heads(s, m - 1)
           path == Heads(s, m)
           post == << <<"post", path>> >>
           up == WayOf("up", anc, path)
           c2 == Join(Join(c, post), up)
           i == Len(st) + 1
           tree == << <<Head(ns), b[m + 1]>> >>
<1>1. /\ Sequence(c) /\ Len(b) = m + 1 /\ (\A k \in 1 .. m + 1 : Sequence(b[k])) /\ ns # << >>
  BY DEF Shape, Unwinding
<1>2. m \in 1 .. m + 1 /\ m + 1 \in 1 .. m + 1
  OBVIOUS
<1>3. Sequence(b[m]) /\ Sequence(b[m + 1])
  BY <1>1, <1>2
<1>4. path = Append(anc, Head(ns))
  BY <1>1, PathToTop
<1>5. Sequence(Join(c, post)) /\ Sequence(up) /\ Sequence(tree)
  BY <1>1, ShortSequences, WaySequence, Concatenation
<1>6. Sequence(c2)
  <2> DEFINE x == Join(c, post)
  <2> HIDE DEF x, up
  <2> QED
    BY <1>5, Concatenation DEF x
<1>7. \A k \in 1 .. Len(b2) : Sequence(b2[k])
  <2> TAKE k \in 1 .. Len(b2)
  <2>1. k \in 1 .. m
    BY DEF Closed
  <2>2. CASE k = m
    <3>1. Sequence(Join(b[m], tree))
      <4> HIDE DEF tree
      <4> QED
        BY <1>3, <1>5, Concatenation
    <3> QED
      BY <2>2, <3>1 DEF Closed
  <2>3. CASE k # m
    <3>1. k \in 1 .. m - 1 /\ k \in 1 .. m + 1
      BY <2>1, <2>3
    <3> QED
      BY <1>1, <3>1 DEF Closed
  <2> QED
    BY <2>2, <2>3
<1>8. ASSUME NEW a \in Seq(Step), Upto(st, a)
      PROVE  Tower(g, a, s2, b2, m - 1, Result(c2, i, TRUE, b2[m]))
  <2> DEFINE base == Result(c, i, TRUE, b[m + 1])
             t == b[m]
             sub == b[m + 1]
  <2>1. Tower(g, a, s, b, m, base)
    BY <1>8 DEF Unwinding
  <2>2. Tower(g, a, s2, b2, m - 1, Closing(g, a, base, ns, anc, t))
    <3>1. \A k \in 1 .. m - 1 : s2[k] = s[k] /\ b2[k] = b[k]
      BY DEF Closed
    <3> HIDE DEF base
    <3> QED
      BY <2>1, <3>1, TowerPop
  <2>3. UnwindGoesOn(g, a, i, ns, anc, c, t, sub)
    <3>1. Sequence(c) /\ Sequence(t)
      BY <1>1, <1>3
    <3> HIDE DEF t, sub, i, ns, anc
    <3> QED
      BY <3>1, ClosingUnwind
  <2>4. Closing(g, a, base, ns, anc, t) = Result(c2, i, TRUE, Join(t, tree))
    <3> HIDE DEF path
    <3> QED
      BY <1>4, <2>3 DEF UnwindGoesOn
  <2>5. b2[m] = Join(t, tree)
    BY DEF Closed
  <2> HIDE DEF base, ns, anc, c2, i, t, tree
  <2> QED
    BY <2>2, <2>4, <2>5
<1> QED
  BY <1>6, <1>7, <1>8

-----------------------------------------------------------------------------
(***************************************************************************)
(* The actions of the traversal                                            *)
(***************************************************************************)

\* The path is empty above the roots only.
LEMMA HeadsEmpty ==
  ASSUME NEW s, NEW k \in Nat
  PROVE  (Heads(s, k) = << >>) <=> k = 0
<1>1. CASE k = 0
  BY <1>1 DEF Heads
<1>2. CASE k # 0
  <2>1. 1 \in DOMAIN Heads(s, k)
    BY <1>2 DEF Heads
  <2> QED
    BY <1>2, <2>1
<1> QED
  BY <1>1, <1>2

\* The stack without its top level.
LEMMA FrontFacts ==
  ASSUME NEW S, NEW s \in Seq(S), NEW m \in Nat, Len(s) = m + 1
  PROVE  Front(s) \in Seq(S) /\ Len(Front(s)) = m /\ \A k \in 1 .. m : Front(s)[k] = s[k]
<1>1. Front(s) = SubSeq(s, 1, m)
  BY DEF Front
<1>2. \A k \in 1 .. m : s[k] \in S
  <2> TAKE k \in 1 .. m
  <2>1. k \in 1 .. Len(s)
    OBVIOUS
  <2> QED
    BY <2>1, ElementOfSeq
<1> QED
  BY <1>1, <1>2

\* The same for a sequence.
LEMMA FrontSequence ==
  ASSUME NEW s, Sequence(s), NEW m \in Nat, Len(s) = m + 1
  PROVE  Sequence(Front(s)) /\ Len(Front(s)) = m /\ \A k \in 1 .. m : Front(s)[k] = s[k]
<1>1. Front(s) \in Seq(ToSet(s)) /\ Len(Front(s)) = m /\ \A k \in 1 .. m : Front(s)[k] = s[k]
  BY FrontFacts DEF Sequence
<1> QED
  BY <1>1, SequenceIn

\* One level of a stack is replaced.
LEMMA ReplacedTop ==
  ASSUME NEW S, NEW s \in Seq(S), NEW m \in Nat, m > 0, Len(s) = m, NEW x \in S
  PROVE  LET r == [s EXCEPT ![m] = x]
         IN  r \in Seq(S) /\ Len(r) = m /\ r[m] = x /\ \A k \in 1 .. m - 1 : r[k] = s[k]
<1> DEFINE r == [s EXCEPT ![m] = x]
<1>1. s \in [1 .. m -> S] /\ m \in 1 .. m
  BY LenProperties
<1>2. r \in [1 .. m -> S] /\ r[m] = x /\ \A k \in 1 .. m - 1 : r[k] = s[k]
  BY <1>1
<1> HIDE DEF r
<1>3. r \in Seq(S) /\ Len(r) = m
  BY <1>2
<1> QED
  BY <1>2, <1>3 DEF r

\* The level below has the subtree more.
Deposited(b, m, node) ==
  /\ Sequence(Deposit(b, node)) /\ Len(Deposit(b, node)) = m
  /\ Deposit(b, node)[m] = Append(b[m], node)
  /\ \A k \in 1 .. m - 1 : Deposit(b, node)[k] = b[k]

\* Deposit gives the subtree to the level below.
LEMMA DepositFacts ==
  ASSUME NEW b, Sequence(b), NEW m \in Nat, m > 0, Len(b) = m + 1, NEW node
  PROVE  Deposited(b, m, node)
<1> DEFINE up == Front(b)
           x == Append(b[m], node)
           S == ToSet(up) \cup {x}
<1>1. Sequence(up) /\ Len(up) = m /\ \A k \in 1 .. m : up[k] = b[k]
  BY FrontSequence
<1>2. Deposit(b, node) = [up EXCEPT ![m] = x]
  <2>1. up[m] = b[m] /\ Len(up) = m
    BY <1>1
  <2> HIDE DEF up
  <2> QED
    BY <2>1 DEF Deposit, up
<1> HIDE DEF up, x
<1>3. up \in Seq(S) /\ x \in S
  BY <1>1 DEF Sequence
<1> HIDE DEF S
<1> DEFINE r == [up EXCEPT ![m] = x]
<1>4. r \in Seq(S) /\ Len(r) = m /\ r[m] = x /\ \A k \in 1 .. m - 1 : r[k] = up[k]
  BY <1>1, <1>3, ReplacedTop
<1>5. Sequence(r)
  BY <1>4, SequenceIn
<1> HIDE DEF r
<1>6. \A k \in 1 .. m - 1 : r[k] = b[k]
  <2> TAKE k \in 1 .. m - 1
  <2>1. k \in 1 .. m
    OBVIOUS
  <2> QED
    BY <1>1, <1>4, <2>1
<1> QED
  BY <1>2, <1>4, <1>5, <1>6 DEF r, x, Deposited

\* The nodes of a stack.
LEMMA NodesAreHeads ==
  ASSUME NEW S, NEW s \in Seq(S)
  PROVE  nodes(s) = Heads(s, Len(s))
<1>1. DOMAIN s = 1 .. Len(s)
  BY LenProperties
<1> QED
  BY <1>1 DEF nodes, Heads

\* The way down that is announced to a level below the roots.
LEMMA DownCall ==
  ASSUME NEW N, NEW s \in Seq(Seq(N)), NEW m \in Nat, m > 0, Len(s) = m + 1,
         \A k \in 1 .. m : s[k] # << >>
  PROVE  DownIfAny(s) = DownOf(s[m + 1], Heads(s, m))
<1>1. level_is_done(s) <=> s[m + 1] = << >>
  BY DEF level_is_done, Last
<1>2. CASE s[m + 1] = << >>
  BY <1>1, <1>2 DEF DownIfAny, DownOf
<1>3. CASE s[m + 1] # << >>
  <2>1. \A k \in 1 .. m + 1 : s[k] \in Seq(N) /\ s[k] # << >>
    <3> TAKE k \in 1 .. m + 1
    <3>1. k \in 1 .. m \/ k = m + 1
      OBVIOUS
    <3>2. k \in 1 .. Len(s)
      OBVIOUS
    <3> QED
      BY <1>3, <3>1, <3>2, ElementOfSeq
  <2>2. Heads(s, m + 1) = Append(Heads(s, m), Head(s[m + 1]))
    BY <2>1, HeadsMore
  <2>3. nodes(s) = Heads(s, m + 1)
    BY NodesAreHeads
  <2>4. Heads(s, m) # << >>
    <3>1. m # 0
      OBVIOUS
    <3> QED
      BY <3>1, HeadsEmpty
  <2>5. DownIfAny(s) = << <<"down", Heads(s, m + 1)>> >>
    BY <1>1, <1>3, <2>3 DEF DownIfAny, Call
  <2>6. DownOf(s[m + 1], Heads(s, m)) = << <<"down", Append(Heads(s, m), Head(s[m + 1]))>> >>
    BY <1>3, <2>4 DEF DownOf, WayOf
  <2> QED
    BY <2>2, <2>5, <2>6
<1> QED
  BY <1>2, <1>3

\* The entries of a concatenation.
LEMMA JoinIndex ==
  ASSUME NEW s, NEW t, Sequence(s), Sequence(t)
  PROVE  /\ \A k \in 1 .. Len(s) : Join(s, t)[k] = s[k]
         /\ \A k \in 1 .. Len(t) : Join(s, t)[Len(s) + k] = t[k]
<1>1. PICK S : s \in Seq(S) /\ t \in Seq(S)
  BY CommonSet
<1> QED
  BY <1>1, ConcatProperties, LenProperties DEF Join

\* What was found is found with more calls.
LEMMA FoundMore ==
  ASSUME NEW f, NEW c, NEW d, Sequence(c), Sequence(d), FoundIn(f, c)
  PROVE  FoundIn(f, Join(c, d))
<1>0. PICK n : f = <<n>> /\ \E i \in 1 .. Len(c) : c[i][1] = "pre" /\ Last(c[i][2]) = n
  BY DEF FoundIn
<1>1. PICK i \in 1 .. Len(c) : c[i][1] = "pre" /\ Last(c[i][2]) = n
  BY <1>0
<1>2. Join(c, d)[i] = c[i]
  BY JoinIndex
<1>3. i \in 1 .. Len(Join(c, d))
  <2>1. Len(Join(c, d)) = Len(c) + Len(d) /\ Len(c) \in Nat /\ Len(d) \in Nat
    BY Concatenation
  <2> QED
    BY <2>1
<1>4. \E k \in 1 .. Len(Join(c, d)) : Join(c, d)[k][1] = "pre" /\ Last(Join(c, d)[k][2]) = n
  BY <1>1, <1>2, <1>3
<1> QED
  BY <1>0, <1>4 DEF FoundIn

\* The node of a call of pre is found in it.
LEMMA FoundNow ==
  ASSUME NEW g, NEW s, NEW c, NEW st, NEW b, Shape(g, s, c, st, b), s[Len(s)] # << >>
  PROVE  FoundIn(<<Head(s[Len(s)])>>, Join(c, << <<"pre", Heads(s, Len(s))>> >>))
<1> DEFINE n == Head(s[Len(s)])
           path == Heads(s, Len(s))
           d == << <<"pre", path>> >>
           i == Len(c) + 1
<1>1. Len(s) \in Nat /\ Len(s) \in 1 .. Len(s) /\ path \in Seq(DOMAIN g.forward)
  BY PathToTop
<1>2. Len(path) = Len(s) /\ path[Len(s)] = n
  <2>1. DOMAIN path = 1 .. Len(s) /\ DOMAIN path = 1 .. Len(path) /\ Len(path) \in Nat
    BY <1>1, LenProperties DEF Heads
  <2>2. Len(path) = Len(s)
    <3> HIDE DEF path
    <3> QED
      BY <1>1, <2>1
  <2>3. path[Len(s)] = n
    BY <1>1 DEF Heads
  <2> QED
    BY <2>2, <2>3
<1>3. Last(path) = n
  <2> HIDE DEF path
  <2> QED
    BY <1>2 DEF Last
<1>4. Sequence(c) /\ Sequence(d) /\ Len(d) = 1 /\ d[1] = <<"pre", path>>
  BY ShortSequences DEF Shape
<1>5. Len(Join(c, d)) = Len(c) + 1 /\ Join(c, d)[i] = d[1] /\ Len(c) \in Nat
  <2> HIDE DEF d
  <2>1. Len(Join(c, d)) = Len(c) + Len(d) /\ Len(c) \in Nat
    BY <1>4, Concatenation
  <2>2. 1 \in 1 .. Len(d)
    BY <1>4
  <2>3. Join(c, d)[Len(c) + 1] = d[1]
    BY <1>4, <2>2, JoinIndex
  <2> QED
    BY <1>4, <2>1, <2>3
<1>6. i \in 1 .. Len(Join(c, d)) /\ Join(c, d)[i][1] = "pre" /\ Join(c, d)[i][2] = path
  BY <1>4, <1>5
<1> HIDE DEF path, d, i, n
<1>7. \E k \in 1 .. Len(Join(c, d)) : Join(c, d)[k][1] = "pre" /\ Last(Join(c, d)[k][2]) = n
  BY <1>3, <1>6
<1>8. FoundIn(<<n>>, Join(c, d))
  BY <1>7 DEF FoundIn
<1> QED
  BY <1>8 DEF n, d, path

\* A call of pre.
LEMMA PreKeeps ==
  ASSUME TraversalInv, NEW answer \in Step, Pre(answer), graph' = graph
  PROVE  TraversalInv'
<1> DEFINE s == stack
           g == graph
           kids == g.forward[Head(s[Len(s)])]
           path == Heads(s, Len(s))
           cp == Join(calls, << <<"pre", path>> >>)
<1>1. /\ Shape(g, s, calls, steps, built) /\ Searching(g, s, calls, steps, built) /\ found = << >>
      /\ phase = "search"
  BY DEF TraversalInv, Pre
<1>2. s \in Seq(Seq(DOMAIN g.forward)) /\ s[Len(s)] # << >>
  BY <1>1 DEF Shape, Pre, level_is_done, Last
<1>3. /\ Len(s) \in Nat /\ Len(s) > 0 /\ \A k \in 1 .. Len(s) : s[k] # << >>
  <2>1. Len(s) \in Nat /\ Len(s) > 0
    BY <1>1, <1>2, LenProperties DEF Shape
  <2>2. ASSUME NEW k \in 1 .. Len(s) PROVE s[k] # << >>
    <3>1. k \in 1 .. Len(s) - 1 \/ k = Len(s)
      BY <2>1, LastIndex
    <3> QED
      BY <1>1, <1>2, <3>1 DEF Shape
  <2> QED
    BY <2>1, <2>2
<1>4. Call("pre", stack) = <<"pre", path>> /\ current_node(stack) = Head(s[Len(s)])
  BY <1>2, NodesAreHeads DEF Call, current_node, Last
<1>5. steps' = Append(steps, answer) /\ built' = Append(built, << >>)
  BY DEF Pre, BuildPre
<1>6. Sequence(cp) /\ Join(cp, << >>) = cp
  <2>1. Sequence(calls)
    BY <1>1 DEF Shape
  <2>2. Sequence(cp)
    BY <2>1, ShortSequences, Concatenation
  <2> HIDE DEF cp
  <2> QED
    BY <2>2, Concatenation
<1>7. CASE answer = "into"
  <2> DEFINE s2 == Append(s, kids)
  <2>1. s2 \in Seq(Seq(DOMAIN g.forward)) /\ Len(s2) = Len(s) + 1 /\ s2[Len(s) + 1] = kids
        /\ \A k \in 1 .. Len(s) : s2[k] = s[k]
    <3>1. kids \in Seq(DOMAIN g.forward)
      <4>1. s[Len(s)] \in Seq(DOMAIN g.forward) /\ IsGraph(g)
        BY <1>1, <1>2, PathToTop DEF Shape
      <4>2. Head(s[Len(s)]) \in DOMAIN g.forward
        BY <1>2, <4>1, HeadTail
      <4> QED
        BY <4>1, <4>2 DEF IsGraph
    <3> HIDE DEF kids
    <3> QED
      BY <1>2, <3>1, AppendProperties
  <2>2. DownIfAny(s2) = DownOf(kids, path)
    <3>1. \A k \in 1 .. Len(s) : s2[k] # << >>
      BY <1>3, <2>1
    <3>2. Heads(s2, Len(s)) = path
      <4>1. Len(s) \in Int /\ \A k \in 1 .. Len(s) : s2[k] = s[k]
        BY <1>3, <2>1
      <4> HIDE DEF s2
      <4> QED
        BY <4>1, HeadsSame
    <3>3. DownIfAny(s2) = DownOf(s2[Len(s) + 1], Heads(s2, Len(s)))
      <4> HIDE DEF s2
      <4> QED
        BY <1>3, <2>1, <3>1, DownCall
    <3> QED
      BY <2>1, <3>2, <3>3
  <2>3. stack' = s2 /\ calls' = Join(cp, DownOf(kids, path)) /\ phase' = phase /\ found' = found
    <3>1. stack' = push_level(stack) /\ push_level(stack) = s2
      BY <1>4, <1>7 DEF Pre, push_level
    <3>2. calls' = (calls \o << Call("pre", stack) >>) \o DownIfAny(push_level(stack))
      BY <1>7 DEF Pre
    <3>3. phase' = phase /\ found' = found
      BY <1>7 DEF Pre
    <3> HIDE DEF s2, kids, path
    <3>4. calls' = Join(cp, DownOf(kids, path))
      BY <1>4, <2>2, <3>1, <3>2 DEF Join
    <3> QED
      BY <3>1, <3>3, <3>4
  <2>4. Shape(g, s2, Join(cp, DownOf(kids, path)), Append(steps, "into"), Append(built, << >>))
        /\ Searching(g, s2, Join(cp, DownOf(kids, path)), Append(steps, "into"), Append(built, << >>))
    BY <1>1, <1>2, SearchInto
  <2>5. Shape(graph, stack, calls, steps, built)' /\ Searching(graph, stack, calls, steps, built)'
    BY <1>5, <1>7, <2>3, <2>4
  <2> QED
    BY <1>1, <2>3, <2>5 DEF TraversalInv
<1>8. CASE answer = "over"
  <2>1. stack' = Append(s, << >>) /\ phase' = phase /\ found' = found
    BY <1>8 DEF Pre, push_done_level
  <2>2. calls' = cp
    <3>1. calls' = (calls \o << Call("pre", stack) >>) \o << >>
      BY <1>8 DEF Pre
    <3>2. calls' = Join(cp, << >>)
      <4> HIDE DEF path
      <4> QED
        BY <1>4, <3>1 DEF Join
    <3> QED
      BY <1>6, <3>2
  <2>3. Shape(g, Append(s, << >>), cp, Append(steps, "over"), Append(built, << >>))
        /\ Searching(g, Append(s, << >>), cp, Append(steps, "over"), Append(built, << >>))
    BY <1>1, <1>2, SearchOver
  <2>4. Shape(graph, stack, calls, steps, built)' /\ Searching(graph, stack, calls, steps, built)'
    BY <1>5, <1>8, <2>1, <2>2, <2>3
  <2> QED
    BY <1>1, <2>1, <2>4 DEF TraversalInv
<1>9. CASE answer = "out"
  <2>1. stack' = s /\ phase' = "unwind" /\ found' = <<Head(s[Len(s)])>>
    BY <1>4, <1>9 DEF Pre
  <2>2. calls' = cp
    <3>1. calls' = (calls \o << Call("pre", stack) >>) \o << >>
      BY <1>9 DEF Pre
    <3>2. calls' = Join(cp, << >>)
      <4> HIDE DEF path
      <4> QED
        BY <1>4, <3>1 DEF Join
    <3> QED
      BY <1>6, <3>2
  <2>3. Shape(g, s, cp, Append(steps, "out"), Append(built, << >>))
        /\ Unwinding(g, s, cp, Append(steps, "out"), Append(built, << >>))
    BY <1>1, <1>2, SearchOut
  <2>4. FoundIn(<<Head(s[Len(s)])>>, cp)
    BY <1>1, <1>2, FoundNow
  <2>5. /\ Shape(graph, stack, calls, steps, built)' /\ Unwinding(graph, stack, calls, steps, built)'
        /\ FoundIn(found, calls)'
    BY <1>5, <1>9, <2>1, <2>2, <2>3, <2>4
  <2> QED
    BY <2>1, <2>5 DEF TraversalInv
<1> QED
  BY <1>7, <1>8, <1>9 DEF Step

\* A call of post after the last sibling.
LEMMA PostKeeps ==
  ASSUME TraversalInv, Post, graph' = graph
  PROVE  TraversalInv'
<1> DEFINE s == stack
           g == graph
           b == built
           m == Len(s) - 1
           ns == s[m]
           anc == Heads(s, m - 1)
           path == Heads(s, m)
           up == Front(s)
           s2 == [up EXCEPT ![m] = Tail(ns)]
           b2 == Deposit(b, <<Head(ns), Last(b)>>)
           c2 == Join(Join(calls, << <<"post", path>> >>), Join(WayOf("up", anc, path), DownOf(Tail(ns), anc)))
<1>1. /\ Shape(g, s, calls, steps, b) /\ Searching(g, s, calls, steps, b) /\ found = << >>
      /\ phase = "search"
  BY DEF TraversalInv, Post
<1>2. /\ s \in Seq(Seq(DOMAIN g.forward)) /\ s[Len(s)] = << >> /\ Len(s) # 1 /\ Len(s) > 0
      /\ Sequence(b) /\ Len(b) = Len(s) /\ Sequence(calls)
  BY <1>1 DEF Shape, Searching, Post, level_is_done, is_at_root_level, Last
<1>3. m \in Nat /\ m > 0 /\ Len(s) = m + 1 /\ m \in 1 .. m /\ m \in 1 .. Len(s) /\ m - 1 \in Nat
  BY <1>2, LenProperties
<1>4. \A k \in 1 .. m : s[k] # << >>
  BY <1>1 DEF Shape
<1>5. up \in Seq(Seq(DOMAIN g.forward)) /\ Len(up) = m /\ \A k \in 1 .. m : up[k] = s[k]
  <2> HIDE DEF m
  <2> QED
    BY <1>2, <1>3, FrontFacts, ZenonT(90)
<1>6. ns \in Seq(DOMAIN g.forward) /\ ns # << >> /\ Tail(ns) \in Seq(DOMAIN g.forward)
  <2>1. ns \in Seq(DOMAIN g.forward) /\ ns # << >>
    BY <1>2, <1>3, <1>4, ElementOfSeq
  <2> QED
    BY <2>1, HeadTail
<1>7. s2 \in Seq(Seq(DOMAIN g.forward)) /\ Len(s2) = m /\ s2[m] = Tail(ns) /\ \A k \in 1 .. m - 1 : s2[k] = up[k]
  <2> DEFINE x == Tail(ns)
             S == Seq(DOMAIN g.forward)
             r == [up EXCEPT ![m] = x]
  <2>1. up \in Seq(S) /\ x \in S /\ Len(up) = m /\ m \in Nat /\ m > 0
    BY <1>3, <1>5, <1>6
  <2> HIDE DEF m, up, x, S
  <2>2. r \in Seq(S) /\ Len(r) = m /\ r[m] = x /\ \A k \in 1 .. m - 1 : r[k] = up[k]
    BY <2>1, ReplacedTop
  <2> QED
    BY <2>2 DEF x, S
<1>8. \A k \in 1 .. m - 1 : s2[k] = s[k] /\ s2[k] # << >>
  <2> TAKE k \in 1 .. m - 1
  <2>1. k \in 1 .. m
    BY <1>3
  <2> HIDE DEF s2, up, m
  <2> QED
    BY <1>4, <1>5, <1>7, <2>1
<1>9. advance_node_range(up) = s2 /\ current_node(up) = Head(ns)
  <2>1. up[m] = ns /\ Len(up) = m
    BY <1>3, <1>5
  <2> HIDE DEF up, m, ns
  <2> QED
    BY <2>1 DEF advance_node_range, current_node, Last
<1>10. Last(b) = b[m + 1]
  BY <1>2, <1>3 DEF Last
<1>11. /\ Sequence(b2) /\ Len(b2) = m /\ b2[m] = Append(b[m], <<Head(ns), b[m + 1]>>)
       /\ \A k \in 1 .. m - 1 : b2[k] = b[k]
  <2>1. Sequence(b) /\ m \in Nat /\ m > 0 /\ Len(b) = m + 1
    BY <1>2, <1>3
  <2> DEFINE node == <<Head(ns), Last(b)>>
  <2>2. Deposited(b, m, node)
    <3> HIDE DEF node, m
    <3> QED
      BY <2>1, DepositFacts
  <2> QED
    BY <1>10, <2>2 DEF Deposited
<1>12. Closed(s, b, m, s2, b2)
  <2>1. Sequence(b[m])
    BY <1>1, <1>2, <1>3 DEF Shape
  <2>2. Append(b[m], <<Head(ns), b[m + 1]>>) = Join(b[m], << <<Head(ns), b[m + 1]>> >>)
    BY <2>1, Appended
  <2> HIDE DEF s2, b2, m
  <2> QED
    BY <1>8, <1>11, <2>2 DEF Closed
<1>13. Heads(up, m) = path /\ nodes(up) = path
  <2>1. m \in Int /\ \A k \in 1 .. m : up[k] = s[k]
    BY <1>3, <1>5
  <2>2. Heads(up, m) = path
    <3> HIDE DEF m, up
    <3> QED
      BY <2>1, HeadsSame
  <2> QED
    BY <1>5, <2>2, NodesAreHeads
<1>14. calls' = c2
  <2> DEFINE post == << <<"post", path>> >>
             way == IF is_at_root_level(up) THEN << >> ELSE << Call("up", up) >> \o DownIfAny(s2)
  <2>1. calls' = (calls \o << Call("post", up) >>) \o way
    <3>1. calls' = (calls \o << Call("post", up) >>)
                     \o (IF is_at_root_level(up) THEN << >> ELSE << Call("up", up) >> \o DownIfAny(advance_node_range(up)))
      BY DEF Post, pop_level
    <3> HIDE DEF s2, up
    <3> QED
      BY <1>9, <3>1
  <2>2. Call("post", up) = <<"post", path>> /\ Call("up", up) = <<"up", path>>
    BY <1>13 DEF Call
  <2>3. way = Join(WayOf("up", anc, path), DownOf(Tail(ns), anc))
    <3>1. CASE m = 1
      <4>1. is_at_root_level(up)
        BY <1>5, <3>1 DEF is_at_root_level
      <4>2. anc = << >>
        <5>1. m - 1 \in Nat /\ m - 1 = 0
          BY <3>1
        <5> QED
          BY <5>1, HeadsEmpty
      <4>3. WayOf("up", anc, path) = << >> /\ DownOf(Tail(ns), anc) = << >>
        <5> HIDE DEF anc
        <5> QED
          BY <4>2 DEF WayOf, DownOf
      <4>4. Join(<< >>, << >>) = << >>
        BY ShortSequences, Concatenation
      <4> QED
        BY <4>1, <4>3, <4>4
    <3>2. CASE m # 1
      <4>1. ~is_at_root_level(up)
        BY <1>5, <3>2 DEF is_at_root_level
      <4>2. anc # << >>
        <5>1. m - 1 \in Nat /\ m - 1 # 0
          BY <1>3, <3>2
        <5> QED
          BY <5>1, HeadsEmpty
      <4>3. DownIfAny(s2) = DownOf(Tail(ns), anc)
        <5> DEFINE j == m - 1
        <5>1. j \in Nat /\ j > 0 /\ Len(s2) = j + 1 /\ (\A k \in 1 .. j : s2[k] # << >>) /\ j + 1 = m /\ j \in Int
          <6> HIDE DEF m, s2
          <6> QED
            BY <1>3, <1>7, <1>8, <3>2
        <5>2. Heads(s2, j) = anc
          <6>1. \A k \in 1 .. j : s2[k] = s[k]
            BY <1>8
          <6>2. Heads(s2, j) = Heads(s, j)
            <7> HIDE DEF j, s2
            <7> QED
              BY <5>1, <6>1, HeadsSame
          <6> QED
            BY <6>2
        <5>3. DownIfAny(s2) = DownOf(s2[j + 1], Heads(s2, j))
          <6> HIDE DEF j, s2
          <6> QED
            BY <1>7, <5>1, DownCall
        <5>4. s2[j + 1] = Tail(ns)
          BY <1>7, <5>1
        <5> QED
          BY <5>2, <5>3, <5>4
      <4>4. WayOf("up", anc, path) = << <<"up", path>> >>
        BY <4>2 DEF WayOf
      <4> HIDE DEF s2, up, anc, path, ns
      <4> QED
        BY <2>2, <4>1, <4>3, <4>4 DEF Join
    <3> QED
      BY <3>1, <3>2
  <2> HIDE DEF way, up, path, anc, ns
  <2> QED
    BY <2>1, <2>2, <2>3 DEF Join
<1>15. stack' = s2 /\ built' = b2 /\ steps' = steps /\ found' = found /\ phase' = phase
  <2>1. stack' = advance_node_range(up) /\ built' = Deposit(built, <<current_node(up), Last(built)>>)
    BY DEF Post, pop_level, BuildPost
  <2>2. steps' = steps /\ found' = found /\ phase' = phase
    BY DEF Post
  <2> HIDE DEF s2, up
  <2> QED
    BY <1>9, <2>1, <2>2
<1>16. Shape(g, s2, c2, steps, b2) /\ Searching(g, s2, c2, steps, b2)
  <2> HIDE DEF s2, b2, m
  <2> QED
    BY <1>1, <1>2, <1>3, <1>7, <1>11, <1>12, SearchPost DEF ns
<1>17. Shape(graph, stack, calls, steps, built)' /\ Searching(graph, stack, calls, steps, built)'
  <2> HIDE DEF s2, b2, c2
  <2> QED
    BY <1>14, <1>15, <1>16
<1> QED
  BY <1>1, <1>15, <1>17 DEF TraversalInv

\* The end of the traversal.
LEMMA DoneKeeps ==
  ASSUME TraversalInv, Done, graph' = graph
  PROVE  TraversalInv'
<1> DEFINE s == stack
           g == graph
<1>1. /\ Shape(g, s, calls, steps, built) /\ Searching(g, s, calls, steps, built) /\ found = << >>
      /\ phase = "search" /\ Len(s) = 1 /\ s[1] = << >>
  BY DEF TraversalInv, Done, is_done, is_at_root_level, level_is_done, Last
<1>2. Sequence(calls) /\ Sequence(built[1]) /\ Len(built) = 1
  <2>1. Len(built) = 1 /\ 1 \in 1 .. Len(built)
    BY <1>1 DEF Searching
  <2> QED
    BY <1>1, <2>1 DEF Shape
<1>3. ASSUME NEW a \in Seq(Step), Upto(steps, a)
      PROVE  VisitOf(g, a, 1, g.roots, << >>) = Result(calls, Len(steps) + 1, FALSE, built[1])
  <2> DEFINE i == Len(steps) + 1
             anc == Heads(s, 0)
             t == built[1]
  <2>1. Len(s) - 1 = 0
    BY <1>1
  <2>2. Tower(g, a, s, built, 0, After(calls, RestOf(g, a, i, << >>, anc), t))
    BY <1>1, <1>3, <2>1 DEF Searching
  <2>3. RestIsNone(g, a, i, anc, calls, t)
    <3> HIDE DEF i, anc, t
    <3> QED
      BY <1>2, RestNone DEF t
  <2>4. VisitOf(g, a, 1, g.roots, << >>) = After(calls, RestOf(g, a, i, << >>, anc), t)
    BY <2>2, TowerGround
  <2> QED
    BY <2>3, <2>4 DEF RestIsNone
<1>4. (found # << >>) = FALSE
  BY <1>1
<1>5. Ended(g, calls, steps, built, found # << >>)
  BY <1>2, <1>3, <1>4 DEF Ended
<1>6. stack' = stack /\ calls' = calls /\ steps' = steps /\ found' = found /\ built' = built /\ phase' = "done"
  BY DEF Done
<1>7. Shape(graph, stack, calls, steps, built)' /\ Ended(graph, calls, steps, built, found # << >>)'
  BY <1>1, <1>5, <1>6
<1> QED
  BY <1>1, <1>6, <1>7 DEF TraversalInv

\* A call of post of the unwinding.
LEMMA UnwindKeeps ==
  ASSUME TraversalInv, Unwind, graph' = graph
  PROVE  TraversalInv'
<1> DEFINE s == stack
           g == graph
           b == built
           m == Len(s)
           ns == s[m]
           anc == Heads(s, m - 1)
           path == Heads(s, m)
           b2 == Deposit(b, <<Head(ns), Last(b)>>)
           c2 == Join(Join(calls, << <<"post", path>> >>), WayOf("up", anc, path))
<1>1. /\ Shape(g, s, calls, steps, b) /\ Unwinding(g, s, calls, steps, b) /\ FoundIn(found, calls)
      /\ phase = "unwind"
  BY DEF TraversalInv, Unwind
<1>2. /\ s \in Seq(Seq(DOMAIN g.forward)) /\ ns # << >> /\ Len(s) > 0
      /\ Sequence(b) /\ Len(b) = m + 1 /\ Sequence(calls) /\ (\A k \in 1 .. m - 1 : s[k] # << >>)
      /\ IsGraph(g) /\ steps \in Seq(Step)
  BY <1>1 DEF Shape, Unwinding
<1>3. m \in Nat /\ m > 0 /\ m \in 1 .. m + 1 /\ m - 1 \in Nat
  BY <1>2, LenProperties
<1>4. current_node(stack) = Head(ns) /\ nodes(stack) = path
  BY <1>2, NodesAreHeads, SMTT(60) DEF current_node, Last
<1>5. /\ Sequence(b2) /\ Len(b2) = m /\ b2[m] = Append(b[m], <<Head(ns), b[m + 1]>>)
      /\ \A k \in 1 .. m - 1 : b2[k] = b[k]
  <2> DEFINE node == <<Head(ns), Last(b)>>
  <2>2. Deposited(b, m, node)
    <3>1. Sequence(b) /\ m \in Nat /\ m > 0 /\ Len(b) = m + 1
      BY <1>2, <1>3
    <3> HIDE DEF node, m
    <3> QED
      BY <3>1, DepositFacts
  <2>3. Last(b) = b[m + 1]
    BY <1>2, SMTT(60) DEF Last
  <2> QED
    BY <2>2, <2>3 DEF Deposited
<1>6. Closed(s, b, m, s, b2) /\ Closed(s, b, m, Front(s), b2)
  <2>1. Sequence(b[m])
    BY <1>1, <1>2, <1>3 DEF Shape
  <2>2. Append(b[m], <<Head(ns), b[m + 1]>>) = Join(b[m], << <<Head(ns), b[m + 1]>> >>)
    BY <2>1, Appended
  <2>3. \A k \in 1 .. m - 1 : Front(s)[k] = s[k]
    <3> DEFINE j == m - 1
    <3>1. j \in Nat /\ Len(s) = j + 1
      BY <1>3
    <3>2. \A k \in 1 .. j : Front(s)[k] = s[k]
      <4> HIDE DEF j
      <4> QED
        BY <1>2, <3>1, FrontFacts
    <3> QED
      BY <3>2
  <2> HIDE DEF b2, m
  <2> QED
    BY <1>5, <2>2, <2>3 DEF Closed
<1>7. calls' = c2
  <2> DEFINE way == IF is_at_root_level(stack) THEN << >> ELSE << Call("up", stack) >>
  <2>1. calls' = (calls \o << Call("post", stack) >>) \o way
    BY DEF Unwind
  <2>2. Call("post", stack) = <<"post", path>> /\ Call("up", stack) = <<"up", path>>
    BY <1>4 DEF Call
  <2>3. way = WayOf("up", anc, path)
    <3>1. (anc = << >>) <=> m - 1 = 0
      BY <1>3, HeadsEmpty
    <3>2. is_at_root_level(stack) <=> anc = << >>
      BY <1>3, <3>1 DEF is_at_root_level
    <3> HIDE DEF anc, path
    <3> QED
      BY <2>2, <3>2 DEF WayOf
  <2> HIDE DEF way, path, anc
  <2> QED
    BY <2>1, <2>2, <2>3 DEF Join
<1>8. built' = b2 /\ steps' = steps /\ found' = found
  <2>1. built' = Deposit(built, <<current_node(stack), Last(built)>>)
    BY DEF Unwind, BuildPost
  <2>2. steps' = steps /\ found' = found
    BY DEF Unwind
  <2> HIDE DEF ns
  <2> QED
    BY <1>4, <2>1, <2>2
<1>9. /\ Sequence(c2) /\ \A k \in 1 .. Len(b2) : Sequence(b2[k])
      /\ \A a \in Seq(Step) : Upto(steps, a) =>
           /\ Tower(g, a, s, b2, m - 1, Result(c2, Len(steps) + 1, TRUE, b2[m]))
           /\ Tower(g, a, Front(s), b2, m - 1, Result(c2, Len(steps) + 1, TRUE, b2[m]))
  <2> HIDE DEF b2, m
  <2>1. Len(s) = m
    BY DEF m
  <2>2. ASSUME NEW s2, Closed(s, b, m, s2, b2)
        PROVE  /\ Sequence(c2) /\ \A k \in 1 .. Len(b2) : Sequence(b2[k])
               /\ \A a \in Seq(Step) : Upto(steps, a) =>
                    Tower(g, a, s2, b2, m - 1, Result(c2, Len(steps) + 1, TRUE, b2[m]))
    BY <1>1, <1>3, <1>5, <2>1, <2>2, UnwindPost
  <2> QED
    BY <1>6, <2>2
<1>10. FoundIn(found, c2)
  <2> DEFINE x == << <<"post", path>> >>
             y == WayOf("up", anc, path)
             cx == Join(calls, x)
  <2>1. Sequence(x) /\ Sequence(y)
    BY ShortSequences, WaySequence
  <2> HIDE DEF x, y
  <2>2. FoundIn(found, cx) /\ Sequence(cx)
    BY <1>1, <1>2, <2>1, FoundMore, Concatenation
  <2> HIDE DEF cx
  <2>3. FoundIn(found, Join(cx, y))
    BY <2>1, <2>2, FoundMore
  <2> QED
    BY <2>3 DEF cx, x, y
<1>11. CASE m = 1
  <2>1. phase' = "done" /\ stack' = stack
    BY <1>11 DEF Unwind, is_at_root_level
  <2>2. (found # << >>) = TRUE
    BY <1>1 DEF FoundIn
  <2>3. ASSUME NEW a \in Seq(Step), Upto(steps, a)
        PROVE  VisitOf(g, a, 1, g.roots, << >>) = Result(c2, Len(steps) + 1, TRUE, b2[1])
    <3> HIDE DEF b2, c2
    <3>1. Tower(g, a, s, b2, 0, Result(c2, Len(steps) + 1, TRUE, b2[1]))
      <4>1. m - 1 = 0
        BY <1>11
      <4>2. Tower(g, a, s, b2, m - 1, Result(c2, Len(steps) + 1, TRUE, b2[m]))
        BY <1>9, <2>3
      <4> QED
        BY <1>11, <4>1, <4>2
    <3> QED
      BY <3>1, TowerGround
  <2>4. Ended(g, c2, steps, b2, found # << >>)
    <3> HIDE DEF b2, c2
    <3> QED
      BY <1>5, <1>11, <2>2, <2>3 DEF Ended
  <2>5. Shape(g, s, c2, steps, b2)
    <3> HIDE DEF b2, c2
    <3> QED
      BY <1>2, <1>5, <1>9 DEF Shape
  <2> HIDE DEF b2, c2
  <2>6. /\ Shape(graph, stack, calls, steps, built)' /\ Ended(graph, calls, steps, built, found # << >>)'
        /\ FoundIn(found, calls)'
    BY <1>7, <1>8, <1>10, <2>1, <2>4, <2>5
  <2> QED
    BY <2>1, <2>6 DEF TraversalInv
<1>12. CASE m # 1
  <2> DEFINE s2 == Front(s)
             j == m - 1
  <2>1. phase' = phase /\ stack' = s2
    BY <1>12 DEF Unwind, is_at_root_level, pop_level
  <2>2. j \in Nat /\ Len(s) = j + 1 /\ j > 0 /\ j \in 1 .. j
    <3>1. Len(s) = m
      OBVIOUS
    <3> HIDE DEF m
    <3> QED
      BY <1>3, <1>12, <3>1
  <2>3. s2 \in Seq(Seq(DOMAIN g.forward)) /\ Len(s2) = j /\ \A k \in 1 .. j : s2[k] = s[k]
    <3> HIDE DEF j
    <3> QED
      BY <1>2, <2>2, FrontFacts
  <2>4. \A k \in 1 .. j : s2[k] # << >>
    BY <1>2, <2>3
  <2>5. Len(b2) = j + 1 /\ s2[j] # << >>
    BY <1>5, <2>2, <2>4
  <2>6. Shape(g, s2, c2, steps, b2)
    <3>1. Len(s2) > 0 /\ \A k \in 1 .. Len(s2) - 1 : s2[k] # << >>
      <4> HIDE DEF s2, j
      <4> QED
        BY <2>2, <2>3, <2>4
    <3> HIDE DEF b2, c2, s2
    <3> QED
      BY <1>2, <1>5, <1>9, <2>3, <3>1 DEF Shape
  <2>7. Unwinding(g, s2, c2, steps, b2)
    <3>1. ASSUME NEW a \in Seq(Step), Upto(steps, a)
          PROVE  Tower(g, a, s2, b2, j, Result(c2, Len(steps) + 1, TRUE, b2[j + 1]))
      <4>1. j + 1 = m
        BY <1>3
      <4> HIDE DEF b2, c2
      <4> QED
        BY <1>9, <3>1, <4>1
    <3> HIDE DEF b2, c2, s2, j
    <3> QED
      BY <2>3, <2>5, <3>1 DEF Unwinding
  <2> HIDE DEF b2, c2, s2
  <2>8. /\ Shape(graph, stack, calls, steps, built)' /\ Unwinding(graph, stack, calls, steps, built)'
        /\ FoundIn(found, calls)'
    BY <1>7, <1>8, <1>10, <2>1, <2>6, <2>7
  <2> QED
    BY <1>1, <2>1, <2>8 DEF TraversalInv
<1> QED
  BY <1>11, <1>12

\* A traversal begins with nothing done.
LEMMA InitKeeps ==
  ASSUME InitTraversal, IsGraph(graph)
  PROVE  TraversalInv
<1> DEFINE N == DOMAIN graph.forward
           g == graph
<1>0. graph.roots \in Seq(N)
  BY DEF IsGraph
<1>1. /\ stack = <<graph.roots>> /\ calls = << >> /\ steps = << >> /\ found = << >>
      /\ built = << << >> >> /\ phase = "search"
  BY DEF InitTraversal
<1>2. /\ Len(stack) = 1 /\ stack[1] = graph.roots /\ Len(built) = 1 /\ built[1] = << >>
      /\ Len(steps) = 0 /\ stack \in Seq(Seq(N)) /\ steps \in Seq(Step) /\ Len(stack) - 1 = 0
  <2> HIDE DEF N
  <2>1. Len(stack) = 1 /\ stack[1] = graph.roots /\ stack \in Seq(Seq(N))
    BY <1>0, <1>1
  <2>2. Len(built) = 1 /\ built[1] = << >>
    BY <1>1
  <2>3. Len(steps) = 0 /\ steps \in Seq(Step)
    BY <1>1
  <2> QED
    BY <2>1, <2>2, <2>3
<1>3. Shape(graph, stack, calls, steps, built)
  <2>1. Sequence(calls) /\ Sequence(built) /\ \A k \in 1 .. Len(built) : Sequence(built[k])
    <3>1. Sequence(calls) /\ Sequence(built) /\ Sequence(<< >>)
      BY <1>1, ShortSequences
    <3> QED
      BY <1>2, <3>1
  <2> QED
    BY <1>2, <2>1 DEF Shape
<1>4. ASSUME NEW a \in Seq(Step)
      PROVE  Tower(g, a, stack, built, 0,
                   After(calls, RestOf(g, a, 1, stack[1], Heads(stack, 0)), built[1]))
  <2> DEFINE r == RestOf(g, a, 1, g.roots, << >>)
  <2>1. Heads(stack, 0) = << >>
    BY HeadsEmpty
  <2>2. << >> \in Seq(N) /\ 1 \in 1 .. Len(a) + 2
    <3>1. Len(a) \in Nat
      BY LenProperties
    <3> QED
      BY <3>1
  <2>3. VisitOf(g, a, 1, g.roots, << >>) = After(DownOf(g.roots, << >>), r, << >>) /\ IsResult(r, 1, Len(a))
    BY <1>0, <2>2, VisitOfRest
  <2>4. DownOf(g.roots, << >>) = << >>
    BY DEF DownOf, WayOf
  <2>5. VisitOf(g, a, 1, g.roots, << >>) = After(<< >>, r, << >>)
    BY <2>3, <2>4
  <2>6. After(calls, RestOf(g, a, 1, stack[1], Heads(stack, 0)), built[1]) = After(<< >>, r, << >>)
    BY <1>1, <1>2, <2>1
  <2> HIDE DEF r
  <2> DEFINE base == After(<< >>, r, << >>)
             out == [k \in {1} |-> base]
  <2>7. out[1] = base /\ 0 + 1 = 1 /\ \A k \in 1 .. 0 : FALSE
    OBVIOUS
  <2> HIDE DEF base, out
  <2>8. VisitOf(g, a, 1, g.roots, << >>) = base
    BY <2>5 DEF base
  <2>9. Tower(g, a, stack, built, 0, base)
    BY <2>7, <2>8 DEF Tower
  <2> QED
    BY <2>6, <2>9 DEF base
<1>5. Searching(graph, stack, calls, steps, built)
  <2>1. Len(steps) + 1 = 1
    BY <1>2
  <2> QED
    BY <1>2, <1>4, <2>1 DEF Searching
<1> QED
  BY <1>1, <1>3, <1>5 DEF TraversalInv

\* The answer of the comparison of two nodes.
LEMMA DiffAnswer ==
  ASSUME NEW n, NEW s, NEW c
  PROVE  diff_nodes(n, s, c).next \in Step
<1> DEFINE i == Last(n)[1]
           j == Last(n)[2]
           At(name) == Append(_zip_path(Front(n)), name)
           Differ(next, e) == [next |-> next, ok |-> FALSE, err |-> e, warn |-> << >>]
           OnlyFirst == <<"<", At(T(1, i).name)>>
           OnlySecond == <<">", At(T(2, j).name)>>
           values == value_comparison_report(n, c)
           There == At(modify_name(c, T(1, i).name))
           If(b, e) == IF b THEN <<e>> ELSE << >>
           d1 == Differ("over", <<OnlySecond>>)
           d2 == Differ("over", <<OnlyFirst>>)
           d3 == Differ("over", <<OnlyFirst, OnlySecond>>)
           d4 == Differ("into", << <<"label", At(T(1, i).name)>> >>)
           d5 == Differ("into", << <<"type", At(T(1, i).name)>> >>)
           d6 == [next |-> "into", ok |-> values.ok, err |-> If(values.err, <<"value", There>>),
                  warn |-> If(values.warn, There)]
<1>1. diff_nodes(n, s, c) \in {d1, d2, d3, d4, d5, d6}
  <2>1. diff_nodes(n, s, c) =
          (IF i = 0 THEN d1 ELSE IF j = 0 THEN d2 ELSE IF T(1, i).name # T(2, j).name THEN d3
           ELSE IF T(1, i).label # T(2, j).label THEN d4
           ELSE IF ~is_same_value_type(T(1, i), T(2, j), s) THEN d5 ELSE d6)
    BY Zenon DEF diff_nodes
  <2> HIDE DEF d1, d2, d3, d4, d5, d6, i, j
  <2> QED
    BY <2>1
<1>2. \A d \in {d1, d2, d3, d4, d5, d6} : d.next \in {"into", "over"}
  <2>1. d1.next = "over" /\ d2.next = "over" /\ d3.next = "over"
    BY Zenon
  <2>2. d4.next = "into" /\ d5.next = "into" /\ d6.next = "into"
    BY Zenon
  <2> HIDE DEF d1, d2, d3, d4, d5, d6
  <2> QED
    BY <2>1, <2>2
<1> HIDE DEF d1, d2, d3, d4, d5, d6
<1> QED
  BY <1>1, <1>2 DEF Step

\* Every step keeps the invariant of the traversal.
LEMMA NextKeeps ==
  ASSUME TraversalInv, [Next]_vars
  PROVE  TraversalInv'
<1>1. CASE AnyPre
  <2>1. PICK answer \in Step : Pre(answer) /\ graph' = graph
    BY <1>1 DEF AnyPre
  <2> QED
    BY <2>1, PreKeeps
<1>2. CASE SamePre
  <2>1. PICK answer \in Step : Pre(answer) /\ graph' = graph
    BY <1>2 DEF SamePre, Step
  <2> QED
    BY <2>1, PreKeeps
<1>3. CASE DiffPre
  <2> DEFINE answer == diff_nodes(nodes(stack), visitor.strict, visitor.comp).next
  <2>1. Pre(answer) /\ graph' = graph
    BY <1>3 DEF DiffPre
  <2>2. answer \in Step
    BY DiffAnswer
  <2> HIDE DEF answer
  <2> QED
    BY <2>1, <2>2, PreKeeps
<1>4. CASE Post /\ graph' = graph
  BY <1>4, PostKeeps
<1>5. CASE Done /\ graph' = graph
  BY <1>5, DoneKeeps
<1>6. CASE Unwind /\ graph' = graph
  BY <1>6, UnwindKeeps
<1>7. CASE UNCHANGED vars
  <2>1. UNCHANGED <<graph, stack, calls, steps, found, built, phase>>
    BY <1>7 DEF vars, traversal
  <2> QED
    BY <2>1 DEF TraversalInv, Shape, Searching, Unwinding, Ended, FoundIn
<1> QED
  BY <1>1, <1>2, <1>3, <1>4, <1>5, <1>6, <1>7 DEF Next, Returned

\* What the invariant says of a traversal that has ended.
LEMMA TraversalExact ==
  ASSUME TraversalInv
  PROVE  CallsOfRecursion /\ BuiltOfRecursion
<1> SUFFICES ASSUME phase = "done" PROVE CallsOfRecursion /\ BuiltOfRecursion
  BY DEF CallsOfRecursion, BuiltOfRecursion
<1> DEFINE stop == found # << >>
           r == VisitRoots(steps)
<1>1. /\ Ended(graph, calls, steps, built, stop) /\ (found = << >> \/ FoundIn(found, calls))
      /\ steps \in Seq(Step) /\ Sequence(built) /\ Sequence(calls)
  BY DEF TraversalInv, Shape
<1>2. Upto(steps, steps)
  <2>1. Len(steps) \in Nat
    BY <1>1, LenProperties
  <2> QED
    BY <2>1 DEF Upto
<1>3. r = Result(calls, Len(steps) + 1, stop, built[1]) /\ Len(built) = 1
  BY <1>1, <1>2 DEF Ended, VisitRoots, VisitOf
<1>4. r.calls = calls /\ r.left = Len(steps) + 1 /\ r.stop = stop /\ r.trees = built[1]
  BY <1>3, ResultFields
<1> HIDE DEF r
<1>5. \A n \in ToSet(found) : \E i \in DOMAIN calls : calls[i][1] = "pre" /\ Last(calls[i][2]) = n
  <2>1. CASE found = << >>
    BY <2>1 DEF ToSet
  <2>2. CASE FoundIn(found, calls)
    <3>1. PICK n : found = <<n>> /\ \E i \in 1 .. Len(calls) : calls[i][1] = "pre" /\ Last(calls[i][2]) = n
      BY <2>2 DEF FoundIn
    <3>2. ToSet(found) = {n}
      BY <3>1 DEF ToSet
    <3>3. DOMAIN calls = 1 .. Len(calls)
      BY <1>1 DEF Sequence
    <3> QED
      BY <3>1, <3>2, <3>3
  <2> QED
    BY <1>1, <2>1, <2>2
<1>6. CallsOfRecursion
  BY <1>4, <1>5 DEF CallsOfRecursion, r
<1>7. built = <<r.trees>>
  <2>1. built \in Seq(ToSet(built)) /\ Len(built) = 1 /\ built[1] = r.trees
    BY <1>1, <1>3, <1>4 DEF Sequence
  <2> QED
    BY <2>1
<1>8. BuiltOfRecursion
  BY <1>7 DEF BuiltOfRecursion, r
<1> QED
  BY <1>6, <1>8

-----------------------------------------------------------------------------
(***************************************************************************)
(* The pairs of nodes of two trees are a graph                             *)
(***************************************************************************)

\* The order of the siblings K of a tree t.
ByName(t, K) == {p \in K \X K : p[1] = p[2] \/ less_by_name(t[p[1]], t[p[2]])}

\* Siblings are ordered by their names.
LEMMA NamesOrder ==
  ASSUME NEW t, NEW K, \A a \in K : t[a].name \in Int \X Int,
         \A a, b \in K : t[a].name = t[b].name => a = b
  PROVE  TotalOrder(ByName(t, K), K)
<1> DEFINE f(a) == t[a].name[1]
           h(a) == t[a].name[2]
<1>1. \A a \in K : f(a) \in Int /\ h(a) \in Int
  OBVIOUS
<1>2. \A a, b \in K : f(a) = f(b) /\ h(a) = h(b) => a = b
  <2> TAKE a, b \in K
  <2>1. t[a].name = <<f(a), h(a)>> /\ t[b].name = <<f(b), h(b)>>
    OBVIOUS
  <2> QED
    BY <2>1
<1>3. \A a, b \in K : <<a, b>> \in ByName(t, K) <=>
                        a = b \/ f(a) < f(b) \/ (f(a) = f(b) /\ h(a) < h(b))
  BY DEF ByName, less_by_name
<1> HIDE DEF f, h
<1>4. \A a, b \in K : <<a, b>> \in ByName(t, K) \/ <<b, a>> \in ByName(t, K)
  <2> TAKE a, b \in K
  <2>1. f(a) \in Int /\ f(b) \in Int /\ h(a) \in Int /\ h(b) \in Int
    BY <1>1
  <2>2. \/ a = b \/ f(a) < f(b) \/ (f(a) = f(b) /\ h(a) < h(b))
        \/ b = a \/ f(b) < f(a) \/ (f(b) = f(a) /\ h(b) < h(a))
    BY <1>2, <2>1
  <2> QED
    BY <1>3, <2>2
<1>5. \A a, b \in K : <<a, b>> \in ByName(t, K) /\ <<b, a>> \in ByName(t, K) => a = b
  BY <1>1, <1>2, <1>3
<1>6. \A a, b, c \in K : <<a, b>> \in ByName(t, K) /\ <<b, c>> \in ByName(t, K) => <<a, c>> \in ByName(t, K)
  BY <1>1, <1>2, <1>3
<1> QED
  BY <1>4, <1>5, <1>6 DEF TotalOrder

\* The children of a node in the order of their names.
SortedKids(t, i, s) ==
  /\ s \in [1 .. Len(t[i].kids) -> ToSet(t[i].kids)]
  /\ \A k, l \in 1 .. Len(t[i].kids) : k < l => less_by_name(t[s[k]], t[s[l]])

\* There is such an order.
LEMMA ChildrenSorted ==
  ASSUME NEW t, IsTree(t), NEW i \in 1 .. Len(t)
  PROVE  /\ SortedKids(t, i, _get_sorted_children(t, i))
         /\ ToSet(t[i].kids) \in SUBSET (1 .. Len(t)) /\ Len(t[i].kids) \in Nat
         /\ IsFiniteSet(ToSet(t[i].kids)) /\ Cardinality(ToSet(t[i].kids)) = Len(t[i].kids)
<1>0. i # 0
  BY DEF IsTree
<1> DEFINE kids == t[i].kids
           K == ToSet(kids)
           n == Len(kids)
           R == ByName(t, K)
           Sorted(s) == \A k, l \in DOMAIN s : k < l => less_by_name(t[s[k]], t[s[l]])
<1>1. /\ i \in 1 .. Len(t) /\ kids \in Seq(1 .. Len(t)) /\ IsInjective(kids)
      /\ \A a, b \in K : t[a].name = t[b].name => a = b
      /\ Len(t) \in Nat
  BY DEF IsTree
<1>2. kids \in [1 .. n -> 1 .. Len(t)] /\ DOMAIN kids = 1 .. n /\ n \in Nat
  BY <1>1, LenProperties
<1>3. K \in SUBSET (1 .. Len(t)) /\ \A a \in K : \E k \in 1 .. n : kids[k] = a
  BY <1>2 DEF ToSet
<1>4. \A a \in K : t[a].name \in Int \X Int
  BY <1>3 DEF IsTree
<1>5. TotalOrder(R, K)
  BY <1>1, <1>4, NamesOrder
<1>6. IsFiniteSet(K) /\ Cardinality(K) = n
  <2>1. kids \in [1 .. n -> K]
    BY <1>2 DEF ToSet
  <2>2. kids \in Surjection(1 .. n, K)
    BY <1>3, <2>1 DEF Surjection
  <2>3. kids \in Injection(1 .. n, K)
    BY <1>1, <2>1 DEF Injection
  <2> HIDE DEF kids, K, n
  <2>4. IsFiniteSet(1 .. n) /\ Cardinality(1 .. n) = n
    BY <1>2, FS_Interval
  <2> QED
    BY <2>2, <2>3, <2>4, FS_Surjection
<1> HIDE DEF kids, K, n
<1>7. /\ \A a \in 1 .. n : \E z \in K : Cardinality(UpTo(R, K, z)) = a
  <2> HIDE DEF R
  <2> QED
    BY <1>5, <1>6, RankIsOnto
<1> DEFINE s == [k \in 1 .. n |-> CHOOSE z \in K : Cardinality(UpTo(R, K, z)) = k]
<1>8. s \in [1 .. n -> K] /\ \A k \in 1 .. n : Cardinality(UpTo(R, K, s[k])) = k
  <2> HIDE DEF R
  <2> QED
    BY <1>7
<1> HIDE DEF s
<1>9. ASSUME NEW k \in 1 .. n, NEW l \in 1 .. n, k < l PROVE less_by_name(t[s[k]], t[s[l]])
  <2>0. s[k] \in K /\ s[l] \in K
    BY <1>8
  <2>1. ASSUME <<s[l], s[k]>> \in R PROVE FALSE
    <3>1. UpTo(R, K, s[l]) \in SUBSET UpTo(R, K, s[k])
      <4> HIDE DEF R
      <4> QED
        BY <1>5, <2>0, <2>1 DEF UpTo, TotalOrder
    <3>2. IsFiniteSet(UpTo(R, K, s[k]))
      BY <1>6, FS_Subset DEF UpTo
    <3>3. Cardinality(UpTo(R, K, s[l])) <= Cardinality(UpTo(R, K, s[k]))
      <4> HIDE DEF R
      <4> QED
        BY <3>1, <3>2, FS_Subset
    <3> QED
      BY <1>8, <1>9, <3>3
  <2>2. <<s[k], s[l]>> \in R
    <3> HIDE DEF R
    <3> QED
      BY <1>5, <2>0, <2>1 DEF TotalOrder
  <2>3. s[k] # s[l]
    BY <1>2, <1>8, <1>9
  <2> QED
    BY <2>2, <2>3 DEF ByName
<1>10. s \in [1 .. n -> K] /\ Sorted(s)
  <2>1. DOMAIN s = 1 .. n
    BY <1>8
  <2> QED
    BY <1>8, <1>9, <2>1
<1>11. _get_sorted_children(t, i) = CHOOSE r \in [1 .. n -> K] : Sorted(r)
  BY <1>0, <1>2 DEF _get_sorted_children, kids, K
<1> HIDE DEF Sorted
<1>12. _get_sorted_children(t, i) \in [1 .. n -> K]
  BY <1>10, <1>11
<1>13. \A r \in [1 .. n -> K] : Sorted(r) => \A k, l \in 1 .. n : k < l => less_by_name(t[r[k]], t[r[l]])
  BY DEF Sorted
<1>14. Sorted(_get_sorted_children(t, i))
  BY <1>10, <1>11
<1>15. SortedKids(t, i, _get_sorted_children(t, i))
  BY <1>12, <1>13, <1>14 DEF SortedKids, n, K, kids
<1> QED
  BY <1>2, <1>3, <1>6, <1>15 DEF n, K, kids

\* The children of a node, sorted, are nodes.
LEMMA SortedChildren ==
  ASSUME NEW t, IsTree(t), NEW i \in 0 .. Len(t)
  PROVE  _get_sorted_children(t, i) \in Seq(1 .. Len(t))
<1>1. CASE i = 0
  BY <1>1 DEF _get_sorted_children
<1>2. CASE i # 0
  <2>1. i \in 1 .. Len(t)
    BY <1>2 DEF IsTree
  <2>2. /\ SortedKids(t, i, _get_sorted_children(t, i))
        /\ ToSet(t[i].kids) \in SUBSET (1 .. Len(t)) /\ Len(t[i].kids) \in Nat
    BY <2>1, ChildrenSorted
  <2>3. _get_sorted_children(t, i) \in [1 .. Len(t[i].kids) -> 1 .. Len(t)]
    BY <2>2 DEF SortedKids
  <2> QED
    BY <2>2, <2>3
<1> QED
  BY <1>1, <1>2

\* Where the merge of two sequences can be, one step of it, what is left to do, and its results.
MergePlaces(x, y) == (1 .. Len(x) + 1) \X (1 .. Len(y) + 1)
MergeBody(m, x, y, t, u, at) ==
  IF at[1] > Len(x) \/ at[2] > Len(y)
  THEN [inter |-> << >>, diff_x |-> SubSeq(x, at[1], Len(x)), diff_y |-> SubSeq(y, at[2], Len(y))]
  ELSE IF less_by_name(t[x[at[1]]], u[y[at[2]]])
  THEN [m[<<at[1] + 1, at[2]>>] EXCEPT !.diff_x = <<x[at[1]]>> \o @]
  ELSE IF less_by_name(u[y[at[2]]], t[x[at[1]]])
  THEN [m[<<at[1], at[2] + 1>>] EXCEPT !.diff_y = <<y[at[2]]>> \o @]
  ELSE [m[<<at[1] + 1, at[2] + 1>>] EXCEPT !.inter = << <<x[at[1]], y[at[2]]>> >> \o @]
IsMerge(m, x, y, t, u) == m = [at \in MergePlaces(x, y) |-> MergeBody(m, x, y, t, u, at)]
MergeLeft(x, y, at) == (Len(x) + 1 - at[1]) + (Len(y) + 1 - at[2])
Merged(A, B) == [inter : Seq(A \X B), diff_x : Seq(A), diff_y : Seq(B)]

\* What the merge returns, in these terms.
LEMMA MergeIs ==
  \A x, y, t, u : set_intersection_difference(x, y, t, u) = (CHOOSE m : IsMerge(m, x, y, t, u))[<<1, 1>>]
BY DEF set_intersection_difference, IsMerge, MergePlaces, MergeBody

\* One step goes on from places where less is left, and returns a result if they do.
LEMMA MergeStep ==
  ASSUME NEW A, NEW B, NEW x \in Seq(A), NEW y \in Seq(B), NEW t, NEW u, NEW m, NEW w,
         NEW at \in MergePlaces(x, y),
         \A p \in MergePlaces(x, y) : MergeLeft(x, y, p) < MergeLeft(x, y, at) =>
            m[p] \in Merged(A, B) /\ w[p] = m[p]
  PROVE  /\ MergeBody(m, x, y, t, u, at) \in Merged(A, B)
         /\ MergeBody(w, x, y, t, u, at) = MergeBody(m, x, y, t, u, at)
<1>1. PICK i \in 1 .. Len(x) + 1, j \in 1 .. Len(y) + 1 : at = <<i, j>>
  BY DEF MergePlaces
<1>2. at[1] = i /\ at[2] = j /\ Len(x) \in Nat /\ Len(y) \in Nat
  BY <1>1, LenProperties
<1> DEFINE base == [inter |-> << >>, diff_x |-> SubSeq(x, i, Len(x)), diff_y |-> SubSeq(y, j, Len(y))]
<1>3. CASE i > Len(x) \/ j > Len(y)
  <2>1. MergeBody(m, x, y, t, u, at) = base /\ MergeBody(w, x, y, t, u, at) = base
    BY <1>2, <1>3 DEF MergeBody
  <2>2. SubSeq(x, i, Len(x)) \in Seq(A) /\ SubSeq(y, j, Len(y)) \in Seq(B) /\ << >> \in Seq(A \X B)
    BY <1>2, SubSeqProperties, EmptySeq
  <2>3. base \in Merged(A, B)
    BY <2>2 DEF Merged
  <2> QED
    BY <2>1, <2>3
<1>4. CASE ~(i > Len(x) \/ j > Len(y))
  <2> DEFINE p1 == <<i + 1, j>>
             p2 == <<i, j + 1>>
             p3 == <<i + 1, j + 1>>
  <2>1. i \in 1 .. Len(x) /\ j \in 1 .. Len(y) /\ x[i] \in A /\ y[j] \in B
    <3>1. i \in 1 .. Len(x) /\ j \in 1 .. Len(y)
      BY <1>2, <1>4
    <3> QED
      BY <3>1, ElementOfSeq
  <2>2. \A p \in {p1, p2, p3} : p \in MergePlaces(x, y) /\ MergeLeft(x, y, p) < MergeLeft(x, y, at)
    <3>1. p1 \in MergePlaces(x, y) /\ p1[1] = i + 1 /\ p1[2] = j
      BY <1>2, <2>1 DEF MergePlaces
    <3>2. p2 \in MergePlaces(x, y) /\ p2[1] = i /\ p2[2] = j + 1
      BY <1>2, <2>1 DEF MergePlaces
    <3>3. p3 \in MergePlaces(x, y) /\ p3[1] = i + 1 /\ p3[2] = j + 1
      BY <1>2, <2>1, SMTT(60) DEF MergePlaces
    <3> HIDE DEF p1, p2, p3
    <3>4. /\ MergeLeft(x, y, p1) < MergeLeft(x, y, at)
          /\ MergeLeft(x, y, p2) < MergeLeft(x, y, at)
          /\ MergeLeft(x, y, p3) < MergeLeft(x, y, at)
      BY <1>2, <2>1, <3>1, <3>2, <3>3 DEF MergeLeft
    <3> QED
      BY <3>1, <3>2, <3>3, <3>4
  <2>3. \A p \in {p1, p2, p3} : m[p] \in Merged(A, B) /\ w[p] = m[p]
    <3> HIDE DEF p1, p2, p3
    <3> QED
      BY <2>2
  <2> DEFINE r1 == [m[p1] EXCEPT !.diff_x = <<x[i]>> \o @]
             r2 == [m[p2] EXCEPT !.diff_y = <<y[j]>> \o @]
             r3 == [m[p3] EXCEPT !.inter = << <<x[i], y[j]>> >> \o @]
             Chosen == IF less_by_name(t[x[i]], u[y[j]]) THEN r1
                       ELSE IF less_by_name(u[y[j]], t[x[i]]) THEN r2 ELSE r3
  <2>4. MergeBody(m, x, y, t, u, at) = Chosen
    BY <1>2, <1>4 DEF MergeBody
  <2>5. MergeBody(w, x, y, t, u, at) = Chosen
    <3>1. w[p1] = m[p1] /\ w[p2] = m[p2] /\ w[p3] = m[p3]
      BY <2>3
    <3> QED
      BY <1>2, <1>4, <3>1 DEF MergeBody
  <2>6. ASSUME NEW r \in Merged(A, B)
        PROVE  /\ [r EXCEPT !.diff_x = <<x[i]>> \o @] \in Merged(A, B)
               /\ [r EXCEPT !.diff_y = <<y[j]>> \o @] \in Merged(A, B)
               /\ [r EXCEPT !.inter = << <<x[i], y[j]>> >> \o @] \in Merged(A, B)
    <3>1. r.diff_x \in Seq(A) /\ r.diff_y \in Seq(B) /\ r.inter \in Seq(A \X B)
      BY DEF Merged
    <3>2. <<x[i]>> \o r.diff_x \in Seq(A) /\ <<y[j]>> \o r.diff_y \in Seq(B)
      BY <2>1, <3>1
    <3>3. << <<x[i], y[j]>> >> \o r.inter \in Seq(A \X B)
      <4> DEFINE e == <<x[i], y[j]>>
                 E == A \X B
      <4>1. e \in E
        BY <2>1
      <4> HIDE DEF e, E
      <4>2. r.inter \in Seq(E)
        BY <3>1 DEF E
      <4>3. <<e>> \o r.inter \in Seq(E)
        BY <4>1, <4>2
      <4> QED
        BY <4>3 DEF e, E
    <3> QED
      BY <3>2, <3>3 DEF Merged
  <2>7. r1 \in Merged(A, B) /\ r2 \in Merged(A, B) /\ r3 \in Merged(A, B)
    BY <2>3, <2>6
  <2> HIDE DEF r1, r2, r3
  <2> QED
    BY <2>4, <2>5, <2>7
<1> QED
  BY <1>3, <1>4

\* The merge exists.
LEMMA MergeExists ==
  ASSUME NEW A, NEW B, NEW x \in Seq(A), NEW y \in Seq(B), NEW t, NEW u
  PROVE  \E m : IsMerge(m, x, y, t, u)
<1> DEFINE D == MergePlaces(x, y)
           n == Len(x) + Len(y) + 1
           left(p) == MergeLeft(x, y, p)
           Upon(m, k) == \A p \in D : left(p) < k => m[p] \in Merged(A, B) /\ m[p] = MergeBody(m, x, y, t, u, p)
           Some(k) == \E m : Upon(m, k)
           Z == {k \in 0 .. n : Some(k)}
<1>1. Len(x) \in Nat /\ Len(y) \in Nat /\ n \in Nat
  BY LenProperties
<1>2. \A p \in D : left(p) \in 0 .. n - 1
  BY <1>1, SMTT(60) DEF MergePlaces, MergeLeft
<1>3. 0 \in Z
  BY <1>1, <1>2
<1>4. ASSUME NEW k \in 0 .. n - 1, k \in Z PROVE k + 1 \in Z
  <2>1. PICK m : Upon(m, k)
    BY <1>4
  <2> DEFINE w == [p \in D |-> IF left(p) < k THEN m[p] ELSE MergeBody(m, x, y, t, u, p)]
  <2>2. \A p \in D : left(p) < k => w[p] = m[p] /\ m[p] \in Merged(A, B)
    BY <2>1
  <2>3. \A p \in D : ~(left(p) < k) => w[p] = MergeBody(m, x, y, t, u, p)
    OBVIOUS
  <2> HIDE DEF w, D
  <2>4. ASSUME NEW p \in D, left(p) < k + 1
        PROVE  w[p] \in Merged(A, B) /\ w[p] = MergeBody(w, x, y, t, u, p)
    <3>1. left(p) \in Int /\ left(p) <= k
      BY <1>2, <2>4
    <3>2. \A q \in D : left(q) < left(p) => m[q] \in Merged(A, B) /\ w[q] = m[q]
      BY <1>2, <2>2, <3>1
    <3>3. /\ MergeBody(m, x, y, t, u, p) \in Merged(A, B)
          /\ MergeBody(w, x, y, t, u, p) = MergeBody(m, x, y, t, u, p)
      BY <3>2, MergeStep DEF D
    <3>4. w[p] = MergeBody(m, x, y, t, u, p)
      BY <2>1, <2>2, <2>3
    <3> QED
      BY <3>3, <3>4
  <2>5. Upon(w, k + 1)
    BY <2>4
  <2> HIDE DEF Upon
  <2> QED
    BY <1>1, <2>5
<1> HIDE DEF Z
<1>5. \A k \in 0 .. n : k \in Z
  BY <1>1, <1>3, <1>4, IntervalInduction
<1>6. n \in Z
  BY <1>1, <1>5
<1>7. PICK m : Upon(m, n)
  BY <1>6 DEF Z
<1> DEFINE w == [p \in D |-> m[p]]
<1>8. \A p \in D : w[p] = m[p] /\ m[p] \in Merged(A, B) /\ m[p] = MergeBody(m, x, y, t, u, p)
  BY <1>1, <1>2, <1>7
<1> HIDE DEF D, w
<1>9. \A p \in D : MergeBody(w, x, y, t, u, p) = MergeBody(m, x, y, t, u, p)
  BY <1>8, MergeStep DEF D
<1>10. w = [p \in D |-> MergeBody(w, x, y, t, u, p)]
  <2>1. \A p \in D : w[p] = MergeBody(w, x, y, t, u, p)
    BY <1>8, <1>9
  <2>2. w = [p \in D |-> w[p]]
    BY DEF w
  <2> QED
    BY <2>1, <2>2
<1> QED
  BY <1>10 DEF IsMerge, D

\* What two sequences have in common, in pairs, and what they have not.
LEMMA MergeResult ==
  ASSUME NEW A, NEW B, NEW x \in Seq(A), NEW y \in Seq(B), NEW t, NEW u
  PROVE  set_intersection_difference(x, y, t, u) \in Merged(A, B)
<1> DEFINE m == CHOOSE m : IsMerge(m, x, y, t, u)
           D == MergePlaces(x, y)
           n == Len(x) + Len(y) + 1
           left(p) == MergeLeft(x, y, p)
           Z == {k \in 0 .. n : \A p \in D : left(p) < k => m[p] \in Merged(A, B)}
<1>1. IsMerge(m, x, y, t, u)
  BY MergeExists
<1> HIDE DEF m
<1>2. \A p \in D : m[p] = MergeBody(m, x, y, t, u, p)
  BY <1>1 DEF IsMerge
<1>3. Len(x) \in Nat /\ Len(y) \in Nat /\ n \in Nat
  BY LenProperties
<1>4. \A p \in D : left(p) \in 0 .. n - 1
  BY <1>3 DEF MergePlaces, MergeLeft
<1>5. 0 \in Z
  BY <1>3, <1>4
<1>6. ASSUME NEW k \in 0 .. n - 1, k \in Z PROVE k + 1 \in Z
  <2>1. ASSUME NEW p \in D, left(p) < k + 1 PROVE m[p] \in Merged(A, B)
    <3> HIDE DEF D
    <3>1. \A q \in D : left(q) < left(p) => m[q] \in Merged(A, B) /\ m[q] = m[q]
      BY <1>4, <1>6, <2>1
    <3>2. MergeBody(m, x, y, t, u, p) \in Merged(A, B)
      BY <3>1, MergeStep DEF D
    <3> QED
      BY <1>2, <3>2
  <2> QED
    BY <1>3, <2>1
<1> HIDE DEF Z
<1>7. \A k \in 0 .. n : k \in Z
  BY <1>3, <1>5, <1>6, IntervalInduction
<1>8. n \in Z /\ <<1, 1>> \in D
  BY <1>3, <1>7 DEF MergePlaces
<1>9. m[<<1, 1>>] \in Merged(A, B)
  BY <1>3, <1>4, <1>8 DEF Z
<1> QED
  BY <1>9, MergeIs DEF m

\* The pairs of children are pairs of nodes, or of a node and nothing.
LEMMA ZippedLists ==
  ASSUME NEW a \in Nat, NEW b \in Nat, NEW x \in Seq(1 .. a), NEW y \in Seq(1 .. b), NEW t, NEW u
  PROVE  _zip_lists(x, y, t, u) \in Seq((0 .. a) \X (0 .. b))
<1> DEFINE r == set_intersection_difference(x, y, t, u)
           sz == IF Len(r.diff_x) < Len(r.diff_y) THEN Len(r.diff_y) ELSE Len(r.diff_x)
           value_or_none(s, i) == IF i \in DOMAIN s THEN s[i] ELSE 0
           rest == [i \in 1 .. sz |-> <<value_or_none(r.diff_x, i), value_or_none(r.diff_y, i)>>]
           E == (0 .. a) \X (0 .. b)
<1>1. r \in Merged(1 .. a, 1 .. b)
  BY MergeResult
<1>2. _zip_lists(x, y, t, u) = r.inter \o rest
  BY DEF _zip_lists
<1> HIDE DEF r
<1>3. r.diff_x \in Seq(1 .. a) /\ r.diff_y \in Seq(1 .. b) /\ r.inter \in Seq((1 .. a) \X (1 .. b))
  BY <1>1 DEF Merged
<1>4. sz \in Nat
  BY <1>3, LenProperties
<1>5. \A i \in 1 .. sz : value_or_none(r.diff_x, i) \in 0 .. a /\ value_or_none(r.diff_y, i) \in 0 .. b
  <2> TAKE i \in 1 .. sz
  <2>1. \A s, c : s \in Seq(1 .. c) /\ c \in Nat => value_or_none(s, i) \in 0 .. c
    <3> TAKE s, c
    <3> HAVE s \in Seq(1 .. c) /\ c \in Nat
    <3>1. s \in [1 .. Len(s) -> 1 .. c]
      BY LenProperties
    <3> QED
      BY <3>1
  <2> QED
    BY <1>3, <2>1
<1> HIDE DEF sz, value_or_none
<1>6. rest \in [1 .. sz -> E]
  BY <1>5
<1>7. (1 .. a) \X (1 .. b) \in SUBSET E
  OBVIOUS
<1> HIDE DEF rest, E
<1>8. rest \in Seq(E) /\ r.inter \in Seq(E)
  BY <1>3, <1>4, <1>6, <1>7
<1>9. r.inter \o rest \in Seq(E)
  BY <1>8
<1> QED
  BY <1>2, <1>9 DEF E

\* The graph of the comparison of two trees.
LEMMA ZipIsGraph ==
  ASSUME NEW t, NEW u, IsTree(t), IsTree(u)
  PROVE  IsGraph(ZipGraph(t, u))
<1> DEFINE E == (0 .. Len(t)) \X (0 .. Len(u))
           f == [ij \in E |-> _zip_lists(_get_sorted_children(t, ij[1]), _get_sorted_children(u, ij[2]), t, u)]
           g == [roots |-> << <<1, 1>> >>, forward |-> f]
<1>1. Len(t) \in Nat \ {0} /\ Len(u) \in Nat \ {0}
  BY DEF IsTree
<1>2. ASSUME NEW ij \in E
      PROVE  _zip_lists(_get_sorted_children(t, ij[1]), _get_sorted_children(u, ij[2]), t, u) \in Seq(E)
  <2>1. ij[1] \in 0 .. Len(t) /\ ij[2] \in 0 .. Len(u)
    OBVIOUS
  <2>2. /\ _get_sorted_children(t, ij[1]) \in Seq(1 .. Len(t))
        /\ _get_sorted_children(u, ij[2]) \in Seq(1 .. Len(u))
    BY <2>1, SortedChildren
  <2> QED
    BY <1>1, <2>2, ZippedLists
<1>3. <<1, 1>> \in E
  BY <1>1
<1> HIDE DEF E
<1>4. f \in [E -> Seq(E)]
  BY <1>2
<1>5. ZipGraph(t, u) = g
  BY DEF ZipGraph, E
<1>6. g.forward = f /\ g.roots = << <<1, 1>> >>
  OBVIOUS
<1> HIDE DEF f, g
<1>7. << <<1, 1>> >> \in Seq(E)
  <2> DEFINE e == <<1, 1>>
  <2> HIDE DEF e
  <2>1. <<e>> \in Seq(E)
    BY <1>3 DEF e
  <2> QED
    BY <2>1 DEF e
<1>8. DOMAIN g.forward = E
  BY <1>4, <1>6
<1> QED
  BY <1>4, <1>5, <1>6, <1>7, <1>8 DEF IsGraph

\* The graphs of the initial states are graphs.
LEMMA InitIsGraph ==
  ASSUME Init
  PROVE  IsGraph(graph)
<1>1. CASE graph \in Dags
  BY <1>1, DagsAssumption
<1>2. CASE trees \in Pairs /\ graph = ZipGraph(trees[1], trees[2])
  <2>1. IsTree(trees[1]) /\ IsTree(trees[2])
    BY <1>2, PairsAssumption
  <2> QED
    BY <1>2, <2>1, ZipIsGraph
<1> QED
  BY <1>1, <1>2 DEF Init

-----------------------------------------------------------------------------
(***************************************************************************)
(* Sequences one after the other: where each of them starts                *)
(***************************************************************************)

\* The k-th of the sequences of s, none of them empty, starts after b[k - 1] entries.
Starts(b, s, n) ==
  /\ b[0] = 0
  /\ \A k \in 1 .. n : Len(s[k]) \in Nat \ {0} /\ b[k] = b[k - 1] + Len(s[k])

\* The same one step at a time.
LEMMA StartsStep ==
  ASSUME NEW n \in Nat, NEW b, NEW s, Starts(b, s, n), NEW k \in 0 .. n - 1
  PROVE  Len(s[k + 1]) \in Nat \ {0} /\ b[k + 1] = b[k] + Len(s[k + 1])
<1> DEFINE j == k + 1
<1>1. j \in 1 .. n /\ j - 1 = k
  OBVIOUS
<1> HIDE DEF j
<1>2. Len(s[j]) \in Nat \ {0} /\ b[j] = b[j - 1] + Len(s[j])
  BY <1>1 DEF Starts
<1> QED
  BY <1>1, <1>2 DEF j

\* The starts are numbers that increase.
LEMMA StartsIncrease ==
  ASSUME NEW n \in Nat, NEW b, NEW s, Starts(b, s, n)
  PROVE  /\ \A k \in 0 .. n : b[k] \in Nat
         /\ \A k, l \in 0 .. n : k <= l => b[k] <= b[l]
<1> DEFINE Reached == {m \in 0 .. n : b[m] \in Nat /\ \A k \in 0 .. m : b[k] \in Nat /\ b[k] <= b[m]}
<1>1. 0 \in Reached
  BY DEF Starts
<1>2. ASSUME NEW m \in 0 .. n - 1, m \in Reached PROVE m + 1 \in Reached
  <2>1. Len(s[m + 1]) \in Nat \ {0} /\ b[m + 1] = b[m] + Len(s[m + 1])
    BY StartsStep
  <2>2. b[m + 1] \in Nat /\ b[m] <= b[m + 1]
    BY <1>2, <2>1
  <2>3. \A k \in 0 .. m + 1 : k \in 0 .. m \/ k = m + 1
    OBVIOUS
  <2>4. \A k \in 0 .. m + 1 : b[k] \in Nat /\ b[k] <= b[m + 1]
    BY <1>2, <2>2, <2>3
  <2> QED
    BY <2>2, <2>4
<1> HIDE DEF Reached
<1>3. \A m \in 0 .. n : m \in Reached
  BY <1>1, <1>2, IntervalInduction
<1>4. \A l \in 0 .. n : \A k \in 0 .. l : b[k] <= b[l]
  BY <1>3 DEF Reached
<1> QED
  BY <1>3, <1>4 DEF Reached

\* Every index is in one of the sequences.
LEMMA StartsCover ==
  ASSUME NEW n \in Nat, NEW b, NEW s, Starts(b, s, n), NEW x \in 1 .. b[n]
  PROVE  \E k \in 1 .. n : \E j \in 1 .. Len(s[k]) : x = b[k - 1] + j
<1>1. \A k \in 0 .. n : b[k] \in Nat
  BY StartsIncrease
<1> DEFINE Reached == {k \in 0 .. n : x <= b[k]}
<1>2. Reached \in SUBSET Nat /\ n \in Reached
  BY <1>1
<1> HIDE DEF Reached
<1>3. PICK k \in Reached : \A y \in Reached : k <= y
  BY <1>2, LeastNat
<1>4. k \in 1 .. n /\ x <= b[k]
  <2>1. k \in 0 .. n /\ x <= b[k] /\ b[0] = 0 /\ x > 0
    BY <1>1, <1>3 DEF Reached, Starts
  <2> QED
    BY <2>1
<1>5. k - 1 \in 0 .. n /\ k - 1 \notin Reached
  BY <1>3, <1>4
<1>6. b[k - 1] < x /\ b[k - 1] \in Nat /\ Len(s[k]) \in Nat /\ b[k] = b[k - 1] + Len(s[k])
  BY <1>1, <1>4, <1>5 DEF Reached, Starts
<1> DEFINE j == x - b[k - 1]
<1>7. j \in 1 .. Len(s[k]) /\ x = b[k - 1] + j
  BY <1>1, <1>4, <1>6, SMTT(60)
<1> QED
  BY <1>4, <1>7

\* And in only one.
LEMMA StartsApart ==
  ASSUME NEW n \in Nat, NEW b, NEW s, Starts(b, s, n), NEW k \in 1 .. n, NEW l \in 1 .. n,
         NEW i \in 1 .. Len(s[k]), NEW j \in 1 .. Len(s[l]), b[k - 1] + i = b[l - 1] + j
  PROVE  k = l /\ i = j
<1>1. \A m \in 1 .. n : /\ b[m] \in Nat /\ b[m - 1] \in Nat /\ Len(s[m]) \in Nat
                        /\ b[m] = b[m - 1] + Len(s[m])
  <2> TAKE m \in 1 .. n
  <2>1. m \in 0 .. n /\ m - 1 \in 0 .. n
    OBVIOUS
  <2> QED
    BY <2>1, StartsIncrease DEF Starts
<1>5. /\ b[k] \in Nat /\ b[k - 1] \in Nat /\ Len(s[k]) \in Nat /\ b[k] = b[k - 1] + Len(s[k])
      /\ b[l] \in Nat /\ b[l - 1] \in Nat /\ Len(s[l]) \in Nat /\ b[l] = b[l - 1] + Len(s[l])
      /\ i \in Nat \ {0} /\ j \in Nat \ {0} /\ i <= Len(s[k]) /\ j <= Len(s[l])
  BY <1>1, SMTT(60)
<1>2. ASSUME k < l PROVE FALSE
  <2>1. k \in 0 .. n /\ l - 1 \in 0 .. n /\ k <= l - 1
    BY <1>2
  <2>2. b[k] <= b[l - 1]
    BY <2>1, StartsIncrease
  <2> DEFINE v == b[k - 1]
             w == b[l - 1]
  <2>3. v \in Nat /\ w \in Nat /\ v + i = w + j /\ b[k] = v + Len(s[k]) /\ b[k] <= w
    BY <1>5, <2>2
  <2> HIDE DEF v, w
  <2> QED
    BY <1>5, <2>3
<1>3. ASSUME l < k PROVE FALSE
  <2>1. l \in 0 .. n /\ k - 1 \in 0 .. n /\ l <= k - 1
    BY <1>3
  <2>2. b[l] <= b[k - 1]
    BY <2>1, StartsIncrease
  <2> DEFINE v == b[k - 1]
             w == b[l - 1]
  <2>3. v \in Nat /\ w \in Nat /\ v + i = w + j /\ b[l] = w + Len(s[l]) /\ b[l] <= v
    BY <1>5, <2>2
  <2> HIDE DEF v, w
  <2> QED
    BY <1>5, <2>3
<1>4. k = l
  BY <1>2, <1>3
<1> QED
  BY <1>1, <1>4

\* c is the sequences of s one after the other.
Laid(c, s, b, n) ==
  /\ Sequence(c) /\ Len(c) = b[n]
  /\ \A k \in 1 .. n : \A j \in 1 .. Len(s[k]) : c[b[k - 1] + j] = s[k][j]

\* A place of an interval that begins after p stays below its end.
LEMMA WithinSum ==
  ASSUME NEW p \in Nat, NEW l \in Nat, NEW q \in Nat, p + l <= q, NEW j \in 1 .. l
  PROVE  p + j \in 1 .. q
OBVIOUS

\* One more sequence after the others.
LEMMA LaidMore ==
  ASSUME NEW n \in Nat, NEW b, NEW s, Starts(b, s, n), NEW i \in 0 .. n - 1, NEW c, Laid(c, s, b, i),
         Sequence(s[i + 1])
  PROVE  Laid(Join(c, s[i + 1]), s, b, i + 1)
<1> DEFINE d == s[i + 1]
           e == Join(c, d)
<1>1. /\ Sequence(e) /\ Len(e) = Len(c) + Len(d) /\ Len(c) \in Nat /\ Len(d) \in Nat
      /\ Len(c) = b[i] /\ b[i + 1] = b[i] + Len(d)
  <2>1. Sequence(c) /\ Len(c) = b[i]
    BY DEF Laid
  <2>2. b[i + 1] = b[i] + Len(d)
    BY StartsStep
  <2> QED
    BY <2>1, <2>2, Concatenation
<1>2. /\ \A k \in 1 .. Len(c) : e[k] = c[k]
      /\ \A k \in 1 .. Len(d) : e[Len(c) + k] = d[k]
  <2>1. Sequence(c) /\ Sequence(d)
    BY DEF Laid
  <2>2. PICK S : c \in Seq(S) /\ d \in Seq(S)
    BY <2>1, CommonSet
  <2> HIDE DEF d, e
  <2>3. \A k \in 1 .. Len(c) + Len(d) : e[k] = IF k <= Len(c) THEN c[k] ELSE d[k - Len(c)]
    BY <2>2, ConcatProperties DEF Join, e
  <2>4. \A k \in 1 .. Len(c) : k \in 1 .. Len(c) + Len(d) /\ k <= Len(c)
    BY <1>1
  <2>5. \A k \in 1 .. Len(d) : /\ Len(c) + k \in 1 .. Len(c) + Len(d) /\ ~(Len(c) + k <= Len(c))
                              /\ (Len(c) + k) - Len(c) = k
    BY <1>1, SMTT(60)
  <2>6. \A k \in 1 .. Len(d) : e[Len(c) + k] = d[(Len(c) + k) - Len(c)]
    BY <2>3, <2>5
  <2>7. \A k \in 1 .. Len(d) : e[Len(c) + k] = d[k]
    BY <2>5, <2>6
  <2> QED
    BY <2>3, <2>4, <2>7
<1> HIDE DEF e
<1>3. ASSUME NEW k \in 1 .. i + 1, NEW j \in 1 .. Len(s[k]) PROVE e[b[k - 1] + j] = s[k][j]
  <2>1. CASE k \in 1 .. i
    <3>1. c[b[k - 1] + j] = s[k][j]
      BY <2>1 DEF Laid
    <3>2. b[k - 1] + j \in 1 .. Len(c)
      <4>1. k \in 1 .. n /\ k - 1 \in 0 .. n /\ k \in 0 .. n /\ i \in 0 .. n /\ k <= i
        BY <2>1
      <4>2. b[k - 1] \in Nat /\ b[k] = b[k - 1] + Len(s[k]) /\ Len(s[k]) \in Nat /\ b[k] <= b[i] /\ b[i] \in Nat
        BY <4>1, StartsIncrease DEF Starts
      <4>3. b[k - 1] + Len(s[k]) <= Len(c) /\ Len(c) \in Nat
        BY <1>1, <4>2, SMTT(60)
      <4> QED
        BY <4>2, <4>3, WithinSum, SMTT(60)
    <3> QED
      BY <1>2, <3>1, <3>2
  <2>2. CASE k = i + 1
    <3>1. k - 1 = i /\ s[k] = d
      BY <2>2
    <3> HIDE DEF d
    <3>2. e[b[k - 1] + j] = d[j]
      BY <1>1, <1>2, <3>1
    <3> QED
      BY <3>1, <3>2
  <2> QED
    BY <2>1, <2>2
<1>4. Laid(e, s, b, i + 1)
  BY <1>1, <1>3 DEF Laid
<1> QED
  BY <1>4 DEF e

\* The concatenation by FlattenSeq, in these terms.
IsFlatten(u, s) == u = [i \in 1 .. Len(s) |-> IF i = 1 THEN s[i] ELSE u[i - 1] \o s[i]]

\* FlattenSeq is given by such a function.
LEMMA FlattenIs ==
  \A s : FlattenSeq(s) = IF Len(s) = 0 THEN s ELSE (CHOOSE u : IsFlatten(u, s))[Len(s)]
BY DEF FlattenSeq, IsFlatten

\* It exists.
LEMMA FlattenExists ==
  ASSUME NEW s, Sequence(s), \A k \in 1 .. Len(s) : Sequence(s[k])
  PROVE  \E u : IsFlatten(u, s)
<1> DEFINE n == Len(s)
           A == UNION {ToSet(s[k]) : k \in 1 .. n}
<1>1. n \in Nat
  BY LenProperties DEF Sequence
<1>2. AllSeq(s, n, A)
  <2>1. \A k \in 1 .. n : s[k] \in Seq(A)
    <3> TAKE k \in 1 .. n
    <3>1. ToSet(s[k]) \in SUBSET A /\ Sequence(s[k])
      OBVIOUS
    <3> HIDE DEF A
    <3> QED
      BY <3>1, SequenceOver
  <2> QED
    BY <2>1 DEF AllSeq
<1> HIDE DEF A, n
<1>3. PICK w : IsCat(w, s, n)
  BY <1>1, <1>2, CatExists
<1>4. w[0] = << >> /\ \A i \in 0 .. n - 1 : w[i + 1] = w[i] \o s[i + 1]
  <2>1. CatSteps(w, s, n)
    BY <1>1, <1>2, <1>3, CatFacts
  <2> QED
    BY <2>1 DEF CatSteps
<1> DEFINE u == [i \in 1 .. n |-> w[i]]
<1>5. ASSUME NEW i \in 1 .. n PROVE w[i] = IF i = 1 THEN s[i] ELSE u[i - 1] \o s[i]
  <2> DEFINE k == i - 1
  <2>1. k \in 0 .. n - 1 /\ k + 1 = i
    BY <1>1
  <2> HIDE DEF k
  <2>2. w[i] = w[k] \o s[i]
    BY <1>4, <2>1
  <2>3. CASE i = 1
    <3>1. k = 0
      BY <2>1, <2>3
    <3>2. s[i] \in Seq(A)
      BY <1>2 DEF AllSeq
    <3>3. << >> \o s[i] = s[i]
      BY <3>2, ConcatEmptySeq
    <3> QED
      BY <1>4, <2>2, <2>3, <3>1, <3>3
  <2>4. CASE i # 1
    <3>1. i - 1 \in 1 .. n /\ i - 1 = k
      BY <1>1, <2>1, <2>4
    <3> QED
      BY <2>2, <2>4, <3>1
  <2> QED
    BY <2>3, <2>4
<1>6. u = [i \in 1 .. n |-> IF i = 1 THEN s[i] ELSE u[i - 1] \o s[i]]
  <2>1. \A i \in 1 .. n : u[i] = IF i = 1 THEN s[i] ELSE u[i - 1] \o s[i]
    BY <1>5
  <2>2. u = [i \in 1 .. n |-> u[i]]
    OBVIOUS
  <2> HIDE DEF u
  <2> QED
    BY <2>1, <2>2
<1> QED
  BY <1>6 DEF IsFlatten, n

\* It is the sequences one after the other.
LEMMA Flattened ==
  ASSUME NEW s, Sequence(s), \A k \in 1 .. Len(s) : Sequence(s[k]), NEW b, Starts(b, s, Len(s))
  PROVE  Laid(FlattenSeq(s), s, b, Len(s))
<1> DEFINE n == Len(s)
           u == CHOOSE u : IsFlatten(u, s)
<1>1. n \in Nat /\ b[0] = 0
  BY LenProperties DEF Sequence, Starts
<1>2. CASE n = 0
  <2>1. FlattenSeq(s) = s
    BY <1>2, FlattenIs
  <2>2. \A k \in 1 .. n : FALSE
    BY <1>2
  <2> QED
    BY <1>1, <1>2, <2>1, <2>2 DEF Laid
<1>3. CASE n # 0
  <2>1. IsFlatten(u, s)
    BY FlattenExists
  <2> HIDE DEF u
  <2>2. \A i \in 1 .. n : u[i] = IF i = 1 THEN s[i] ELSE u[i - 1] \o s[i]
    BY <2>1 DEF IsFlatten
  <2> DEFINE Reached == {i \in 0 .. n : i = 0 \/ Laid(u[i], s, b, i)}
  <2> HIDE DEF n
  <2>3. 0 \in Reached
    BY <1>1
  <2>4. ASSUME NEW i \in 0 .. n - 1, i \in Reached PROVE i + 1 \in Reached
    <3>1. i + 1 \in 1 .. n /\ i + 1 \in 0 .. n /\ (i + 1) - 1 = i
      BY <1>1
    <3>2. Sequence(s[i + 1]) /\ Starts(b, s, n)
      BY <3>1 DEF n
    <3>3. CASE i = 0
      <4>1. u[i + 1] = s[i + 1]
        BY <2>2, <3>1, <3>3
      <4>2. Laid(<< >>, s, b, 0)
        <5>1. Sequence(<< >>) /\ Len(<< >>) = 0
          BY ShortSequences
        <5> QED
          BY <1>1, <5>1 DEF Laid
      <4>3. Laid(Join(<< >>, s[i + 1]), s, b, i + 1)
        BY <1>1, <3>2, <3>3, <4>2, LaidMore
      <4>4. Join(<< >>, s[i + 1]) = s[i + 1]
        BY <3>2, Concatenation
      <4>5. Laid(u[i + 1], s, b, i + 1)
        BY <4>1, <4>3, <4>4
      <4> QED
        BY <3>1, <4>5
    <3>4. CASE i # 0
      <4> DEFINE j == i + 1
      <4>0. j \in 1 .. n /\ j # 1 /\ j - 1 = i
        BY <3>1, <3>4
      <4> HIDE DEF j
      <4>5. u[j] = u[j - 1] \o s[j]
        BY <2>2, <4>0
      <4>1. u[i + 1] = Join(u[i], s[i + 1])
        BY <4>0, <4>5 DEF Join, j
      <4>2. Laid(u[i], s, b, i)
        BY <2>4, <3>4
      <4>3. Laid(Join(u[i], s[i + 1]), s, b, i + 1)
        BY <1>1, <3>2, <4>2, LaidMore
      <4>4. Laid(u[i + 1], s, b, i + 1)
        BY <4>1, <4>3
      <4> QED
        BY <3>1, <4>4
    <3> QED
      BY <3>3, <3>4
  <2> HIDE DEF Reached
  <2>5. \A i \in 0 .. n : i \in Reached
    BY <1>1, <2>3, <2>4, IntervalInduction
  <2>6. Laid(u[n], s, b, n)
    BY <1>1, <1>3, <2>5 DEF Reached
  <2>7. FlattenSeq(s) = u[n]
    BY <1>3, FlattenIs DEF u, n
  <2> QED
    BY <2>6, <2>7 DEF n
<1> QED
  BY <1>2, <1>3

-----------------------------------------------------------------------------
(***************************************************************************)
(* The lists of fb_tree_ctor                                               *)
(***************************************************************************)

\* An entry of a list.
Entry(v, b, f) == [value |-> v, backward |-> b, forward |-> f]
IsEntry(e) == e = Entry(e.value, e.backward, e.forward) /\ Sequence(e.forward)
MovedEntry(e, o, b) == Entry(e.value, b, [q \in DOMAIN e.forward |-> e.forward[q] + o])

\* A list under a parent numbered i, and put after o entries.
RootedList(sub, i) == [sub EXCEPT ![Len(sub)].backward = <<i>>]
MovedList(sub, i, o) == [j \in DOMAIN RootedList(sub, i) |-> Shifted(RootedList(sub, i)[j], o)]

\* How many entries are before the ones of each list.
IsBefore(m, subs) == m = [j \in 0 .. Len(subs) |-> IF j = 0 THEN 0 ELSE Len(subs[j]) + m[j - 1]]
BeforeOf(subs, k) == (CHOOSE m : IsBefore(m, subs))[k]

\* The list of a node, in these terms.
LEMMA CtorIs ==
  \A node, subs, i : fb_tree_ctor(node, subs, i) =
    FlattenSeq([k \in DOMAIN subs |-> MovedList(subs[k], i, BeforeOf(subs, k - 1))])
      \o << Entry(node, << >>, [k \in DOMAIN subs |-> BeforeOf(subs, k) - 1]) >>
BY DEF fb_tree_ctor, Entry, MovedList, RootedList, BeforeOf, IsBefore

\* The fields of an entry.
LEMMA EntryFields ==
  ASSUME NEW v, NEW b, NEW f
  PROVE  Entry(v, b, f).value = v /\ Entry(v, b, f).backward = b /\ Entry(v, b, f).forward = f
BY DEF Entry

\* An entry moved.
LEMMA EntryMoved ==
  ASSUME NEW e, IsEntry(e), NEW o, NEW i
  PROVE  /\ Shifted(e, o) = MovedEntry(e, o, e.backward)
         /\ Shifted([e EXCEPT !.backward = <<i>>], o) = MovedEntry(e, o, <<i>>)
<1> DEFINE v == e.value
           b == e.backward
           f == e.forward
           F == [q \in DOMAIN f |-> f[q] + o]
<1>1. e = Entry(v, b, f)
  BY DEF IsEntry
<1>2. \A w, c, h : [Entry(w, c, h) EXCEPT !.forward = F] = Entry(w, c, F)
  BY DEF Entry
<1>3. [e EXCEPT !.backward = <<i>>] = Entry(v, <<i>>, f)
  <2> HIDE DEF v, b, f, F
  <2>1. [Entry(v, b, f) EXCEPT !.backward = <<i>>] = Entry(v, <<i>>, f)
    BY DEF Entry
  <2> QED
    BY <1>1, <2>1
<1>4. ASSUME NEW d, d.forward = f
      PROVE  Shifted(d, o) = [d EXCEPT !.forward = F]
  BY <1>4 DEF Shifted
<1> HIDE DEF v, b, f, F
<1>5. Shifted(Entry(v, b, f), o) = Entry(v, b, F)
  <2>1. Shifted(Entry(v, b, f), o) = [Entry(v, b, f) EXCEPT !.forward = F]
    BY <1>4, EntryFields
  <2> QED
    BY <1>2, <2>1
<1>6. Shifted(Entry(v, <<i>>, f), o) = Entry(v, <<i>>, F)
  <2>1. Shifted(Entry(v, <<i>>, f), o) = [Entry(v, <<i>>, f) EXCEPT !.forward = F]
    BY <1>4, EntryFields
  <2> QED
    BY <1>2, <2>1
<1>7. Entry(v, b, F) = MovedEntry(e, o, e.backward) /\ Entry(v, <<i>>, F) = MovedEntry(e, o, <<i>>)
  BY DEF MovedEntry, v, b, f, F
<1>8. Shifted(e, o) = Entry(v, b, F)
  BY <1>1, <1>5
<1>9. Shifted([e EXCEPT !.backward = <<i>>], o) = Entry(v, <<i>>, F)
  BY <1>3, <1>6
<1> QED
  BY <1>7, <1>8, <1>9

\* The last entry of a list has the number of the parent, the others what they had.
BackwardOf(sub, j, i) == IF j = Len(sub) THEN <<i>> ELSE sub[j].backward

\* A list moved.
LEMMA ListMoved ==
  ASSUME NEW sub, Sequence(sub), Len(sub) > 0, \A j \in 1 .. Len(sub) : IsEntry(sub[j]), NEW i, NEW o
  PROVE  /\ Sequence(MovedList(sub, i, o)) /\ Len(MovedList(sub, i, o)) = Len(sub)
         /\ \A j \in 1 .. Len(sub) : MovedList(sub, i, o)[j] = MovedEntry(sub[j], o, BackwardOf(sub, j, i))
<1> DEFINE r == RootedList(sub, i)
           n == Len(sub)
           w == MovedList(sub, i, o)
           S == {MovedEntry(sub[j], o, BackwardOf(sub, j, i)) : j \in 1 .. n}
<1>1. n \in Nat /\ DOMAIN sub = 1 .. n /\ n \in 1 .. n
  BY LenProperties DEF Sequence
<1>2. /\ DOMAIN r = 1 .. n /\ r[n] = [sub[n] EXCEPT !.backward = <<i>>]
      /\ \A j \in 1 .. n : j # n => r[j] = sub[j]
  <2> DEFINE x == [sub[n] EXCEPT !.backward = <<i>>]
  <2>1. r = [sub EXCEPT ![n] = x]
    BY DEF RootedList
  <2> HIDE DEF x, r, n
  <2>2. sub = [j \in 1 .. n |-> sub[j]]
    <3>1. sub \in [1 .. n -> ToSet(sub)]
      BY <1>1, LenProperties DEF Sequence, n
    <3> QED
      BY <3>1
  <2>3. DOMAIN r = 1 .. n /\ r[n] = x /\ \A j \in 1 .. n : j # n => r[j] = sub[j]
    BY <1>1, <2>1, <2>2
  <2> QED
    BY <2>3 DEF x
<1>3. ASSUME NEW j \in 1 .. n PROVE w[j] = MovedEntry(sub[j], o, BackwardOf(sub, j, i))
  <2>1. w[j] = Shifted(r[j], o)
    BY <1>2 DEF MovedList
  <2>2. IsEntry(sub[j])
    OBVIOUS
  <2>3. CASE j = n
    <3>1. Shifted([sub[j] EXCEPT !.backward = <<i>>], o) = MovedEntry(sub[j], o, <<i>>)
      BY <2>2, EntryMoved
    <3>2. r[j] = [sub[j] EXCEPT !.backward = <<i>>]
      BY <1>2, <2>3
    <3> HIDE DEF r, w
    <3> QED
      BY <2>1, <2>3, <3>1, <3>2 DEF BackwardOf
  <2>4. CASE j # n
    <3>1. Shifted(sub[j], o) = MovedEntry(sub[j], o, sub[j].backward)
      BY <2>2, EntryMoved
    <3>2. r[j] = sub[j]
      BY <1>2, <2>4
    <3> HIDE DEF r, w
    <3> QED
      BY <2>1, <2>4, <3>1, <3>2 DEF BackwardOf
  <2> QED
    BY <2>3, <2>4
<1>4. w = [j \in 1 .. n |-> w[j]]
  BY <1>2 DEF MovedList
<1> HIDE DEF w
<1>5. w \in [1 .. n -> S]
  BY <1>3, <1>4
<1> HIDE DEF S
<1>6. w \in Seq(S) /\ Len(w) = n
  BY <1>1, <1>5
<1> QED
  BY <1>3, <1>6, SequenceIn DEF w

\* The entries before each list are counted.
LEMMA BeforeFacts ==
  ASSUME NEW subs, Sequence(subs), NEW b, Starts(b, subs, Len(subs))
  PROVE  \A k \in 0 .. Len(subs) : BeforeOf(subs, k) = b[k]
<1> DEFINE n == Len(subs)
           m == CHOOSE m : IsBefore(m, subs)
           w == [j \in 0 .. n |-> b[j]]
<1>1. n \in Nat /\ b[0] = 0
  BY LenProperties DEF Sequence, Starts
<1>2. \A k \in 0 .. n : b[k] \in Nat
  BY <1>1, StartsIncrease
<1>3. ASSUME NEW j \in 0 .. n PROVE b[j] = IF j = 0 THEN 0 ELSE Len(subs[j]) + w[j - 1]
  <2>1. CASE j = 0
    BY <1>1, <2>1
  <2>2. CASE j # 0
    <3>1. j \in 1 .. n /\ j - 1 \in 0 .. n
      BY <1>1, <2>2
    <3>2. w[j - 1] = b[j - 1] /\ b[j - 1] \in Nat
      BY <1>2, <3>1
    <3>3. b[j] = b[j - 1] + Len(subs[j]) /\ Len(subs[j]) \in Nat
      BY <3>1 DEF Starts
    <3> HIDE DEF w
    <3> QED
      BY <2>2, <3>2, <3>3
  <2> QED
    BY <2>1, <2>2
<1>4. w = [j \in 0 .. n |-> IF j = 0 THEN 0 ELSE Len(subs[j]) + w[j - 1]]
  <2>1. \A j \in 0 .. n : w[j] = b[j]
    OBVIOUS
  <2>2. w = [j \in 0 .. n |-> w[j]]
    OBVIOUS
  <2> HIDE DEF w
  <2> QED
    BY <1>3, <2>1, <2>2
<1> HIDE DEF w
<1>5. IsBefore(w, subs)
  BY <1>4 DEF IsBefore
<1>6. IsBefore(m, subs)
  BY <1>5
<1> HIDE DEF m
<1>7. \A j \in 0 .. n : m[j] = IF j = 0 THEN 0 ELSE Len(subs[j]) + m[j - 1]
  BY <1>6 DEF IsBefore
<1> DEFINE Reached == {j \in 0 .. n : m[j] = b[j]}
<1> HIDE DEF n
<1>8. 0 \in Reached
  BY <1>1, <1>7
<1>9. ASSUME NEW j \in 0 .. n - 1, j \in Reached PROVE j + 1 \in Reached
  <2> DEFINE i == j + 1
  <2>1. i \in 0 .. n /\ i # 0 /\ i - 1 = j /\ j \in 0 .. n
    BY <1>1
  <2> HIDE DEF i
  <2>2. m[i] = Len(subs[i]) + m[j]
    BY <1>7, <2>1
  <2>3. b[i] = b[j] + Len(subs[i]) /\ Len(subs[i]) \in Nat
    BY <1>1, StartsStep DEF i, n
  <2>4. m[j] = b[j] /\ b[j] \in Nat
    BY <1>2, <1>9, <2>1
  <2>5. m[i] = b[i]
    BY <2>2, <2>3, <2>4
  <2> QED
    BY <2>1, <2>5 DEF i
<1> HIDE DEF Reached
<1>10. \A j \in 0 .. n : j \in Reached
  BY <1>1, <1>8, <1>9, IntervalInduction
<1> QED
  BY <1>10 DEF Reached, BeforeOf, m, n

\* c is the list of a node: the lists of its children moved one after the other, and its entry.
Joined(c, subs, b, n, node, i) ==
  /\ Sequence(c) /\ Len(c) = b[n] + 1
  /\ c[b[n] + 1] = Entry(node, << >>, [k \in 1 .. n |-> b[k] - 1])
  /\ \A k \in 1 .. n : \A j \in 1 .. Len(subs[k]) :
       c[b[k - 1] + j] = MovedEntry(subs[k][j], b[k - 1], BackwardOf(subs[k], j, i))

\* fb_tree_ctor joins the lists.
LEMMA CtorJoins ==
  ASSUME NEW subs, Sequence(subs), NEW b, Starts(b, subs, Len(subs)), NEW node, NEW i,
         \A k \in 1 .. Len(subs) : Sequence(subs[k]) /\ \A j \in 1 .. Len(subs[k]) : IsEntry(subs[k][j])
  PROVE  Joined(fb_tree_ctor(node, subs, i), subs, b, Len(subs), node, i)
<1> DEFINE n == Len(subs)
           M(k) == MovedList(subs[k], i, b[k - 1])
           s == [k \in 1 .. n |-> M(k)]
           e == Entry(node, << >>, [k \in 1 .. n |-> b[k] - 1])
           f == FlattenSeq(s)
<1>1. n \in Nat /\ DOMAIN subs = 1 .. n
  BY LenProperties DEF Sequence
<1>2. fb_tree_ctor(node, subs, i) = Join(f, <<e>>)
  <2>1. [k \in DOMAIN subs |-> MovedList(subs[k], i, BeforeOf(subs, k - 1))] = s
    <3>1. \A k \in 1 .. n : BeforeOf(subs, k - 1) = b[k - 1]
      <4> TAKE k \in 1 .. n
      <4>1. k - 1 \in 0 .. n
        BY <1>1
      <4> QED
        BY <4>1, BeforeFacts
    <3> QED
      BY <1>1, <3>1
  <2>2. [k \in DOMAIN subs |-> BeforeOf(subs, k) - 1] = [k \in 1 .. n |-> b[k] - 1]
    <3>1. \A k \in 1 .. n : BeforeOf(subs, k) = b[k]
      <4> TAKE k \in 1 .. n
      <4>1. k \in 0 .. n
        BY <1>1
      <4> QED
        BY <4>1, BeforeFacts
    <3> QED
      BY <1>1, <3>1
  <2>3. fb_tree_ctor(node, subs, i) =
          FlattenSeq([k \in DOMAIN subs |-> MovedList(subs[k], i, BeforeOf(subs, k - 1))])
            \o << Entry(node, << >>, [k \in DOMAIN subs |-> BeforeOf(subs, k) - 1]) >>
    BY CtorIs
  <2> HIDE DEF s
  <2> QED
    BY <2>1, <2>2, <2>3 DEF Join
<1>3. ASSUME NEW k \in 1 .. n
      PROVE  /\ Sequence(s[k]) /\ Len(s[k]) = Len(subs[k]) /\ Len(subs[k]) \in Nat \ {0}
             /\ \A j \in 1 .. Len(subs[k]) : s[k][j] = MovedEntry(subs[k][j], b[k - 1], BackwardOf(subs[k], j, i))
  <2>1. s[k] = MovedList(subs[k], i, b[k - 1])
    OBVIOUS
  <2>2. Len(subs[k]) \in Nat \ {0}
    BY DEF Starts
  <2>3. Sequence(subs[k]) /\ Len(subs[k]) > 0 /\ \A j \in 1 .. Len(subs[k]) : IsEntry(subs[k][j])
    BY <2>2
  <2> HIDE DEF s
  <2>4. /\ Sequence(MovedList(subs[k], i, b[k - 1])) /\ Len(MovedList(subs[k], i, b[k - 1])) = Len(subs[k])
        /\ \A j \in 1 .. Len(subs[k]) :
             MovedList(subs[k], i, b[k - 1])[j] = MovedEntry(subs[k][j], b[k - 1], BackwardOf(subs[k], j, i))
    BY <2>3, ListMoved
  <2> QED
    BY <2>1, <2>2, <2>4
<1>4. s \in Seq({M(k) : k \in 1 .. n}) /\ Len(s) = n
  <2> HIDE DEF M
  <2> QED
    BY <1>1
<1>5. Sequence(s)
  BY <1>4, SequenceIn
<1> HIDE DEF s
<1>6. Starts(b, s, n)
  BY <1>3 DEF Starts
<1>7. Laid(f, s, b, n)
  BY <1>3, <1>4, <1>5, <1>6, Flattened
<1>8. Sequence(f) /\ Len(f) = b[n] /\ \A k \in 1 .. n : \A j \in 1 .. Len(s[k]) : f[b[k - 1] + j] = s[k][j]
  BY <1>7 DEF Laid
<1> HIDE DEF f, e
<1>9. /\ Sequence(Append(f, e)) /\ Len(Append(f, e)) = b[n] + 1 /\ Append(f, e)[b[n] + 1] = e
      /\ \A x \in 1 .. b[n] : Append(f, e)[x] = f[x]
      /\ Append(f, e) = Join(f, <<e>>)
  BY <1>8, Appended
<1> DEFINE c == fb_tree_ctor(node, subs, i)
<1>10. /\ Sequence(c) /\ Len(c) = b[n] + 1 /\ c[b[n] + 1] = e /\ \A x \in 1 .. b[n] : c[x] = f[x]
  BY <1>2, <1>9
<1> HIDE DEF c
<1>11. ASSUME NEW k \in 1 .. n, NEW j \in 1 .. Len(subs[k])
       PROVE  c[b[k - 1] + j] = MovedEntry(subs[k][j], b[k - 1], BackwardOf(subs[k], j, i))
  <2>1. b[k - 1] + j \in 1 .. b[n]
    <3>1. k - 1 \in 0 .. n /\ k \in 0 .. n /\ n \in 0 .. n /\ k <= n
      BY <1>1
    <3>2. /\ b[k - 1] \in Nat /\ b[k] \in Nat /\ b[n] \in Nat /\ b[k] <= b[n] /\ b[k] = b[k - 1] + Len(subs[k])
          /\ Len(subs[k]) \in Nat
      BY <1>1, <3>1, StartsIncrease DEF Starts
    <3> QED
      BY <3>2, SMTT(60)
  <2>2. c[b[k - 1] + j] = f[b[k - 1] + j]
    BY <1>10, <2>1
  <2>3. Len(s[k]) = Len(subs[k]) /\ s[k][j] = MovedEntry(subs[k][j], b[k - 1], BackwardOf(subs[k], j, i))
    BY <1>3
  <2>4. f[b[k - 1] + j] = s[k][j]
    BY <1>8, <2>3
  <2> QED
    BY <2>2, <2>3, <2>4
<1>12. Joined(c, subs, b, n, node, i)
  BY <1>10, <1>11 DEF Joined, e
<1> QED
  BY <1>12 DEF c

\* The forward indices of an entry are of entries before it.
ForwardBefore(l) ==
  \A i \in 1 .. Len(l) : /\ IsEntry(l[i])
                         /\ \A k \in 1 .. Len(l[i].forward) : l[i].forward[k] \in 0 .. i - 2

\* u[i] is the tree under the i-th entry.
Unrolls(u, l) ==
  \A i \in 1 .. Len(l) : u[i] = <<l[i].value, [k \in DOMAIN l[i].forward |-> u[l[i].forward[k] + 1]]>>

\* The tree under the last entry is t.
UnrollsTo(l, t) == \E u : Unrolls(u, l) /\ u[Len(l)] = t

\* Forward and backward agree, for a list whose entries are numbered from off.
Coherent(l, off) ==
  \A i, j \in 1 .. Len(l) : (j - 1 \in ToSet(l[i].forward)) <=> (l[j].backward = <<off + (i - 1)>>)

\* Every entry but the last has its parent in the list.
Attached(l, off) ==
  \A j \in 1 .. Len(l) : j # Len(l) => \E i \in 1 .. Len(l) : l[j].backward = <<off + (i - 1)>>

\* l is the list of the tree t.
ListOf(l, t, off) ==
  /\ Sequence(l) /\ Len(l) > 0
  /\ ForwardBefore(l)
  /\ UnrollsTo(l, t)
  /\ Coherent(l, off)
  /\ Attached(l, off)

\* The fields of an entry d that is e moved.
IsMoved(d, e, o, v) ==
  /\ IsEntry(d) /\ d.value = e.value /\ d.backward = v
  /\ Len(d.forward) = Len(e.forward) /\ DOMAIN d.forward = DOMAIN e.forward
  /\ DOMAIN e.forward = 1 .. Len(e.forward)
  /\ \A k \in 1 .. Len(e.forward) : d.forward[k] = e.forward[k] + o
  /\ \A y \in Int : y + o \in ToSet(d.forward) <=> y \in ToSet(e.forward)

\* An entry that is moved has these fields.
LEMMA MovedFields ==
  ASSUME NEW e, IsEntry(e), NEW o \in Nat, NEW v, \A k \in 1 .. Len(e.forward) : e.forward[k] \in Int
  PROVE  IsMoved(MovedEntry(e, o, v), e, o, v)
<1> DEFINE d == MovedEntry(e, o, v)
           f == e.forward
           n == Len(f)
           F == [q \in DOMAIN f |-> f[q] + o]
<1>1. n \in Nat /\ DOMAIN f = 1 .. n
  BY LenProperties DEF IsEntry, Sequence
<1>2. d = Entry(e.value, v, F)
  BY DEF MovedEntry
<1> HIDE DEF f
<1>3. \A k \in 1 .. n : f[k] \in Int
  BY DEF f
<1>4. F \in [1 .. n -> Int] /\ DOMAIN F = 1 .. n /\ \A k \in 1 .. n : F[k] = f[k] + o
  BY <1>1, <1>3
<1> HIDE DEF F, n, d
<1>5. F \in Seq(Int) /\ Len(F) = n
  BY <1>1, <1>4
<1>6. Sequence(F)
  BY <1>5, SequenceIn
<1>7. d.value = e.value /\ d.backward = v /\ d.forward = F
  BY <1>2, EntryFields
<1>8. IsEntry(d)
  BY <1>2, <1>6, <1>7 DEF IsEntry
<1>9. ASSUME NEW y \in Int PROVE y + o \in ToSet(F) <=> y \in ToSet(f)
  <2>1. ToSet(F) = {F[k] : k \in 1 .. n} /\ ToSet(f) = {f[k] : k \in 1 .. n}
    BY <1>1, <1>4 DEF ToSet
  <2>2. \A k \in 1 .. n : y + o = F[k] <=> y = f[k]
    BY <1>3, <1>4
  <2> QED
    BY <2>1, <2>2
<1> QED
  BY <1>1, <1>4, <1>5, <1>7, <1>8, <1>9 DEF f, d, n, IsMoved

\* The lists of the children of a node, of the trees ts, numbered from off.
Family(subs, ts, b, n, off) ==
  /\ n \in Nat /\ off \in Nat /\ Starts(b, subs, n)
  /\ \A k \in 1 .. n : ListOf(subs[k], ts[k], off + b[k - 1])

\* The j-th entry of the k-th list in the list c.
EntryJoined(c, subs, b, n, i, k, j) ==
  /\ b[k - 1] \in Nat /\ b[k - 1] + j \in 1 .. b[n] /\ j \in Nat /\ b[n] \in Nat
  /\ b[k] = b[k - 1] + Len(subs[k]) /\ Len(subs[k]) \in Nat
  /\ IsMoved(c[b[k - 1] + j], subs[k][j], b[k - 1], BackwardOf(subs[k], j, i))
  /\ \A q \in 1 .. Len(subs[k][j].forward) : subs[k][j].forward[q] \in 0 .. j - 2

\* The entries that come from the lists of the children.
LEMMA JoinedEntry ==
  ASSUME NEW c, NEW subs, NEW ts, NEW b, NEW n, NEW off, NEW node, NEW i,
         Family(subs, ts, b, n, off), Joined(c, subs, b, n, node, i),
         NEW k \in 1 .. n, NEW j \in 1 .. Len(subs[k])
  PROVE  EntryJoined(c, subs, b, n, i, k, j)
<1> DEFINE e == subs[k][j]
           o == b[k - 1]
           d == c[o + j]
           v == BackwardOf(subs[k], j, i)
<1>1. n \in Nat /\ Starts(b, subs, n) /\ ForwardBefore(subs[k])
  BY DEF Family, ListOf
<1>2. k - 1 \in 0 .. n /\ k \in 0 .. n /\ n \in 0 .. n /\ k <= n
  BY <1>1
<1>3. o \in Nat /\ b[k] \in Nat /\ b[n] \in Nat /\ b[k] <= b[n] /\ b[k] = o + Len(subs[k]) /\ Len(subs[k]) \in Nat
  BY <1>1, <1>2, StartsIncrease DEF Starts
<1>4. d = MovedEntry(e, o, v)
  BY DEF Joined
<1>5. IsEntry(e) /\ \A q \in 1 .. Len(e.forward) : e.forward[q] \in 0 .. j - 2
  BY <1>1 DEF ForwardBefore
<1> HIDE DEF e, o, d, v
<1>6. \A q \in 1 .. Len(e.forward) : e.forward[q] \in Int
  BY <1>5
<1>7. IsMoved(d, e, o, v)
  <2>1. IsMoved(MovedEntry(e, o, v), e, o, v)
    BY <1>3, <1>5, <1>6, MovedFields
  <2> QED
    BY <1>4, <2>1
<1>8. o + j \in 1 .. b[n] /\ j \in Nat
  BY <1>3
<1> QED
  BY <1>3, <1>5, <1>7, <1>8 DEF e, o, d, v, EntryJoined

\* The last entry is the one of the node.
LastJoined(c, b, n, node) ==
  LET d == c[b[n] + 1]
  IN  /\ IsEntry(d) /\ d.value = node /\ d.backward = << >>
      /\ Len(d.forward) = n /\ DOMAIN d.forward = 1 .. n
      /\ \A k \in 1 .. n : d.forward[k] = b[k] - 1 /\ b[k] \in 1 .. b[n]

\* The last entry is the one of the node.
LEMMA JoinedLast ==
  ASSUME NEW c, NEW subs, NEW ts, NEW b, NEW n, NEW off, NEW node, NEW i,
         Family(subs, ts, b, n, off), Joined(c, subs, b, n, node, i)
  PROVE  LastJoined(c, b, n, node)
<1> DEFINE d == c[b[n] + 1]
           F == [k \in 1 .. n |-> b[k] - 1]
<1>1. n \in Nat /\ Starts(b, subs, n)
  BY DEF Family
<1>2. d = Entry(node, << >>, F)
  BY DEF Joined
<1>3. ASSUME NEW k \in 1 .. n PROVE b[k] \in 1 .. b[n]
  <2>1. k - 1 \in 0 .. n /\ k \in 0 .. n /\ n \in 0 .. n /\ k <= n
    BY <1>1
  <2>2. /\ b[k - 1] \in Nat /\ b[k] \in Nat /\ b[n] \in Nat /\ b[k] <= b[n] /\ b[k] = b[k - 1] + Len(subs[k])
        /\ Len(subs[k]) \in Nat \ {0}
    BY <1>1, <2>1, StartsIncrease DEF Starts
  <2> QED
    BY <2>2
<1>4. F \in [1 .. n -> Int] /\ \A k \in 1 .. n : F[k] = b[k] - 1
  BY <1>3
<1> HIDE DEF F
<1>5. F \in Seq(Int) /\ Len(F) = n /\ DOMAIN F = 1 .. n
  BY <1>1, <1>4
<1>6. Sequence(F)
  BY <1>5, SequenceIn
<1> HIDE DEF d
<1>7. d.value = node /\ d.backward = << >> /\ d.forward = F
  BY <1>2, EntryFields
<1>8. IsEntry(d)
  BY <1>2, <1>6, <1>7 DEF IsEntry
<1> QED
  BY <1>3, <1>4, <1>5, <1>7, <1>8 DEF LastJoined, d

\* An index of the list is the last one or in the list of a child.
LEMMA JoinedIndex ==
  ASSUME NEW c, NEW subs, NEW ts, NEW b, NEW n, NEW off, NEW node, NEW i,
         Family(subs, ts, b, n, off), Joined(c, subs, b, n, node, i), NEW x \in 1 .. Len(c)
  PROVE  \/ x = b[n] + 1
         \/ \E k \in 1 .. n : \E j \in 1 .. Len(subs[k]) : x = b[k - 1] + j
<1>1. n \in Nat /\ Starts(b, subs, n) /\ Len(c) = b[n] + 1
  BY DEF Family, Joined
<1>2. b[n] \in Nat
  BY <1>1, StartsIncrease
<1>3. x = b[n] + 1 \/ x \in 1 .. b[n]
  BY <1>1, <1>2
<1> QED
  BY <1>1, <1>3, StartsCover

\* The list of a node points backwards.
LEMMA JoinedForward ==
  ASSUME NEW c, NEW subs, NEW ts, NEW b, NEW n, NEW off, NEW node, NEW i,
         Family(subs, ts, b, n, off), Joined(c, subs, b, n, node, i)
  PROVE  ForwardBefore(c)
<1> SUFFICES ASSUME NEW x \in 1 .. Len(c)
             PROVE  IsEntry(c[x]) /\ \A q \in 1 .. Len(c[x].forward) : c[x].forward[q] \in 0 .. x - 2
  BY DEF ForwardBefore
<1>1. CASE x = b[n] + 1
  <2>1. LastJoined(c, b, n, node)
    BY JoinedLast
  <2>2. /\ IsEntry(c[x]) /\ Len(c[x].forward) = n
        /\ \A k \in 1 .. n : c[x].forward[k] = b[k] - 1 /\ b[k] \in 1 .. b[n]
    BY <1>1, <2>1 DEF LastJoined
  <2>3. b[n] \in Nat
    BY StartsIncrease DEF Family
  <2>4. \A k \in 1 .. n : b[k] - 1 \in 0 .. x - 2
    BY <1>1, <2>2, <2>3, SMTT(60)
  <2> QED
    BY <2>2, <2>4
<1>2. ASSUME NEW k \in 1 .. n, NEW j \in 1 .. Len(subs[k]), x = b[k - 1] + j
      PROVE  IsEntry(c[x]) /\ \A q \in 1 .. Len(c[x].forward) : c[x].forward[q] \in 0 .. x - 2
  <2> DEFINE e == subs[k][j]
             o == b[k - 1]
             v == BackwardOf(subs[k], j, i)
  <2>1. /\ o \in Nat /\ j \in Nat /\ IsMoved(c[o + j], e, o, v)
        /\ \A q \in 1 .. Len(e.forward) : e.forward[q] \in 0 .. j - 2
    BY JoinedEntry DEF EntryJoined
  <2> HIDE DEF e, o, v
  <2>2. x = o + j /\ IsMoved(c[x], e, o, v)
    BY <1>2, <2>1 DEF o
  <2>3. /\ IsEntry(c[x]) /\ Len(c[x].forward) = Len(e.forward)
        /\ \A q \in 1 .. Len(e.forward) : c[x].forward[q] = e.forward[q] + o
    BY <2>2 DEF IsMoved
  <2>4. \A y \in 0 .. j - 2 : y + o \in 0 .. x - 2
    BY <2>1, <2>2, SMTT(60)
  <2> QED
    BY <2>1, <2>3, <2>4
<1> QED
  BY <1>1, <1>2, JoinedIndex

\* The list of a node unrolls to its tree.
LEMMA JoinedTree ==
  ASSUME NEW c, NEW subs, NEW ts, NEW b, NEW n, NEW off, NEW node, NEW i,
         Family(subs, ts, b, n, off), Joined(c, subs, b, n, node, i),
         Sequence(ts), Len(ts) = n
  PROVE  UnrollsTo(c, <<node, ts>>)
<1>1. n \in Nat /\ Starts(b, subs, n) /\ Len(c) = b[n] + 1 /\ b[n] \in Nat
  BY StartsIncrease DEF Family, Joined
<1> DEFINE tree(k) == CHOOSE u : Unrolls(u, subs[k]) /\ u[Len(subs[k])] = ts[k]
           k(x) == CHOOSE k \in 1 .. n : \E j \in 1 .. Len(subs[k]) : x = b[k - 1] + j
           u == [x \in 1 .. b[n] + 1 |-> IF x = b[n] + 1 THEN <<node, ts>> ELSE tree(k(x))[x - b[k(x) - 1]]]
<1>2. ASSUME NEW l \in 1 .. n PROVE Unrolls(tree(l), subs[l]) /\ tree(l)[Len(subs[l])] = ts[l]
  <2>1. ListOf(subs[l], ts[l], off + b[l - 1])
    BY DEF Family
  <2>2. \E w : Unrolls(w, subs[l]) /\ w[Len(subs[l])] = ts[l]
    BY <2>1 DEF ListOf, UnrollsTo
  <2> QED
    BY <2>2
<1> HIDE DEF tree
<1>3. ASSUME NEW l \in 1 .. n, NEW j \in 1 .. Len(subs[l]) PROVE u[b[l - 1] + j] = tree(l)[j]
  <2> DEFINE x == b[l - 1] + j
  <2>1. x \in 1 .. b[n] /\ b[l - 1] \in Nat /\ j \in Nat
    BY JoinedEntry DEF EntryJoined
  <2>2. k(x) \in 1 .. n /\ \E m \in 1 .. Len(subs[k(x)]) : x = b[k(x) - 1] + m
    OBVIOUS
  <2> HIDE DEF k
  <2>3. k(x) = l
    <3>1. PICK m \in 1 .. Len(subs[k(x)]) : x = b[k(x) - 1] + m
      BY <2>2
    <3> QED
      BY <1>1, <2>2, <3>1, StartsApart, SMTT(60)
  <2> HIDE DEF x
  <2>4. x \in 1 .. b[n] + 1 /\ x # b[n] + 1
    BY <1>1, <2>1
  <2>5. u[x] = tree(k(x))[x - b[k(x) - 1]]
    BY <2>4
  <2>6. x - b[l - 1] = j
    BY <2>1 DEF x
  <2> QED
    BY <2>3, <2>5, <2>6 DEF x
<1>4. u[b[n] + 1] = <<node, ts>>
  <2>1. b[n] + 1 \in 1 .. b[n] + 1
    BY <1>1
  <2> QED
    BY <2>1
<1> HIDE DEF u
<1>5. ASSUME NEW x \in 1 .. Len(c)
      PROVE  u[x] = <<c[x].value, [q \in DOMAIN c[x].forward |-> u[c[x].forward[q] + 1]]>>
  <2>1. CASE x = b[n] + 1
    <3>1. LastJoined(c, b, n, node)
      BY JoinedLast
    <3>2. /\ c[x].value = node /\ DOMAIN c[x].forward = 1 .. n
          /\ \A l \in 1 .. n : c[x].forward[l] = b[l] - 1 /\ b[l] \in 1 .. b[n]
      BY <2>1, <3>1 DEF LastJoined
    <3>3. ASSUME NEW l \in 1 .. n PROVE u[c[x].forward[l] + 1] = ts[l]
      <4>1. c[x].forward[l] + 1 = b[l]
        BY <1>1, <3>2
      <4>2. b[l] = b[l - 1] + Len(subs[l]) /\ Len(subs[l]) \in 1 .. Len(subs[l])
        BY <1>1 DEF Starts
      <4>3. u[b[l - 1] + Len(subs[l])] = tree(l)[Len(subs[l])]
        BY <1>3, <4>2
      <4> QED
        BY <1>2, <4>1, <4>2, <4>3
    <3>4. ts = [l \in 1 .. n |-> ts[l]]
      <4>1. ts \in [1 .. n -> ToSet(ts)]
        BY LenProperties DEF Sequence
      <4> QED
        BY <4>1
    <3>5. [q \in DOMAIN c[x].forward |-> u[c[x].forward[q] + 1]] = [l \in 1 .. n |-> ts[l]]
      BY <3>2, <3>3
    <3> QED
      BY <1>4, <2>1, <3>2, <3>4, <3>5
  <2>2. ASSUME NEW l \in 1 .. n, NEW j \in 1 .. Len(subs[l]), x = b[l - 1] + j
        PROVE  u[x] = <<c[x].value, [q \in DOMAIN c[x].forward |-> u[c[x].forward[q] + 1]]>>
    <3> DEFINE e == subs[l][j]
               o == b[l - 1]
               v == BackwardOf(subs[l], j, i)
    <3>1. /\ o \in Nat /\ j \in Nat /\ IsMoved(c[o + j], e, o, v) /\ Len(subs[l]) \in Nat
          /\ \A q \in 1 .. Len(e.forward) : e.forward[q] \in 0 .. j - 2
      BY JoinedEntry, ZenonT(90) DEF EntryJoined
    <3>2. u[x] = tree(l)[j]
      BY <1>3, <2>2
    <3>3. tree(l)[j] = <<e.value, [q \in DOMAIN e.forward |-> tree(l)[e.forward[q] + 1]]>>
      BY <1>2 DEF Unrolls
    <3>4. \A y \in 0 .. j - 2 : u[o + (y + 1)] = tree(l)[y + 1]
      <4> TAKE y \in 0 .. j - 2
      <4>1. y + 1 \in 1 .. Len(subs[l])
        BY <3>1, SMTT(60)
      <4> QED
        BY <1>3, <4>1
    <3> HIDE DEF e, o, v
    <3>5. x = o + j
      BY <2>2 DEF o
    <3>6. /\ c[x].value = e.value /\ DOMAIN c[x].forward = DOMAIN e.forward
          /\ DOMAIN e.forward = 1 .. Len(e.forward)
          /\ \A q \in 1 .. Len(e.forward) : c[x].forward[q] = e.forward[q] + o
      BY <3>1, <3>5 DEF IsMoved
    <3>7. ASSUME NEW q \in DOMAIN e.forward PROVE u[c[x].forward[q] + 1] = tree(l)[e.forward[q] + 1]
      <4> DEFINE y == e.forward[q]
      <4>1. y \in 0 .. j - 2 /\ c[x].forward[q] = y + o
        BY <3>1, <3>6
      <4> HIDE DEF y
      <4>2. c[x].forward[q] + 1 = o + (y + 1)
        BY <3>1, <4>1
      <4>3. u[o + (y + 1)] = tree(l)[y + 1]
        BY <3>4, <4>1
      <4> QED
        BY <4>2, <4>3 DEF y
    <3>8. [q \in DOMAIN c[x].forward |-> u[c[x].forward[q] + 1]] =
            [q \in DOMAIN e.forward |-> tree(l)[e.forward[q] + 1]]
      BY <3>6, <3>7
    <3> QED
      BY <3>2, <3>3, <3>6, <3>8
  <2>3. x = b[n] + 1 \/ \E l \in 1 .. n : \E j \in 1 .. Len(subs[l]) : x = b[l - 1] + j
    BY JoinedIndex, SMTT(60)
  <2> QED
    BY <2>1, <2>2, <2>3, ZenonT(60)
<1>6. Unrolls(u, c)
  BY <1>5 DEF Unrolls
<1> QED
  BY <1>1, <1>4, <1>6 DEF UnrollsTo

\* A tuple of one is not empty.
LEMMA OneIsSome == \A x : << >> # <<x>>
OBVIOUS

\* Forward and backward agree in the list of a node, numbered after its children.
LEMMA JoinedCoherent ==
  ASSUME NEW c, NEW subs, NEW ts, NEW b, NEW n, NEW off, NEW node,
         Family(subs, ts, b, n, off), Joined(c, subs, b, n, node, off + b[n])
  PROVE  Coherent(c, off)
<1> DEFINE N == b[n]
           i == off + N
<1>1. n \in Nat /\ off \in Nat /\ Starts(b, subs, n) /\ Len(c) = N + 1 /\ N \in Nat
  BY StartsIncrease DEF Family, Joined
<1> HIDE DEF N, i
<1>2. Joined(c, subs, b, n, node, i)
  BY DEF i, N
<1>3. LastJoined(c, b, n, node)
  BY <1>2, JoinedLast
<1>4. /\ c[N + 1].backward = << >> /\ DOMAIN c[N + 1].forward = 1 .. n
      /\ \A k \in 1 .. n : c[N + 1].forward[k] = b[k] - 1 /\ b[k] \in 1 .. N
  BY <1>3 DEF LastJoined, N
<1>5. ASSUME NEW k \in 1 .. n, NEW j \in 1 .. Len(subs[k])
      PROVE  /\ b[k - 1] \in Nat /\ b[k - 1] + j \in 1 .. N /\ j \in Nat
             /\ b[k] = b[k - 1] + Len(subs[k]) /\ Len(subs[k]) \in Nat
             /\ IsMoved(c[b[k - 1] + j], subs[k][j], b[k - 1], BackwardOf(subs[k], j, i))
             /\ \A q \in 1 .. Len(subs[k][j].forward) : subs[k][j].forward[q] \in 0 .. j - 2
             /\ Coherent(subs[k], off + b[k - 1]) /\ Attached(subs[k], off + b[k - 1])
  <2>1. ListOf(subs[k], ts[k], off + b[k - 1])
    BY DEF Family
  <2>2. EntryJoined(c, subs, b, n, i, k, j)
    BY <1>2, JoinedEntry
  <2> QED
    BY <2>1, <2>2 DEF N, ListOf, EntryJoined
<1>6. \* The number an entry has as its backward one.
      ASSUME NEW l \in 1 .. n, NEW m \in 1 .. Len(subs[l])
      PROVE  /\ m = Len(subs[l]) => c[b[l - 1] + m].backward = <<off + N>>
             /\ m # Len(subs[l]) => \E r \in 1 .. Len(subs[l]) :
                                      /\ subs[l][m].backward = <<(off + b[l - 1]) + (r - 1)>>
                                      /\ c[b[l - 1] + m].backward = <<(off + b[l - 1]) + (r - 1)>>
             /\ m # Len(subs[l]) => c[b[l - 1] + m].backward = subs[l][m].backward
  <2>1. c[b[l - 1] + m].backward = BackwardOf(subs[l], m, i) /\ Attached(subs[l], off + b[l - 1])
    BY <1>5 DEF IsMoved
  <2> QED
    BY <2>1 DEF BackwardOf, Attached, i
<1>7. \* What the last entry points to.
      ASSUME NEW y \in 1 .. N + 1
      PROVE  (y - 1 \in ToSet(c[N + 1].forward)) <=> (c[y].backward = <<off + ((N + 1) - 1)>>)
  <2>1. y - 1 \in ToSet(c[N + 1].forward) <=> \E k \in 1 .. n : y = b[k]
    <3>1. ToSet(c[N + 1].forward) = {c[N + 1].forward[k] : k \in 1 .. n}
      BY <1>4 DEF ToSet
    <3>2. \A k \in 1 .. n : y - 1 = c[N + 1].forward[k] <=> y = b[k]
      BY <1>1, <1>4
    <3> QED
      BY <3>1, <3>2
  <2>2. CASE y = N + 1
    <3>1. \A k \in 1 .. n : y # b[k]
      BY <1>1, <1>4, <2>2
    <3>2. c[y].backward # <<off + ((N + 1) - 1)>>
      BY <1>4, <2>2, OneIsSome
    <3> QED
      BY <2>1, <3>1, <3>2
  <2>3. ASSUME NEW l \in 1 .. n, NEW m \in 1 .. Len(subs[l]), y = b[l - 1] + m
        PROVE  (y - 1 \in ToSet(c[N + 1].forward)) <=> (c[y].backward = <<off + ((N + 1) - 1)>>)
    <3>1. /\ b[l - 1] \in Nat /\ b[l - 1] + m \in 1 .. N /\ m \in Nat
          /\ b[l] = b[l - 1] + Len(subs[l]) /\ Len(subs[l]) \in Nat
      BY <1>5
    <3>2. CASE m = Len(subs[l])
      <4>1. y = b[l] /\ off + ((N + 1) - 1) = off + N
        BY <1>1, <2>3, <3>1, <3>2
      <4>2. c[y].backward = <<off + N>>
        BY <1>6, <2>3, <3>2
      <4> QED
        BY <2>1, <4>1, <4>2
    <3>3. CASE m # Len(subs[l])
      <4>1. \A k \in 1 .. n : y # b[k]
        <5> SUFFICES ASSUME NEW k \in 1 .. n, y = b[k] PROVE FALSE
          OBVIOUS
        <5>1. b[k] = b[k - 1] + Len(subs[k]) /\ Len(subs[k]) \in 1 .. Len(subs[k])
          BY <1>1 DEF Starts
        <5>2. b[l - 1] + m = b[k - 1] + Len(subs[k])
          BY <2>3, <5>1
        <5>3. l = k /\ m = Len(subs[k])
          BY <1>1, <5>1, <5>2, StartsApart, SMTT(60)
        <5> QED
          BY <3>3, <5>3
      <4>2. PICK r \in 1 .. Len(subs[l]) : c[y].backward = <<(off + b[l - 1]) + (r - 1)>>
        BY <1>6, <2>3, <3>3
      <4>3. b[l - 1] + r \in 1 .. N
        BY <1>5
      <4>4. (off + b[l - 1]) + (r - 1) # off + ((N + 1) - 1)
        <5> DEFINE o == b[l - 1]
        <5>1. o \in Nat /\ off \in Nat /\ N \in Nat /\ Len(subs[l]) \in Nat /\ o + r \in 1 .. N
          BY <1>1, <3>1, <4>3
        <5>2. r \in Nat
          BY <5>1
        <5> HIDE DEF o
        <5>3. (off + o) + (r - 1) # off + ((N + 1) - 1)
          BY <5>1, <5>2
        <5> QED
          BY <5>3 DEF o
      <4> QED
        BY <2>1, <4>1, <4>2, <4>4
    <3> QED
      BY <3>2, <3>3
  <2>4. y \in 1 .. Len(c)
    BY <1>1
  <2>5. y = N + 1 \/ \E k \in 1 .. n : \E j \in 1 .. Len(subs[k]) : y = b[k - 1] + j
    BY <1>2, <2>4, JoinedIndex DEF N
  <2> QED
    BY <2>2, <2>3, <2>5
<1>8. \* What the other entries point to.
      ASSUME NEW k \in 1 .. n, NEW j \in 1 .. Len(subs[k]), NEW x, x = b[k - 1] + j, NEW y \in 1 .. N + 1
      PROVE  (y - 1 \in ToSet(c[x].forward)) <=> (c[y].backward = <<off + (x - 1)>>)
  <2> DEFINE o == b[k - 1]
             e == subs[k][j]
  <2>1. /\ o \in Nat /\ o + j \in 1 .. N /\ j \in Nat /\ Len(subs[k]) \in Nat
        /\ \A q \in 1 .. Len(e.forward) : e.forward[q] \in 0 .. j - 2
        /\ DOMAIN e.forward = 1 .. Len(e.forward)
        /\ Coherent(subs[k], off + o)
        /\ \A z \in Int : z + o \in ToSet(c[o + j].forward) <=> z \in ToSet(e.forward)
    BY <1>5 DEF IsMoved
  <2>2. x = o + j
    BY <1>8
  <2> HIDE DEF o, e
  <2>9. /\ o \in Nat /\ o + j \in 1 .. N /\ j \in 1 .. Len(subs[k]) /\ Len(subs[k]) \in Nat
        /\ off \in Nat /\ N \in Nat /\ x = o + j /\ y \in Nat
    <3>1. o \in Nat /\ o + j \in 1 .. N /\ Len(subs[k]) \in Nat
      BY <2>1
    <3>2. y \in Nat /\ off \in Nat /\ N \in Nat
      BY <1>1
    <3> QED
      BY <2>2, <3>1, <3>2
  <2>3. y - 1 \in ToSet(c[x].forward) <=> (y - 1) - o \in ToSet(e.forward)
    <3> DEFINE z == (y - 1) - o
    <3>1. z \in Int /\ z + o = y - 1
      BY <2>9
    <3> HIDE DEF z
    <3> QED
      BY <2>1, <2>2, <3>1 DEF z
  <2>4. ToSet(e.forward) \in SUBSET (0 .. j - 2)
    BY <2>1 DEF ToSet
  <2>5. CASE y = N + 1
    <3>1. (y - 1) - o \notin 0 .. j - 2
      BY <1>1, <2>1, <2>5
    <3>2. c[y].backward # <<off + (x - 1)>>
      BY <1>4, <2>5, OneIsSome
    <3> QED
      BY <2>3, <2>4, <3>1, <3>2
  <2>6. ASSUME NEW l \in 1 .. n, NEW m \in 1 .. Len(subs[l]), y = b[l - 1] + m
        PROVE  (y - 1 \in ToSet(c[x].forward)) <=> (c[y].backward = <<off + (x - 1)>>)
    <3>1. b[l - 1] \in Nat /\ b[l - 1] + m \in 1 .. N /\ m \in Nat /\ Len(subs[l]) \in Nat
      BY <1>5
    <3>2. CASE l # k
      <4>1. (y - 1) - o \notin 0 .. j - 2
        <5> SUFFICES ASSUME (y - 1) - o \in 0 .. j - 2 PROVE FALSE
          OBVIOUS
        <5> DEFINE z == y - o
        <5>1. z \in 1 .. Len(subs[k]) /\ y = o + z
          BY <2>9
        <5> HIDE DEF z
        <5>2. b[l - 1] + m = b[k - 1] + z
          BY <2>6, <5>1 DEF o
        <5>3. l = k
          <6>1. n \in Nat /\ Starts(b, subs, n)
            BY <1>1
          <6>2. z \in 1 .. Len(subs[k])
            BY <5>1
          <6> QED
            BY <5>2, <6>1, <6>2, StartsApart, SMTT(60)
        <5> QED
          BY <3>2, <5>3
      <4>2. c[y].backward # <<off + (x - 1)>>
        <5>1. CASE m = Len(subs[l])
          <6>1. c[y].backward = <<off + N>>
            BY <1>6, <2>6, <5>1
          <6>2. off + N # off + (x - 1)
            BY <2>9
          <6> QED
            BY <6>1, <6>2
        <5>2. CASE m # Len(subs[l])
          <6>1. PICK r \in 1 .. Len(subs[l]) : c[y].backward = <<(off + b[l - 1]) + (r - 1)>>
            BY <1>6, <2>6, <5>2
          <6>2. b[l - 1] + r # b[k - 1] + j
            BY <1>1, <3>2, StartsApart, SMTT(60)
          <6>3. (off + b[l - 1]) + (r - 1) # off + (x - 1)
            <7> DEFINE p == b[l - 1]
            <7>1. p \in Nat /\ p + r # o + j /\ r \in Int
              BY <3>1, <6>2 DEF o
            <7> HIDE DEF p
            <7>2. (off + p) + (r - 1) # off + (x - 1)
              BY <1>1, <2>1, <2>2, <7>1
            <7> QED
              BY <7>2 DEF p
          <6> QED
            BY <6>1, <6>3
        <5> QED
          BY <5>1, <5>2
      <4> QED
        BY <2>3, <2>4, <4>1, <4>2
    <3>3. CASE l = k
      <4>0. y = o + m
        BY <2>6, <3>3 DEF o
      <4>1. y = o + m /\ (y - 1) - o = m - 1
        BY <2>1, <3>1, <4>0
      <4>2. m \in 1 .. Len(subs[k])
        BY <3>3
      <4>3. (m - 1 \in ToSet(e.forward)) <=> (subs[k][m].backward = <<(off + o) + (j - 1)>>)
        BY <2>1, <4>2 DEF Coherent, e
      <4>4. (off + o) + (j - 1) = off + (x - 1)
        BY <1>1, <2>1, <2>2, SMTT(60)
      <4>5. CASE m # Len(subs[l])
        <5>1. c[y].backward = subs[k][m].backward
          BY <1>6, <2>6, <3>3, <4>5
        <5> QED
          BY <2>3, <4>1, <4>3, <4>4, <5>1
      <4>6. CASE m = Len(subs[l])
        <5>1. c[y].backward = <<off + N>>
          BY <1>6, <2>6, <4>6
        <5>2. off + N # off + (x - 1)
          BY <2>9
        <5>3. m - 1 \notin 0 .. j - 2
          BY <2>9, <3>3, <4>6
        <5> QED
          BY <2>3, <2>4, <4>1, <5>1, <5>2, <5>3
      <4> QED
        BY <4>5, <4>6
    <3> QED
      BY <3>2, <3>3
  <2>7. y \in 1 .. Len(c)
    BY <1>1
  <2>8. y = N + 1 \/ \E l \in 1 .. n : \E m \in 1 .. Len(subs[l]) : y = b[l - 1] + m
    BY <1>2, <2>7, JoinedIndex DEF N
  <2> QED
    BY <2>5, <2>6, <2>8
<1>9. ASSUME NEW x \in 1 .. Len(c), NEW y \in 1 .. Len(c)
      PROVE  (y - 1 \in ToSet(c[x].forward)) <=> (c[y].backward = <<off + (x - 1)>>)
  <2>1. y \in 1 .. N + 1
    BY <1>1
  <2>2. CASE x = N + 1
    BY <1>7, <2>1, <2>2
  <2>3. CASE \E k \in 1 .. n : \E j \in 1 .. Len(subs[k]) : x = b[k - 1] + j
    BY <1>8, <2>1, <2>3
  <2> QED
    BY <1>2, <2>2, <2>3, JoinedIndex DEF N
<1> QED
  BY <1>9 DEF Coherent

\* Every entry of the list of a node but its own has its parent in the list.
LEMMA JoinedAttached ==
  ASSUME NEW c, NEW subs, NEW ts, NEW b, NEW n, NEW off, NEW node,
         Family(subs, ts, b, n, off), Joined(c, subs, b, n, node, off + b[n])
  PROVE  Attached(c, off)
<1> DEFINE i == off + b[n]
<1>1. n \in Nat /\ off \in Nat /\ Starts(b, subs, n) /\ Len(c) = b[n] + 1 /\ b[n] \in Nat
  BY StartsIncrease DEF Family, Joined
<1>2. ASSUME NEW k \in 1 .. n, NEW j \in 1 .. Len(subs[k])
      PROVE  \E x \in 1 .. Len(c) : c[b[k - 1] + j].backward = <<off + (x - 1)>>
  <2> DEFINE o == b[k - 1]
  <2>0. ListOf(subs[k], ts[k], off + b[k - 1])
    BY DEF Family
  <2>1. \A r \in 1 .. Len(subs[k]) : o \in Nat /\ o + r \in 1 .. b[n] /\ r \in Nat
    BY JoinedEntry DEF EntryJoined
  <2>2. c[o + j].backward = BackwardOf(subs[k], j, i)
    <3>1. IsMoved(c[b[k - 1] + j], subs[k][j], b[k - 1], BackwardOf(subs[k], j, i))
      BY JoinedEntry DEF EntryJoined
    <3> QED
      BY <3>1 DEF IsMoved
  <2>3. Attached(subs[k], off + o)
    BY <2>0 DEF ListOf
  <2> HIDE DEF o, i
  <2>4. CASE j = Len(subs[k])
    <3> DEFINE x == b[n] + 1
    <3>1. x \in 1 .. Len(c) /\ x - 1 = b[n]
      BY <1>1, SMTT(60)
    <3> HIDE DEF x
    <3>2. c[o + j].backward = <<off + (x - 1)>>
      BY <2>2, <2>4, <3>1 DEF BackwardOf, i
    <3> QED
      BY <3>1, <3>2 DEF o
  <2>5. CASE j # Len(subs[k])
    <3>1. PICK r \in 1 .. Len(subs[k]) : subs[k][j].backward = <<(off + o) + (r - 1)>>
      BY <2>3, <2>5 DEF Attached
    <3>2. o \in Nat /\ o + r \in 1 .. b[n] /\ r \in Nat
      BY <2>1
    <3> DEFINE x == o + r
    <3>3. x \in 1 .. Len(c) /\ (off + o) + (r - 1) = off + (x - 1)
      BY <1>1, <3>2
    <3> HIDE DEF x
    <3>4. c[o + j].backward = <<off + (x - 1)>>
      BY <2>2, <2>5, <3>1, <3>3 DEF BackwardOf
    <3> QED
      BY <3>3, <3>4 DEF o
  <2> QED
    BY <2>4, <2>5
<1>3. ASSUME NEW y \in 1 .. Len(c), y # Len(c)
      PROVE  \E x \in 1 .. Len(c) : c[y].backward = <<off + (x - 1)>>
  <2>1. y # b[n] + 1
    BY <1>1, <1>3
  <2>2. PICK k \in 1 .. n : \E j \in 1 .. Len(subs[k]) : y = b[k - 1] + j
    BY <2>1, JoinedIndex
  <2> QED
    BY <1>2, <2>2
<1> QED
  BY <1>3 DEF Attached

\* fb_tree_ctor makes the list of a node from the lists of its children.
LEMMA CtorMakesList ==
  ASSUME NEW subs, NEW ts, NEW b, NEW off, NEW node, Sequence(subs), Sequence(ts), Len(ts) = Len(subs),
         Family(subs, ts, b, Len(subs), off)
  PROVE  LET c == fb_tree_ctor(node, subs, off + b[Len(subs)])
         IN  ListOf(c, <<node, ts>>, off) /\ Len(c) = b[Len(subs)] + 1
<1> DEFINE n == Len(subs)
           c == fb_tree_ctor(node, subs, off + b[n])
<1>1. Starts(b, subs, n) /\ n \in Nat
  BY DEF Family
<1>2. \A k \in 1 .. n : Sequence(subs[k]) /\ \A j \in 1 .. Len(subs[k]) : IsEntry(subs[k][j])
  <2> TAKE k \in 1 .. n
  <2>1. ListOf(subs[k], ts[k], off + b[k - 1])
    BY DEF Family
  <2> QED
    BY <2>1 DEF ListOf, ForwardBefore
<1>3. Joined(c, subs, b, n, node, off + b[n])
  BY <1>1, <1>2, CtorJoins
<1> HIDE DEF n, c
<1>4. Family(subs, ts, b, n, off) /\ Len(ts) = n
  BY DEF n
<1>5. ForwardBefore(c)
  BY <1>3, <1>4, JoinedForward
<1>6. UnrollsTo(c, <<node, ts>>)
  BY <1>3, <1>4, JoinedTree
<1>7. Coherent(c, off)
  BY <1>3, <1>4, JoinedCoherent
<1>8. Attached(c, off)
  BY <1>3, <1>4, JoinedAttached
<1>9. Sequence(c) /\ Len(c) = b[n] + 1 /\ b[n] \in Nat
  BY <1>1, <1>3, StartsIncrease DEF Joined, n
<1>10. ListOf(c, <<node, ts>>, off)
  BY <1>5, <1>6, <1>7, <1>8, <1>9 DEF ListOf
<1> QED
  BY <1>9, <1>10 DEF c, n

-----------------------------------------------------------------------------
(***************************************************************************)
(* The levels of lists go with the levels of trees                         *)
(***************************************************************************)

\* The lists of a level are the ones of its trees, numbered from one number up to another.
Row(subs, ts, from, to) ==
  /\ Sequence(subs) /\ Sequence(ts) /\ Len(ts) = Len(subs)
  /\ \E b : Family(subs, ts, b, Len(subs), from) /\ to = from + b[Len(subs)]

\* The entries of a level are numbered after the ones of the levels below.
Levels(L, B, o, m) ==
  /\ o[1] = 0 /\ o[Len(L) + 1] = m
  /\ \A k \in 1 .. Len(L) : Row(L[k], B[k], o[k], o[k + 1])
ListsInv ==
  /\ Sequence(lists) /\ Len(lists) = Len(built)
  /\ \E o : Levels(lists, built, o, made)

\* A level without lists.
LEMMA RowEmpty ==
  ASSUME NEW m \in Nat
  PROVE  Row(<< >>, << >>, m, m)
<1> DEFINE b == [k \in {0} |-> 0]
<1>1. Sequence(<< >>) /\ Len(<< >>) = 0
  BY ShortSequences
<1>2. b[0] = 0 /\ m = m + b[0]
  OBVIOUS
<1> HIDE DEF b
<1>3. Family(<< >>, << >>, b, 0, m)
  <2>1. \A k \in 1 .. 0 : FALSE
    OBVIOUS
  <2> QED
    BY <1>2, <2>1 DEF Family, Starts
<1> QED
  BY <1>1, <1>2, <1>3 DEF Row

\* The numbers of a level.
LEMMA RowNumbers ==
  ASSUME NEW subs, NEW ts, NEW f, NEW m, Row(subs, ts, f, m)
  PROVE  f \in Nat /\ m \in Nat
<1>1. PICK b : Family(subs, ts, b, Len(subs), f) /\ m = f + b[Len(subs)]
  BY DEF Row
<1>2. Len(subs) \in Nat /\ f \in Nat /\ Starts(b, subs, Len(subs))
  BY <1>1 DEF Family
<1>3. b[Len(subs)] \in Nat
  BY <1>2, StartsIncrease
<1> QED
  BY <1>1, <1>2, <1>3

\* One list more at the end of a level.
LEMMA RowMore ==
  ASSUME NEW subs, NEW ts, NEW f, NEW m, Row(subs, ts, f, m), NEW l, NEW t, ListOf(l, t, m)
  PROVE  Row(Append(subs, l), Append(ts, t), f, m + Len(l))
<1>1. PICK b : Family(subs, ts, b, Len(subs), f) /\ m = f + b[Len(subs)]
  BY DEF Row
<1> DEFINE n == Len(subs)
           S == Append(subs, l)
           U == Append(ts, t)
           d == [k \in 0 .. n + 1 |-> IF k = n + 1 THEN b[n] + Len(l) ELSE b[k]]
<1>2. /\ n \in Nat /\ f \in Nat /\ Starts(b, subs, n)
      /\ \A k \in 1 .. n : ListOf(subs[k], ts[k], f + b[k - 1])
  BY <1>1 DEF Family
<1>3. \A k \in 0 .. n : b[k] \in Nat
  BY <1>2, StartsIncrease
<1>4. Len(l) \in Nat \ {0}
  BY LenProperties DEF ListOf, Sequence
<1>5. /\ Sequence(S) /\ Len(S) = n + 1 /\ S[n + 1] = l /\ \A k \in 1 .. n : S[k] = subs[k]
      /\ Sequence(U) /\ Len(U) = n + 1 /\ U[n + 1] = t /\ \A k \in 1 .. n : U[k] = ts[k]
  <2>1. Sequence(subs) /\ Sequence(ts) /\ Len(ts) = n
    BY DEF Row
  <2>2. Sequence(S) /\ Len(S) = n + 1 /\ S[n + 1] = l /\ \A k \in 1 .. n : S[k] = subs[k]
    BY <2>1, Appended, ZenonT(90)
  <2>3. Sequence(U) /\ Len(U) = n + 1 /\ U[n + 1] = t /\ \A k \in 1 .. n : U[k] = ts[k]
    <3> HIDE DEF n
    <3>1. /\ Sequence(U) /\ Len(U) = Len(ts) + 1 /\ U[Len(ts) + 1] = t
          /\ \A k \in 1 .. Len(ts) : U[k] = ts[k]
      BY <2>1, Appended, ZenonT(90)
    <3> QED
      BY <2>1, <3>1
  <2> QED
    BY <2>2, <2>3
<1>6. d[n + 1] = b[n] + Len(l) /\ \A k \in 0 .. n : d[k] = b[k]
  BY <1>2
<1> HIDE DEF S, U, d, n
<1>7. ASSUME NEW k \in 1 .. n + 1
      PROVE  /\ Len(S[k]) \in Nat \ {0} /\ d[k] = d[k - 1] + Len(S[k])
             /\ ListOf(S[k], U[k], f + d[k - 1])
  <2>1. CASE k \in 1 .. n
    <3>1. k - 1 \in 0 .. n /\ k \in 0 .. n
      BY <1>2, <2>1
    <3>2. S[k] = subs[k] /\ U[k] = ts[k] /\ d[k] = b[k] /\ d[k - 1] = b[k - 1]
      BY <1>5, <1>6, <2>1, <3>1
    <3> QED
      BY <1>2, <2>1, <3>2 DEF Starts
  <2>2. CASE k = n + 1
    <3>1. k - 1 = n /\ n \in 0 .. n
      BY <1>2, <2>2
    <3>2. S[k] = l /\ U[k] = t /\ d[k] = b[n] + Len(l) /\ d[k - 1] = b[n]
      BY <1>5, <1>6, <2>2, <3>1
    <3>3. ListOf(l, t, f + b[n])
      BY <1>1 DEF n
    <3> QED
      BY <1>4, <3>2, <3>3
  <2> QED
    BY <1>2, <2>1, <2>2
<1>8. d[0] = 0
  <2>1. b[0] = 0 /\ 0 \in 0 .. n
    BY <1>2 DEF Starts
  <2> QED
    BY <1>6, <2>1
<1>9. n + 1 \in Nat
  BY <1>2
<1>10. Family(S, U, d, n + 1, f)
  BY <1>2, <1>7, <1>8, <1>9 DEF Family, Starts
<1>11. m + Len(l) = f + d[n + 1]
  <2>1. n \in 0 .. n
    BY <1>2
  <2>2. b[n] \in Nat /\ m = f + b[n]
    BY <1>1, <1>3, <2>1 DEF n
  <2> QED
    BY <1>2, <1>4, <1>6, <2>2
<1>12. Family(S, U, d, Len(S), f) /\ m + Len(l) = f + d[Len(S)]
  BY <1>5, <1>10, <1>11
<1>13. Row(S, U, f, m + Len(l))
  BY <1>5, <1>12 DEF Row
<1> QED
  BY <1>13 DEF S, U

\* The list of a node from the level of its children.
LEMMA RowCtor ==
  ASSUME NEW subs, NEW ts, NEW f, NEW m, Row(subs, ts, f, m), NEW node
  PROVE  LET c == fb_tree_ctor(node, subs, m)
         IN  ListOf(c, <<node, ts>>, f) /\ f + Len(c) = m + 1
<1>1. PICK b : Family(subs, ts, b, Len(subs), f) /\ m = f + b[Len(subs)]
  BY DEF Row
<1>2. Len(subs) \in Nat /\ f \in Nat /\ Starts(b, subs, Len(subs))
  BY <1>1 DEF Family
<1>3. b[Len(subs)] \in Nat
  BY <1>2, StartsIncrease
<1> DEFINE c == fb_tree_ctor(node, subs, f + b[Len(subs)])
<1>4. ListOf(c, <<node, ts>>, f) /\ Len(c) = b[Len(subs)] + 1
  BY <1>1, CtorMakesList DEF Row
<1> HIDE DEF c
<1>5. f + Len(c) = m + 1
  BY <1>1, <1>2, <1>3, <1>4
<1> QED
  BY <1>1, <1>4, <1>5 DEF c

\* A level is opened.
LEMMA LevelsPre ==
  ASSUME ListsInv, Sequence(built), BuildPre
  PROVE  ListsInv'
<1>1. PICK o : Levels(lists, built, o, made)
  BY DEF ListsInv
<1> DEFINE n == Len(lists)
           o2 == [k \in 1 .. n + 2 |-> IF k = n + 2 THEN made ELSE o[k]]
           L2 == Append(lists, << >>)
           B2 == Append(built, << >>)
<1>2. lists' = L2 /\ built' = B2 /\ made' = made
  BY DEF BuildPre
<1>3. Sequence(lists) /\ Len(built) = n /\ n \in Nat
  BY LenProperties DEF ListsInv, Sequence
<1>4. /\ Sequence(L2) /\ Len(L2) = n + 1 /\ L2[n + 1] = << >> /\ \A k \in 1 .. n : L2[k] = lists[k]
      /\ Sequence(B2) /\ Len(B2) = n + 1 /\ B2[n + 1] = << >> /\ \A k \in 1 .. n : B2[k] = built[k]
  <2>1. Sequence(L2) /\ Len(L2) = n + 1 /\ L2[n + 1] = << >> /\ \A k \in 1 .. n : L2[k] = lists[k]
    BY <1>3, Appended, ZenonT(90)
  <2>2. Sequence(B2) /\ Len(B2) = n + 1 /\ B2[n + 1] = << >> /\ \A k \in 1 .. n : B2[k] = built[k]
    <3> HIDE DEF n
    <3>1. /\ Sequence(B2) /\ Len(B2) = Len(built) + 1 /\ B2[Len(built) + 1] = << >>
          /\ \A k \in 1 .. Len(built) : B2[k] = built[k]
      BY Appended, ZenonT(90)
    <3> QED
      BY <1>3, <3>1
  <2> QED
    BY <2>1, <2>2
<1>5. o2[n + 2] = made /\ \A k \in 1 .. n + 1 : o2[k] = o[k]
  BY <1>3
<1> HIDE DEF n, o2, L2, B2
<1>6. /\ o[1] = 0 /\ o[n + 1] = made
      /\ \A k \in 1 .. n : Row(lists[k], built[k], o[k], o[k + 1])
  BY <1>1 DEF Levels, n
<1>7. made \in Nat
  <2>1. CASE n = 0
    BY <1>6, <2>1
  <2>2. CASE n # 0
    <3>1. n \in 1 .. n
      BY <1>3, <2>2
    <3>2. Row(lists[n], built[n], o[n], made)
      BY <1>6, <3>1
    <3> QED
      BY <3>2, RowNumbers
  <2> QED
    BY <2>1, <2>2
<1>8. ASSUME NEW k \in 1 .. n + 1 PROVE Row(L2[k], B2[k], o2[k], o2[k + 1])
  <2>1. CASE k \in 1 .. n
    <3>1. k + 1 \in 1 .. n + 1
      BY <1>3, <2>1
    <3> QED
      BY <1>4, <1>5, <1>6, <2>1, <3>1
  <2>2. CASE k = n + 1
    <3>1. o2[k] = made /\ o2[k + 1] = made
      <4>1. k + 1 = n + 2
        BY <1>3, <2>2
      <4> QED
        BY <1>5, <1>6, <2>2, <4>1
    <3>2. Row(<< >>, << >>, made, made)
      BY <1>7, RowEmpty
    <3> QED
      BY <1>4, <2>2, <3>1, <3>2
  <2> QED
    BY <1>3, <2>1, <2>2
<1>9. Levels(L2, B2, o2, made)
  <2>1. o2[1] = 0
    BY <1>3, <1>5, <1>6
  <2>2. o2[Len(L2) + 1] = made
    <3>1. Len(L2) + 1 = n + 2
      BY <1>3, <1>4
    <3> QED
      BY <1>5, <3>1
  <2> QED
    BY <1>4, <1>8, <2>1, <2>2 DEF Levels
<1> QED
  BY <1>2, <1>4, <1>9 DEF ListsInv

\* A level is closed: the list of the node goes to the level below.
LEMMA LevelsPost ==
  ASSUME ListsInv, Sequence(built), NEW m \in Nat, m > 0, Len(built) = m + 1, NEW node, BuildPost(node)
  PROVE  ListsInv'
<1>1. PICK o : Levels(lists, built, o, made)
  BY DEF ListsInv
<1> DEFINE l == fb_tree_ctor(node, Last(lists), made)
           t == <<node, Last(built)>>
           o2 == [k \in 1 .. m + 1 |-> IF k = m + 1 THEN made + 1 ELSE o[k]]
           L2 == Deposit(lists, l)
           B2 == Deposit(built, t)
<1>2. lists' = L2 /\ built' = B2 /\ made' = made + 1
  BY DEF BuildPost
<1>3. Sequence(lists) /\ Len(lists) = m + 1
  BY DEF ListsInv
<1>4. Last(lists) = lists[m + 1] /\ Last(built) = built[m + 1]
  BY <1>3 DEF Last
<1>5. /\ o[1] = 0 /\ o[m + 2] = made
      /\ \A k \in 1 .. m + 1 : Row(lists[k], built[k], o[k], o[k + 1])
  <2>1. Len(lists) + 1 = m + 2
    BY <1>3
  <2>2. o[1] = 0 /\ o[Len(lists) + 1] = made /\ \A k \in 1 .. Len(lists) : Row(lists[k], built[k], o[k], o[k + 1])
    BY <1>1 DEF Levels
  <2> QED
    BY <1>3, <2>1, <2>2
<1> HIDE DEF l, t
<1>6. Row(lists[m], built[m], o[m], o[m + 1]) /\ Row(lists[m + 1], built[m + 1], o[m + 1], made)
  <2>1. m \in 1 .. m + 1 /\ m + 1 \in 1 .. m + 1 /\ (m + 1) + 1 = m + 2
    OBVIOUS
  <2>2. Row(lists[m + 1], built[m + 1], o[m + 1], o[(m + 1) + 1])
    BY <1>5, <2>1
  <2> QED
    BY <1>5, <2>1, <2>2
<1>7. ListOf(l, t, o[m + 1]) /\ o[m + 1] + Len(l) = made + 1
  BY <1>4, <1>6, RowCtor DEF l, t
<1>8. Row(Append(lists[m], l), Append(built[m], t), o[m], made + 1)
  <2>1. Row(Append(lists[m], l), Append(built[m], t), o[m], o[m + 1] + Len(l))
    BY <1>6, <1>7, RowMore
  <2> QED
    BY <1>7, <2>1
<1>9. Sequence(L2) /\ Len(L2) = m /\ L2[m] = Append(lists[m], l) /\ \A k \in 1 .. m - 1 : L2[k] = lists[k]
  <2>1. Deposited(lists, m, l)
    BY <1>3, DepositFacts
  <2> QED
    BY <2>1 DEF Deposited
<1>10. Sequence(B2) /\ Len(B2) = m /\ B2[m] = Append(built[m], t) /\ \A k \in 1 .. m - 1 : B2[k] = built[k]
  <2>1. Deposited(built, m, t)
    BY DepositFacts
  <2> QED
    BY <2>1 DEF Deposited
<1>11. o2[m + 1] = made + 1 /\ \A k \in 1 .. m : o2[k] = o[k]
  OBVIOUS
<1> HIDE DEF o2, L2, B2
<1>12. ASSUME NEW k \in 1 .. m PROVE Row(L2[k], B2[k], o2[k], o2[k + 1])
  <2>1. CASE k \in 1 .. m - 1
    <3>1. k \in 1 .. m /\ k + 1 \in 1 .. m /\ k \in 1 .. m + 1
      BY <2>1
    <3>2. L2[k] = lists[k] /\ B2[k] = built[k] /\ o2[k] = o[k] /\ o2[k + 1] = o[k + 1]
      BY <1>9, <1>10, <1>11, <2>1, <3>1
    <3> QED
      BY <1>5, <3>1, <3>2
  <2>2. CASE k = m
    <3>1. o2[k] = o[m] /\ o2[k + 1] = made + 1
      BY <1>11, <2>2
    <3> QED
      BY <1>8, <1>9, <1>10, <2>2, <3>1
  <2> QED
    BY <2>1, <2>2, LastIndex
<1>13. Levels(L2, B2, o2, made + 1)
  <2>1. o2[1] = 0
    <3>1. 1 \in 1 .. m
      OBVIOUS
    <3> QED
      BY <1>5, <1>11, <3>1
  <2> QED
    BY <1>9, <1>11, <1>12, <2>1 DEF Levels
<1> QED
  BY <1>2, <1>9, <1>10, <1>13 DEF ListsInv

\* Nothing is built yet.
LEMMA ListsInit ==
  ASSUME InitTraversal
  PROVE  ListsInv
<1> DEFINE o == [k \in 1 .. 2 |-> 0]
<1>1. lists = << << >> >> /\ built = << << >> >> /\ made = 0
  BY DEF InitTraversal
<1>2. Sequence(lists) /\ Len(lists) = 1 /\ lists[1] = << >> /\ Len(built) = 1 /\ built[1] = << >>
  BY <1>1, ShortSequences
<1>3. o[1] = 0 /\ o[1 + 1] = 0
  OBVIOUS
<1> HIDE DEF o
<1>4. Row(<< >>, << >>, 0, 0)
  BY RowEmpty
<1>5. \A k \in 1 .. 1 : Row(lists[k], built[k], o[k], o[k + 1])
  <2> TAKE k \in 1 .. 1
  <2>1. k = 1
    OBVIOUS
  <2>2. o[k] = 0 /\ o[k + 1] = 0 /\ lists[k] = << >> /\ built[k] = << >>
    BY <1>2, <1>3, <2>1
  <2> QED
    BY <1>4, <2>2
<1>6. Levels(lists, built, o, made)
  BY <1>1, <1>2, <1>3, <1>5 DEF Levels
<1> QED
  BY <1>2, <1>6 DEF ListsInv

\* Every step keeps the lists as those of the trees.
LEMMA ListsStep ==
  ASSUME TraversalInv, ListsInv, [Next]_vars
  PROVE  ListsInv'
<1>1. Sequence(built) /\ Len(stack) \in Nat /\ Len(stack) > 0
  BY LenProperties DEF TraversalInv, Shape
<1>2. CASE \E answer : Pre(answer)
  <2>1. BuildPre
    BY <1>2 DEF Pre
  <2> QED
    BY <1>1, <2>1, LevelsPre
<1>3. CASE Post
  <2> DEFINE m == Len(stack) - 1
  <2>1. Len(built) = Len(stack)
    BY <1>3 DEF Post, TraversalInv, Searching
  <2>2. m \in Nat /\ m > 0 /\ Len(built) = m + 1
    <3>1. Len(stack) # 1
      BY <1>3 DEF Post, is_at_root_level
    <3> QED
      BY <1>1, <2>1, <3>1
  <2>3. BuildPost(current_node(pop_level(stack)))
    BY <1>3 DEF Post
  <2> HIDE DEF m
  <2> QED
    BY <1>1, <2>2, <2>3, LevelsPost
<1>4. CASE Unwind
  <2>1. Len(built) = Len(stack) + 1
    BY <1>4 DEF Unwind, TraversalInv, Unwinding
  <2>2. BuildPost(current_node(stack))
    BY <1>4 DEF Unwind
  <2> QED
    BY <1>1, <2>1, <2>2, LevelsPost
<1>5. CASE UNCHANGED <<built, lists, made>>
  BY <1>5, ZenonT(90) DEF ListsInv, Levels, Row
<1>6. (\E answer : Pre(answer)) \/ Post \/ Unwind \/ UNCHANGED <<built, lists, made>>
  <2>1. CASE AnyPre
    BY <2>1 DEF AnyPre
  <2>2. CASE SamePre
    BY <2>2 DEF SamePre
  <2>3. CASE DiffPre
    BY <2>3 DEF DiffPre
  <2>4. CASE Post \/ Unwind
    BY <2>4
  <2>5. CASE Done
    BY <2>5 DEF Done
  <2>6. CASE UNCHANGED vars
    BY <2>6 DEF vars, traversal
  <2> QED
    BY <2>1, <2>2, <2>3, <2>4, <2>5, <2>6 DEF Next, Returned
<1> QED
  BY <1>2, <1>3, <1>4, <1>5, <1>6

-----------------------------------------------------------------------------
(***************************************************************************)
(* The list of a whole traversal                                           *)
(***************************************************************************)

\* w[i] is the tree under the entry numbered i.
IsUnrolled(w, l) ==
  w = [i \in 0 .. Len(l) - 1 |->
         <<l[i + 1].value, [k \in DOMAIN l[i + 1].forward |-> w[l[i + 1].forward[k]]]>>]

\* Unrolled is given by such a function.
LEMMA UnrolledIs == \A l : Unrolled(l) = (CHOOSE w : IsUnrolled(w, l))[Len(l) - 1]
BY DEF Unrolled, IsUnrolled

\* The trees under the entries in one numbering are those in the other.
LEMMA UnrolledEntry ==
  ASSUME NEW l, NEW n \in Nat, Len(l) = n, ForwardBefore(l), NEW u, Unrolls(u, l), NEW w, NEW i \in 0 .. n - 1,
         \A j \in 0 .. i - 1 : w[j] = u[j + 1]
  PROVE  u[i + 1] = <<l[i + 1].value, [k \in DOMAIN l[i + 1].forward |-> w[l[i + 1].forward[k]]]>>
<1> DEFINE p == i + 1
           f == l[p].forward
<1>1. p \in 1 .. Len(l) /\ p - 2 = i - 1
  OBVIOUS
<1>2. IsEntry(l[p]) /\ \A k \in 1 .. Len(f) : f[k] \in 0 .. p - 2
  <2> HIDE DEF p
  <2> QED
    BY <1>1 DEF ForwardBefore
<1>3. u[p] = <<l[p].value, [k \in DOMAIN f |-> u[f[k] + 1]]>>
  <2> HIDE DEF p
  <2> QED
    BY <1>1 DEF Unrolls
<1>4. DOMAIN f = 1 .. Len(f)
  <2> HIDE DEF p
  <2> QED
    BY <1>2, LenProperties DEF IsEntry, Sequence
<1> HIDE DEF f
<1>5. \A k \in DOMAIN f : w[f[k]] = u[f[k] + 1]
  BY <1>1, <1>2, <1>4
<1>6. [k \in DOMAIN f |-> u[f[k] + 1]] = [k \in DOMAIN f |-> w[f[k]]]
  BY <1>5
<1> QED
  BY <1>3, <1>6 DEF f

\* A list unrolls to the tree it is the list of.
LEMMA UnrolledExact ==
  ASSUME NEW l, NEW t, NEW off, ListOf(l, t, off)
  PROVE  Unrolled(l) = t
<1> DEFINE n == Len(l)
<1>1. n \in Nat /\ n > 0 /\ ForwardBefore(l)
  BY LenProperties DEF ListOf, Sequence
<1>2. PICK u : Unrolls(u, l) /\ u[n] = t
  BY DEF ListOf, UnrollsTo
<1>0. Len(l) = n
  OBVIOUS
<1> HIDE DEF n
<1> DEFINE v == [i \in 0 .. n - 1 |-> u[i + 1]]
<1>3. IsUnrolled(v, l)
  <2>1. \A i \in 0 .. n - 1 : v[i] = u[i + 1]
    OBVIOUS
  <2>2. v = [i \in 0 .. n - 1 |-> v[i]]
    OBVIOUS
  <2> HIDE DEF v
  <2>3. ASSUME NEW i \in 0 .. n - 1
        PROVE  v[i] = <<l[i + 1].value, [k \in DOMAIN l[i + 1].forward |-> v[l[i + 1].forward[k]]]>>
    <3>1. \A j \in 0 .. i - 1 : v[j] = u[j + 1]
      BY <1>1, <2>1
    <3>2. u[i + 1] = <<l[i + 1].value, [k \in DOMAIN l[i + 1].forward |-> v[l[i + 1].forward[k]]]>>
      BY <1>0, <1>1, <1>2, <3>1, UnrolledEntry
    <3> QED
      BY <2>1, <3>2
  <2> QED
    BY <1>0, <2>2, <2>3 DEF IsUnrolled
<1> HIDE DEF v
<1> DEFINE w == CHOOSE w : IsUnrolled(w, l)
<1>4. IsUnrolled(w, l)
  BY <1>3
<1>5. Unrolled(l) = w[n - 1]
  BY <1>0, UnrolledIs
<1> HIDE DEF w
<1>6. ASSUME NEW i \in 0 .. n - 1
      PROVE  w[i] = <<l[i + 1].value, [k \in DOMAIN l[i + 1].forward |-> w[l[i + 1].forward[k]]]>>
  BY <1>0, <1>4, Zenon DEF IsUnrolled
<1> DEFINE bad == {i \in 0 .. n - 1 : w[i] # u[i + 1]}
<1>7. bad = {}
  <2> SUFFICES ASSUME bad # {} PROVE FALSE
    OBVIOUS
  <2>1. bad \in SUBSET Nat
    OBVIOUS
  <2>2. PICK i \in bad : \A j \in bad : i <= j
    <3> HIDE DEF bad
    <3> QED
      BY <2>1, LeastNat
  <2>3. i \in 0 .. n - 1 /\ w[i] # u[i + 1]
    OBVIOUS
  <2>4. \A j \in 0 .. i - 1 : w[j] = u[j + 1]
    <3> SUFFICES ASSUME NEW j \in 0 .. i - 1, w[j] # u[j + 1] PROVE FALSE
      OBVIOUS
    <3>1. j \in 0 .. n - 1 /\ ~(i <= j)
      BY <1>1, <2>3
    <3> QED
      BY <2>2, <3>1
  <2>5. u[i + 1] = <<l[i + 1].value, [k \in DOMAIN l[i + 1].forward |-> w[l[i + 1].forward[k]]]>>
    BY <1>0, <1>1, <1>2, <2>3, <2>4, UnrolledEntry
  <2> QED
    BY <1>6, <2>3, <2>5
<1>8. w[n - 1] = u[n]
  <2>1. n - 1 \in 0 .. n - 1 /\ (n - 1) + 1 = n
    BY <1>1
  <2>2. w[n - 1] = u[(n - 1) + 1]
    BY <1>7, <2>1
  <2> QED
    BY <2>1, <2>2
<1> QED
  BY <1>2, <1>5, <1>8

\* A traversal of a graph with a root, for answers that suffice, enters it.
LEMMA RootEntered ==
  ASSUME NEW g, IsGraph(g), NEW a \in Seq(Step), NEW ns \in Seq(DOMAIN g.forward), ns # << >>,
         VisitOf(g, a, 1, ns, << >>).left = Len(a) + 1
  PROVE  Len(VisitOf(g, a, 1, ns, << >>).trees) > 0
<1> DEFINE u == Visit(g, a)
           anc == << >>
           at == <<1, ns, anc>>
           below == BelowOf(g, u, a, 1, ns, anc)
           other == OtherOf(u, below, ns, anc)
<1>0. Len(a) \in Nat /\ anc \in Seq(DOMAIN g.forward)
  BY LenProperties, EmptySeq
<1>1. at \in Places(g, a) /\ at[1] = 1 /\ at[2] = ns /\ at[3] = anc
  <2>1. 1 \in 1 .. Len(a) + 2
    BY <1>0
  <2> HIDE DEF anc
  <2> QED
    BY <1>0, <2>1, PlaceIn
<1> HIDE DEF anc
<1>2. u[at] = VisitBody(g, u, a, at) /\ u[at].left = Len(a) + 1
  <2>1. u[at].left = Len(a) + 1
    BY DEF VisitOf, anc
  <2> HIDE DEF at
  <2> QED
    BY <1>1, <2>1, VisitFacts
<1>3. \A p \in Places(g, a) : IsResult(u[p], p[1], Len(a))
  BY VisitFacts
<1>4. ~(1 > Len(a))
  <2> SUFFICES ASSUME 1 > Len(a) PROVE FALSE
    OBVIOUS
  <2> DEFINE down == WayOf("down", anc, Append(anc, Head(ns)))
  <2>1. u[at] = Result(down, Len(a) + 2, TRUE, << >>)
    <3> HIDE DEF at
    <3> QED
      BY <1>1, <1>2 DEF VisitBody
  <2>2. u[at].left = Len(a) + 2
    <3> HIDE DEF at, u, down
    <3> QED
      BY <2>1 DEF Result
  <2> QED
    BY <1>0, <1>2, <2>2
<1>5. 1 \in 1 .. Len(a)
  BY <1>0, <1>4
<1>6. IsResult(below, 1 + 1, Len(a))
  <2> HIDE DEF u, at
  <2> QED
    BY <1>0, <1>3, <1>5, BelowFacts
<1>7. IsResult(other, 1 + 1, Len(a))
  <2> HIDE DEF u, at, below
  <2> QED
    BY <1>0, <1>3, <1>5, <1>6, OtherFacts
<1>8. u[at] = Entered(below, other, ns, anc)
  <2> HIDE DEF at, u
  <2> QED
    BY <1>1, <1>2, <1>4 DEF VisitBody
<1>9. Sequence(other.trees)
  BY <1>7 DEF IsResult
<1> DEFINE one == << <<Head(ns), below.trees>> >>
<1>10. u[at].trees = Join(one, other.trees)
  <2> HIDE DEF at, u, below, other
  <2> QED
    BY <1>8, ResultFields DEF Entered
<1>11. Sequence(one) /\ Len(one) = 1
  BY ShortSequences
<1> HIDE DEF one, other
<1>12. Len(Join(one, other.trees)) = 1 + Len(other.trees) /\ Len(other.trees) \in Nat
  BY <1>9, <1>11, Concatenation, ZenonT(90)
<1>13. Len(u[at].trees) > 0
  BY <1>10, <1>12
<1> QED
  BY <1>13 DEF VisitOf, anc

\* The lists of a whole traversal are those of the trees built.
LEMMA ListsExact ==
  ASSUME TraversalInv, ListsInv
  PROVE  ListsCoherent
<1> SUFFICES ASSUME phase = "done", Len(graph.roots) = 1 PROVE ListsCoherent
  BY DEF ListsCoherent
<1> DEFINE l == lists[1][1]
           t == built[1][1]
<1>1. /\ Ended(graph, calls, steps, built, found # << >>) /\ steps \in Seq(Step) /\ IsGraph(graph)
  BY DEF TraversalInv, Shape
<1>2. Upto(steps, steps)
  <2>1. Len(steps) \in Nat
    BY <1>1, LenProperties
  <2> QED
    BY <2>1 DEF Upto
<1>3. /\ VisitOf(graph, steps, 1, graph.roots, << >>).left = Len(steps) + 1 /\ Len(built) = 1
      /\ VisitOf(graph, steps, 1, graph.roots, << >>).trees = built[1]
  <2>1. /\ VisitOf(graph, steps, 1, graph.roots, << >>) = Result(calls, Len(steps) + 1, found # << >>, built[1])
        /\ Len(built) = 1
    BY <1>1, <1>2 DEF Ended
  <2> QED
    BY <2>1, ResultFields
<1>4. Len(built[1]) > 0
  <2>1. graph.roots \in Seq(DOMAIN graph.forward)
    BY <1>1 DEF IsGraph
  <2>2. graph.roots # << >>
    <3>1. Len(<< >>) = 0
      OBVIOUS
    <3> QED
      BY <3>1
  <2> QED
    BY <1>1, <1>3, <2>1, <2>2, RootEntered
<1>5. PICK o : Levels(lists, built, o, made)
  BY DEF ListsInv
<1>6. Row(lists[1], built[1], 0, o[1 + 1])
  <2>1. Len(lists) = 1 /\ 1 \in 1 .. 1
    BY <1>3 DEF ListsInv
  <2> QED
    BY <1>5, <2>1 DEF Levels
<1>7. ListOf(l, t, 0)
  <2>1. PICK b : Family(lists[1], built[1], b, Len(lists[1]), 0)
    BY <1>6 DEF Row
  <2>2. Len(lists[1]) \in Nat /\ Len(built[1]) = Len(lists[1])
    BY <1>6, <2>1 DEF Row, Family
  <2>3. 1 \in 1 .. Len(lists[1]) /\ 1 - 1 = 0
    BY <1>4, <2>2
  <2>4. b[0] = 0
    BY <2>1 DEF Family, Starts
  <2>5. ListOf(lists[1][1], built[1][1], 0 + b[1 - 1])
    BY <2>1, <2>3 DEF Family
  <2>6. 0 + b[1 - 1] = 0
    BY <2>3, <2>4
  <2> QED
    BY <2>5, <2>6
<1> HIDE DEF l, t
<1>8. Unrolled(l) = t
  BY <1>7, UnrolledExact
<1>9. Coherent(l, 0) /\ Len(l) \in Nat
  BY <1>7, LenProperties DEF ListOf, Sequence
<1>10. ASSUME NEW i \in 0 .. Len(l) - 1, NEW j \in 0 .. Len(l) - 1
       PROVE  (j \in ToSet(l[i + 1].forward)) = (l[j + 1].backward = <<i>>)
  <2> DEFINE p == i + 1
             q == j + 1
  <2>1. p \in 1 .. Len(l) /\ q \in 1 .. Len(l) /\ q - 1 = j /\ 0 + (p - 1) = i
    BY <1>9
  <2> HIDE DEF p, q
  <2>2. (q - 1 \in ToSet(l[p].forward)) <=> (l[q].backward = <<0 + (p - 1)>>)
    BY <1>9, <2>1 DEF Coherent
  <2>3. (j \in ToSet(l[p].forward)) <=> (l[q].backward = <<i>>)
    BY <2>1, <2>2
  <2> QED
    BY <2>3 DEF p, q
<1> QED
  BY <1>8, <1>10 DEF ListsCoherent, l, t

-----------------------------------------------------------------------------
(***************************************************************************)
(* The children of two nodes are paired by their names                     *)
(***************************************************************************)

\* The order of names.
LEMMA LessNames ==
  ASSUME NEW m, NEW n, NEW o, m.name \in Int \X Int, n.name \in Int \X Int, o.name \in Int \X Int
  PROVE  /\ less_by_name(m, n) \/ less_by_name(n, m) \/ m.name = n.name
         /\ less_by_name(m, n) => m.name # n.name /\ ~less_by_name(n, m)
         /\ less_by_name(m, n) /\ less_by_name(n, o) => less_by_name(m, o)
         /\ less_by_name(m, n) /\ n.name = o.name => less_by_name(m, o)
         /\ m.name = n.name /\ less_by_name(n, o) => less_by_name(m, o)
<1>1. PICK m1 \in Int, m2 \in Int : m.name = <<m1, m2>>
  OBVIOUS
<1>2. PICK n1 \in Int, n2 \in Int : n.name = <<n1, n2>>
  OBVIOUS
<1>3. PICK o1 \in Int, o2 \in Int : o.name = <<o1, o2>>
  OBVIOUS
<1>4. /\ less_by_name(m, n) <=> m1 < n1 \/ (m1 = n1 /\ m2 < n2)
      /\ less_by_name(n, m) <=> n1 < m1 \/ (n1 = m1 /\ n2 < m2)
      /\ less_by_name(n, o) <=> n1 < o1 \/ (n1 = o1 /\ n2 < o2)
      /\ less_by_name(m, o) <=> m1 < o1 \/ (m1 = o1 /\ m2 < o2)
  BY <1>1, <1>2, <1>3 DEF less_by_name
<1>5. (m.name = n.name <=> m1 = n1 /\ m2 = n2) /\ (n.name = o.name <=> n1 = o1 /\ n2 = o2)
  BY <1>1, <1>2, <1>3
<1> QED
  BY <1>4, <1>5

\* A sequence of positions in t, in the order of the names.
InOrder(x, t) ==
  /\ Sequence(x)
  /\ \A k \in 1 .. Len(x) : t[x[k]].name \in Int \X Int
  /\ \A k, l \in 1 .. Len(x) : k < l => less_by_name(t[x[k]], t[x[l]])

\* An entry of x that no entry of y from j on has the name of.
Alone(a, t, y, j, u) == \A l \in j .. Len(y) : t[a].name # u[y[l]].name

\* The result r of the merge of x from i on and y from j on.
Paired(r, x, y, t, u, i, j) ==
  /\ \A p \in ToSet(r.inter) : \E k \in i .. Len(x), l \in j .. Len(y) :
       p = <<x[k], y[l]>> /\ t[x[k]].name = u[y[l]].name
  /\ \A k \in i .. Len(x) : x[k] \in ToSet(r.diff_x) \/ \E p \in ToSet(r.inter) : p[1] = x[k]
  /\ \A l \in j .. Len(y) : y[l] \in ToSet(r.diff_y) \/ \E p \in ToSet(r.inter) : p[2] = y[l]
  /\ \A a \in ToSet(r.diff_x) : \E k \in i .. Len(x) : a = x[k] /\ Alone(x[k], t, y, j, u)
  /\ \A b \in ToSet(r.diff_y) : \E l \in j .. Len(y) : b = y[l] /\ Alone(y[l], u, x, i, t)

\* The entries of a sequence with one more at its beginning.
LEMMA ConsSet ==
  ASSUME NEW s, Sequence(s), NEW a
  PROVE  ToSet(<<a>> \o s) = {a} \cup ToSet(s) /\ Sequence(<<a>> \o s)
<1> DEFINE S == ToSet(s) \cup {a}
<1>1. s \in Seq(S) /\ <<a>> \in Seq(S) /\ Len(s) \in Nat
  BY LenProperties DEF Sequence
<1> HIDE DEF S
<1> DEFINE r == <<a>> \o s
<1>2. r \in Seq(S) /\ Len(r) = Len(s) + 1 /\ r[1] = a /\ \A k \in 1 .. Len(s) : r[k + 1] = s[k]
  BY <1>1
<1> HIDE DEF r
<1>3. DOMAIN r = 1 .. Len(s) + 1 /\ DOMAIN s = 1 .. Len(s)
  BY <1>1, <1>2, LenProperties
<1>4. ASSUME NEW e PROVE e \in ToSet(r) <=> e = a \/ e \in ToSet(s)
  <2>1. ASSUME NEW k \in 1 .. Len(s) + 1, e = r[k] PROVE e = a \/ e \in ToSet(s)
    <3>1. CASE k = 1
      BY <1>2, <2>1, <3>1
    <3>2. CASE k # 1
      <4> DEFINE l == k - 1
      <4>1. l \in 1 .. Len(s) /\ l + 1 = k
        BY <1>1, <3>2
      <4> HIDE DEF l
      <4>2. e = s[l]
        BY <1>2, <2>1, <4>1
      <4> QED
        BY <1>3, <4>1, <4>2 DEF ToSet
    <3> QED
      BY <3>1, <3>2
  <2>2. ASSUME e = a PROVE e \in ToSet(r)
    <3>1. 1 \in 1 .. Len(s) + 1
      BY <1>1
    <3> QED
      BY <1>2, <1>3, <2>2, <3>1 DEF ToSet
  <2>3. ASSUME NEW k \in 1 .. Len(s), e = s[k] PROVE e \in ToSet(r)
    <3>1. k + 1 \in 1 .. Len(s) + 1 /\ e = r[k + 1]
      BY <1>1, <1>2, <2>3
    <3> QED
      BY <1>3, <3>1 DEF ToSet
  <2>4. e \in ToSet(r) => \E k \in 1 .. Len(s) + 1 : e = r[k]
    BY <1>3 DEF ToSet
  <2>5. e \in ToSet(s) => \E k \in 1 .. Len(s) : e = s[k]
    BY <1>3 DEF ToSet
  <2> QED
    BY <2>1, <2>2, <2>3, <2>4, <2>5
<1>5. Sequence(r)
  BY <1>2, SequenceIn
<1> QED
  BY <1>4, <1>5 DEF r

\* The entries of the end of a sequence.
LEMMA EndSet ==
  ASSUME NEW s, Sequence(s), NEW i \in 1 .. Len(s) + 1
  PROVE  ToSet(SubSeq(s, i, Len(s))) = {s[k] : k \in i .. Len(s)}
<1>1. Len(s) \in Nat /\ s \in Seq(ToSet(s))
  BY LenProperties DEF Sequence
<1> DEFINE r == SubSeq(s, i, Len(s))
<1>2. Len(r) = Len(s) - i + 1 /\ DOMAIN r = 1 .. Len(s) - i + 1 /\ \A k \in 1 .. Len(s) - i + 1 : r[k] = s[i + k - 1]
  BY <1>1, SubSeqProperties
<1> HIDE DEF r
<1>3. \A k \in 1 .. Len(s) - i + 1 : i + k - 1 \in i .. Len(s) /\ r[k] = s[i + k - 1]
  BY <1>1, <1>2
<1>4. \A l \in i .. Len(s) : \E k \in 1 .. Len(s) - i + 1 : l = i + k - 1
  <2> TAKE l \in i .. Len(s)
  <2>1. l - i + 1 \in 1 .. Len(s) - i + 1 /\ l = i + (l - i + 1) - 1
    BY <1>1
  <2> QED
    BY <2>1
<1> QED
  BY <1>2, <1>3, <1>4, SMTT(60) DEF ToSet, r

\* The fields of a result of the merge of which one is replaced.
LEMMA MergedFields ==
  ASSUME NEW A, NEW B, NEW r \in Merged(A, B), NEW s
  PROVE  /\ [r EXCEPT !.diff_x = s].inter = r.inter /\ [r EXCEPT !.diff_x = s].diff_y = r.diff_y
         /\ [r EXCEPT !.diff_x = s].diff_x = s
         /\ [r EXCEPT !.diff_y = s].inter = r.inter /\ [r EXCEPT !.diff_y = s].diff_x = r.diff_x
         /\ [r EXCEPT !.diff_y = s].diff_y = s
         /\ [r EXCEPT !.inter = s].diff_x = r.diff_x /\ [r EXCEPT !.inter = s].diff_y = r.diff_y
         /\ [r EXCEPT !.inter = s].inter = s
         /\ Sequence(r.diff_x) /\ Sequence(r.diff_y) /\ Sequence(r.inter)
<1>1. r.diff_x \in Seq(A) /\ r.diff_y \in Seq(B) /\ r.inter \in Seq(A \X B)
  BY DEF Merged
<1>2. Sequence(r.diff_x) /\ Sequence(r.diff_y) /\ Sequence(r.inter)
  BY <1>1, SequenceIn
<1>3. DOMAIN r = {"inter", "diff_x", "diff_y"}
  BY DEF Merged
<1> QED
  BY <1>2, <1>3

\* An entry of x before an entry of y is before those that follow.
LEMMA BeforeAll ==
  ASSUME NEW x, NEW y, NEW t, NEW u, InOrder(x, t), InOrder(y, u),
         NEW i \in 1 .. Len(x), NEW j \in 1 .. Len(y), NEW l \in j .. Len(y)
  PROVE  /\ less_by_name(t[x[i]], u[y[j]]) => t[x[i]].name # u[y[l]].name
         /\ t[x[i]].name = u[y[j]].name /\ l # j => t[x[i]].name # u[y[l]].name
<1> DEFINE a == t[x[i]]
           b == u[y[j]]
           c == u[y[l]]
<1>0. Len(y) \in Nat
  BY LenProperties DEF InOrder, Sequence
<1>1. l \in 1 .. Len(y)
  BY <1>0
<1>2. a.name \in Int \X Int /\ b.name \in Int \X Int /\ c.name \in Int \X Int
  BY <1>1 DEF InOrder
<1>3. l = j \/ less_by_name(b, c)
  <2>1. l = j \/ j < l
    BY <1>0
  <2> QED
    BY <1>1, <2>1 DEF InOrder
<1> HIDE DEF a, b, c
<1>4. less_by_name(a, b) => a.name # c.name
  <2>1. CASE l = j
    <3>1. c = b
      BY <2>1 DEF b, c
    <3> QED
      BY <1>2, <3>1, LessNames
  <2>2. CASE less_by_name(b, c)
    BY <1>2, <2>2, LessNames
  <2> QED
    BY <1>3, <2>1, <2>2
<1>5. a.name = b.name /\ l # j => a.name # c.name
  BY <1>2, <1>3, LessNames
<1> QED
  BY <1>4, <1>5 DEF a, b, c

\* The places left, the first apart.
LEMMA FirstPlace ==
  ASSUME NEW n \in Nat, NEW i \in 1 .. n
  PROVE  /\ \A k \in i .. n : k = i \/ k \in i + 1 .. n
         /\ \A k \in i + 1 .. n : k \in i .. n /\ k # i /\ k \in 1 .. n
         /\ i \in i .. n
OBVIOUS

\* One step of the merge keeps entries paired by their names.
LEMMA PairedX ==
  ASSUME NEW A, NEW B, NEW r \in Merged(A, B), NEW x, NEW y, NEW t, NEW u, InOrder(x, t), InOrder(y, u),
         NEW i \in 1 .. Len(x), NEW j \in 1 .. Len(y), less_by_name(t[x[i]], u[y[j]]),
         Paired(r, x, y, t, u, i + 1, j)
  PROVE  Paired([r EXCEPT !.diff_x = <<x[i]>> \o @], x, y, t, u, i, j)
<1> DEFINE w == [r EXCEPT !.diff_x = <<x[i]>> \o @]
<1>1. w.inter = r.inter /\ w.diff_y = r.diff_y /\ ToSet(w.diff_x) = {x[i]} \cup ToSet(r.diff_x)
  <2> DEFINE s == <<x[i]>> \o r.diff_x
  <2>1. ToSet(s) = {x[i]} \cup ToSet(r.diff_x)
    BY MergedFields, ConsSet
  <2>2. w = [r EXCEPT !.diff_x = s]
    OBVIOUS
  <2> HIDE DEF s, w
  <2> QED
    BY <2>1, <2>2, MergedFields
<1> HIDE DEF w
<1>0. Len(x) \in Nat /\ Len(y) \in Nat
  BY LenProperties DEF InOrder, Sequence
<1>2. \A l \in j .. Len(y) : t[x[i]].name # u[y[l]].name
  BY BeforeAll
<1>3. /\ \A k \in i .. Len(x) : k = i \/ k \in i + 1 .. Len(x)
      /\ \A k \in i + 1 .. Len(x) : k \in i .. Len(x)
      /\ i \in i .. Len(x)
  BY <1>0, FirstPlace
<1>4. \A p \in ToSet(w.inter) : \E k \in i .. Len(x), l \in j .. Len(y) :
        p = <<x[k], y[l]>> /\ t[x[k]].name = u[y[l]].name
  BY <1>1, <1>3 DEF Paired
<1>5. \A k \in i .. Len(x) : x[k] \in ToSet(w.diff_x) \/ \E p \in ToSet(w.inter) : p[1] = x[k]
  BY <1>1, <1>3 DEF Paired
<1>6. \A l \in j .. Len(y) : y[l] \in ToSet(w.diff_y) \/ \E p \in ToSet(w.inter) : p[2] = y[l]
  BY <1>1 DEF Paired
<1>7. \A a \in ToSet(w.diff_x) : \E k \in i .. Len(x) : a = x[k] /\ Alone(x[k], t, y, j, u)
  <2>1. Alone(x[i], t, y, j, u)
    BY <1>2 DEF Alone
  <2> QED
    BY <1>1, <1>3, <2>1 DEF Paired
<1>8. \A b \in ToSet(w.diff_y) : \E l \in j .. Len(y) : b = y[l] /\ Alone(y[l], u, x, i, t)
  <2>1. ASSUME NEW l \in j .. Len(y), Alone(y[l], u, x, i + 1, t) PROVE Alone(y[l], u, x, i, t)
    BY <1>2, <1>3, <2>1 DEF Alone
  <2> QED
    BY <1>1, <2>1 DEF Paired
<1>9. Paired(w, x, y, t, u, i, j)
  BY <1>4, <1>5, <1>6, <1>7, <1>8 DEF Paired
<1> QED
  BY <1>9 DEF w

\* The same for an entry of y.
LEMMA PairedY ==
  ASSUME NEW A, NEW B, NEW r \in Merged(A, B), NEW x, NEW y, NEW t, NEW u, InOrder(x, t), InOrder(y, u),
         NEW i \in 1 .. Len(x), NEW j \in 1 .. Len(y), less_by_name(u[y[j]], t[x[i]]),
         Paired(r, x, y, t, u, i, j + 1)
  PROVE  Paired([r EXCEPT !.diff_y = <<y[j]>> \o @], x, y, t, u, i, j)
<1> DEFINE w == [r EXCEPT !.diff_y = <<y[j]>> \o @]
<1>1. w.inter = r.inter /\ w.diff_x = r.diff_x /\ ToSet(w.diff_y) = {y[j]} \cup ToSet(r.diff_y)
  <2> DEFINE s == <<y[j]>> \o r.diff_y
  <2>1. ToSet(s) = {y[j]} \cup ToSet(r.diff_y)
    BY MergedFields, ConsSet
  <2>2. w = [r EXCEPT !.diff_y = s]
    OBVIOUS
  <2> HIDE DEF s, w
  <2> QED
    BY <2>1, <2>2, MergedFields
<1> HIDE DEF w
<1>0. Len(x) \in Nat /\ Len(y) \in Nat
  BY LenProperties DEF InOrder, Sequence
<1>2. \A k \in i .. Len(x) : u[y[j]].name # t[x[k]].name
  BY BeforeAll
<1>3. /\ \A l \in j .. Len(y) : l = j \/ l \in j + 1 .. Len(y)
      /\ \A l \in j + 1 .. Len(y) : l \in j .. Len(y)
      /\ j \in j .. Len(y)
  BY <1>0, FirstPlace
<1>4. \A p \in ToSet(w.inter) : \E k \in i .. Len(x), l \in j .. Len(y) :
        p = <<x[k], y[l]>> /\ t[x[k]].name = u[y[l]].name
  BY <1>1, <1>3 DEF Paired
<1>5. \A k \in i .. Len(x) : x[k] \in ToSet(w.diff_x) \/ \E p \in ToSet(w.inter) : p[1] = x[k]
  BY <1>1 DEF Paired
<1>6. \A l \in j .. Len(y) : y[l] \in ToSet(w.diff_y) \/ \E p \in ToSet(w.inter) : p[2] = y[l]
  BY <1>1, <1>3 DEF Paired
<1>7. \A a \in ToSet(w.diff_x) : \E k \in i .. Len(x) : a = x[k] /\ Alone(x[k], t, y, j, u)
  <2>1. ASSUME NEW k \in i .. Len(x), Alone(x[k], t, y, j + 1, u) PROVE Alone(x[k], t, y, j, u)
    BY <1>2, <1>3, <2>1 DEF Alone
  <2> QED
    BY <1>1, <2>1 DEF Paired
<1>8. \A b \in ToSet(w.diff_y) : \E l \in j .. Len(y) : b = y[l] /\ Alone(y[l], u, x, i, t)
  <2>1. Alone(y[j], u, x, i, t)
    BY <1>2 DEF Alone
  <2> QED
    BY <1>1, <1>3, <2>1 DEF Paired
<1>9. Paired(w, x, y, t, u, i, j)
  BY <1>4, <1>5, <1>6, <1>7, <1>8 DEF Paired
<1> QED
  BY <1>9 DEF w

\* The same for an entry of each.
LEMMA PairedXY ==
  ASSUME NEW A, NEW B, NEW r \in Merged(A, B), NEW x, NEW y, NEW t, NEW u, InOrder(x, t), InOrder(y, u),
         NEW i \in 1 .. Len(x), NEW j \in 1 .. Len(y), t[x[i]].name = u[y[j]].name,
         Paired(r, x, y, t, u, i + 1, j + 1)
  PROVE  Paired([r EXCEPT !.inter = << <<x[i], y[j]>> >> \o @], x, y, t, u, i, j)
<1> DEFINE w == [r EXCEPT !.inter = << <<x[i], y[j]>> >> \o @]
           e == <<x[i], y[j]>>
<1>1. w.diff_x = r.diff_x /\ w.diff_y = r.diff_y /\ ToSet(w.inter) = {e} \cup ToSet(r.inter)
  <2> DEFINE s == <<e>> \o r.inter
  <2>1. ToSet(s) = {e} \cup ToSet(r.inter)
    <3> HIDE DEF e
    <3> QED
      BY MergedFields, ConsSet
  <2>2. w = [r EXCEPT !.inter = s]
    OBVIOUS
  <2> HIDE DEF s, w, e
  <2> QED
    BY <2>1, <2>2, MergedFields
<1>11. e[1] = x[i] /\ e[2] = y[j]
  OBVIOUS
<1> HIDE DEF w
<1>0. Len(x) \in Nat /\ Len(y) \in Nat
  BY LenProperties DEF InOrder, Sequence
<1>2. \A l \in j .. Len(y) : l # j => t[x[i]].name # u[y[l]].name
  BY BeforeAll
<1>21. \A k \in i .. Len(x) : k # i => u[y[j]].name # t[x[k]].name
  BY BeforeAll
<1>3. /\ \A k \in i .. Len(x) : k = i \/ k \in i + 1 .. Len(x)
      /\ \A k \in i + 1 .. Len(x) : k \in i .. Len(x) /\ k # i
      /\ i \in i .. Len(x)
      /\ \A l \in j .. Len(y) : l = j \/ l \in j + 1 .. Len(y)
      /\ \A l \in j + 1 .. Len(y) : l \in j .. Len(y) /\ l # j
      /\ j \in j .. Len(y)
  BY <1>0, FirstPlace
<1>4. \A p \in ToSet(w.inter) : \E k \in i .. Len(x), l \in j .. Len(y) :
        p = <<x[k], y[l]>> /\ t[x[k]].name = u[y[l]].name
  <2> TAKE p \in ToSet(w.inter)
  <2>1. CASE p = e
    BY <1>3, <2>1
  <2>2. CASE p \in ToSet(r.inter)
    <3>1. PICK k \in i + 1 .. Len(x), l \in j + 1 .. Len(y) : p = <<x[k], y[l]>> /\ t[x[k]].name = u[y[l]].name
      BY <2>2 DEF Paired
    <3>2. k \in i .. Len(x) /\ l \in j .. Len(y)
      BY <1>3
    <3> QED
      BY <3>1, <3>2
  <2> QED
    BY <1>1, <2>1, <2>2
<1> HIDE DEF e
<1>5. \A k \in i .. Len(x) : x[k] \in ToSet(w.diff_x) \/ \E p \in ToSet(w.inter) : p[1] = x[k]
  BY <1>1, <1>11, <1>3 DEF Paired
<1>6. \A l \in j .. Len(y) : y[l] \in ToSet(w.diff_y) \/ \E p \in ToSet(w.inter) : p[2] = y[l]
  BY <1>1, <1>11, <1>3 DEF Paired
<1>7. \A a \in ToSet(w.diff_x) : \E k \in i .. Len(x) : a = x[k] /\ Alone(x[k], t, y, j, u)
  <2>1. ASSUME NEW k \in i + 1 .. Len(x), Alone(x[k], t, y, j + 1, u) PROVE Alone(x[k], t, y, j, u)
    BY <1>21, <1>3, <2>1 DEF Alone
  <2> QED
    BY <1>1, <1>3, <2>1 DEF Paired
<1>8. \A b \in ToSet(w.diff_y) : \E l \in j .. Len(y) : b = y[l] /\ Alone(y[l], u, x, i, t)
  <2>1. ASSUME NEW l \in j + 1 .. Len(y), Alone(y[l], u, x, i + 1, t) PROVE Alone(y[l], u, x, i, t)
    BY <1>2, <1>3, <2>1 DEF Alone
  <2> QED
    BY <1>1, <1>3, <2>1 DEF Paired
<1>9. Paired(w, x, y, t, u, i, j)
  BY <1>4, <1>5, <1>6, <1>7, <1>8 DEF Paired
<1> QED
  BY <1>9 DEF w

\* One step of the merge.
LEMMA PairedStep ==
  ASSUME NEW A, NEW B, NEW x, NEW y, NEW t, NEW u, InOrder(x, t), InOrder(y, u), NEW m,
         NEW at \in MergePlaces(x, y),
         \A p \in MergePlaces(x, y) : MergeLeft(x, y, p) < MergeLeft(x, y, at) =>
            m[p] \in Merged(A, B) /\ Paired(m[p], x, y, t, u, p[1], p[2])
  PROVE  Paired(MergeBody(m, x, y, t, u, at), x, y, t, u, at[1], at[2])
<1>1. PICK i \in 1 .. Len(x) + 1, j \in 1 .. Len(y) + 1 : at = <<i, j>>
  BY DEF MergePlaces
<1>2. at[1] = i /\ at[2] = j /\ Len(x) \in Nat /\ Len(y) \in Nat
  BY <1>1, LenProperties DEF InOrder, Sequence
<1>3. CASE i > Len(x) \/ j > Len(y)
  <2> DEFINE dx == SubSeq(x, i, Len(x))
             dy == SubSeq(y, j, Len(y))
             base == [inter |-> << >>, diff_x |-> dx, diff_y |-> dy]
  <2>1. MergeBody(m, x, y, t, u, at) = base
    BY <1>2, <1>3 DEF MergeBody
  <2>2. ToSet(dx) = {x[k] : k \in i .. Len(x)} /\ ToSet(dy) = {y[l] : l \in j .. Len(y)}
    BY EndSet DEF InOrder
  <2>3. base.inter = << >> /\ base.diff_x = dx /\ base.diff_y = dy /\ ToSet(<< >>) = {}
    BY DEF ToSet
  <2>4. (\A k \in i .. Len(x) : FALSE) \/ (\A l \in j .. Len(y) : FALSE)
    BY <1>2, <1>3
  <2> HIDE DEF base, dx, dy
  <2>5. Paired(base, x, y, t, u, i, j)
    BY <2>2, <2>3, <2>4 DEF Paired, Alone
  <2> QED
    BY <1>2, <2>1, <2>5
<1>4. CASE ~(i > Len(x) \/ j > Len(y))
  <2> DEFINE p1 == <<i + 1, j>>
             p2 == <<i, j + 1>>
             p3 == <<i + 1, j + 1>>
  <2>1. i \in 1 .. Len(x) /\ j \in 1 .. Len(y)
    BY <1>2, <1>4
  <2>2. p1[1] = i + 1 /\ p1[2] = j /\ p2[1] = i /\ p2[2] = j + 1 /\ p3[1] = i + 1 /\ p3[2] = j + 1
    OBVIOUS
  <2>3. p1 \in MergePlaces(x, y) /\ p2 \in MergePlaces(x, y) /\ p3 \in MergePlaces(x, y)
    BY <1>2, <2>1 DEF MergePlaces
  <2> HIDE DEF p1, p2, p3
  <2>4. /\ MergeLeft(x, y, p1) < MergeLeft(x, y, at)
        /\ MergeLeft(x, y, p2) < MergeLeft(x, y, at)
        /\ MergeLeft(x, y, p3) < MergeLeft(x, y, at)
    BY <1>2, <2>1, <2>2 DEF MergeLeft
  <2>5. /\ m[p1] \in Merged(A, B) /\ Paired(m[p1], x, y, t, u, i + 1, j)
        /\ m[p2] \in Merged(A, B) /\ Paired(m[p2], x, y, t, u, i, j + 1)
        /\ m[p3] \in Merged(A, B) /\ Paired(m[p3], x, y, t, u, i + 1, j + 1)
    <3>1. m[p1] \in Merged(A, B) /\ Paired(m[p1], x, y, t, u, p1[1], p1[2])
      BY <2>3, <2>4
    <3>2. m[p2] \in Merged(A, B) /\ Paired(m[p2], x, y, t, u, p2[1], p2[2])
      BY <2>3, <2>4
    <3>3. m[p3] \in Merged(A, B) /\ Paired(m[p3], x, y, t, u, p3[1], p3[2])
      BY <2>3, <2>4
    <3> QED
      BY <2>2, <3>1, <3>2, <3>3
  <2>6. CASE less_by_name(t[x[i]], u[y[j]])
    <3>1. MergeBody(m, x, y, t, u, at) = [m[p1] EXCEPT !.diff_x = <<x[i]>> \o @]
      BY <1>2, <1>4, <2>6 DEF MergeBody, p1
    <3>2. Paired([m[p1] EXCEPT !.diff_x = <<x[i]>> \o @], x, y, t, u, i, j)
      BY <2>1, <2>5, <2>6, PairedX
    <3> QED
      BY <1>2, <3>1, <3>2
  <2>7. CASE ~less_by_name(t[x[i]], u[y[j]]) /\ less_by_name(u[y[j]], t[x[i]])
    <3>1. MergeBody(m, x, y, t, u, at) = [m[p2] EXCEPT !.diff_y = <<y[j]>> \o @]
      BY <1>2, <1>4, <2>7 DEF MergeBody, p2
    <3>2. Paired([m[p2] EXCEPT !.diff_y = <<y[j]>> \o @], x, y, t, u, i, j)
      BY <2>1, <2>5, <2>7, PairedY
    <3> QED
      BY <1>2, <3>1, <3>2
  <2>8. CASE ~less_by_name(t[x[i]], u[y[j]]) /\ ~less_by_name(u[y[j]], t[x[i]])
    <3>1. MergeBody(m, x, y, t, u, at) = [m[p3] EXCEPT !.inter = << <<x[i], y[j]>> >> \o @]
      BY <1>2, <1>4, <2>8 DEF MergeBody, p3
    <3>2. t[x[i]].name = u[y[j]].name
      <4> DEFINE a == t[x[i]]
                 b == u[y[j]]
      <4>1. a.name \in Int \X Int /\ b.name \in Int \X Int
        BY <2>1 DEF InOrder
      <4>2. ~less_by_name(a, b) /\ ~less_by_name(b, a)
        BY <2>8
      <4> HIDE DEF a, b
      <4>3. a.name = b.name
        BY <4>1, <4>2, LessNames
      <4> QED
        BY <4>3 DEF a, b
    <3>3. Paired([m[p3] EXCEPT !.inter = << <<x[i], y[j]>> >> \o @], x, y, t, u, i, j)
      BY <2>1, <2>5, <3>2, PairedXY
    <3> QED
      BY <1>2, <3>1, <3>3
  <2> QED
    BY <2>6, <2>7, <2>8
<1> QED
  BY <1>3, <1>4

\* The merge pairs the entries of two sorted sequences by their names.
LEMMA MergePairs ==
  ASSUME NEW A, NEW B, NEW x \in Seq(A), NEW y \in Seq(B), NEW t, NEW u, InOrder(x, t), InOrder(y, u)
  PROVE  Paired(set_intersection_difference(x, y, t, u), x, y, t, u, 1, 1)
<1> DEFINE m == CHOOSE m : IsMerge(m, x, y, t, u)
           D == MergePlaces(x, y)
           n == Len(x) + Len(y) + 1
           left(p) == MergeLeft(x, y, p)
           Good(p) == m[p] \in Merged(A, B) /\ Paired(m[p], x, y, t, u, p[1], p[2])
           Z == {k \in 0 .. n : \A p \in D : left(p) < k => Good(p)}
<1>1. IsMerge(m, x, y, t, u)
  BY MergeExists
<1> HIDE DEF m
<1>2. \A p \in D : m[p] = MergeBody(m, x, y, t, u, p)
  BY <1>1 DEF IsMerge
<1>3. Len(x) \in Nat /\ Len(y) \in Nat /\ n \in Nat
  BY LenProperties
<1>4. \A p \in D : left(p) \in 0 .. n - 1
  BY <1>3, SMTT(60) DEF MergePlaces, MergeLeft
<1>5. 0 \in Z
  BY <1>3, <1>4
<1>6. ASSUME NEW k \in 0 .. n - 1, k \in Z PROVE k + 1 \in Z
  <2>1. ASSUME NEW p \in D, left(p) < k + 1 PROVE Good(p)
    <3> HIDE DEF D
    <3>1. \A q \in D : left(q) < left(p) => Good(q)
      BY <1>4, <1>6, <2>1
    <3>2. MergeBody(m, x, y, t, u, p) \in Merged(A, B)
      <4>1. \A q \in D : left(q) < left(p) => m[q] \in Merged(A, B) /\ m[q] = m[q]
        BY <3>1
      <4> QED
        BY <4>1, MergeStep DEF D
    <3>3. Paired(MergeBody(m, x, y, t, u, p), x, y, t, u, p[1], p[2])
      BY <3>1, PairedStep DEF D
    <3> QED
      BY <1>2, <3>2, <3>3
  <2> HIDE DEF Good
  <2> QED
    BY <1>3, <2>1
<1> HIDE DEF Z, Good
<1>7. \A k \in 0 .. n : k \in Z
  BY <1>3, <1>5, <1>6, IntervalInduction
<1>8. n \in Z /\ <<1, 1>> \in D
  BY <1>3, <1>7 DEF MergePlaces
<1>9. Good(<<1, 1>>)
  BY <1>3, <1>4, <1>8 DEF Z
<1>10. <<1, 1>>[1] = 1 /\ <<1, 1>>[2] = 1
  OBVIOUS
<1>11. Paired(m[<<1, 1>>], x, y, t, u, 1, 1)
  BY <1>9, <1>10 DEF Good
<1> QED
  BY <1>11, MergeIs DEF m

\* The children of a node, sorted, are all of its children, in the order of the names.
LEMMA ChildrenInOrder ==
  ASSUME NEW t, IsTree(t), NEW i \in 1 .. Len(t)
  PROVE  LET s == _get_sorted_children(t, i)
         IN  InOrder(s, t) /\ ToSet(s) = ToSet(t[i].kids) /\ s \in Seq(1 .. Len(t))
<1> DEFINE s == _get_sorted_children(t, i)
           K == ToSet(t[i].kids)
           n == Len(t[i].kids)
<1>1. /\ SortedKids(t, i, s) /\ K \in SUBSET (1 .. Len(t)) /\ n \in Nat
      /\ IsFiniteSet(K) /\ Cardinality(K) = n
  BY ChildrenSorted
<1>2. /\ s \in [1 .. n -> K]
      /\ \A k, l \in 1 .. n : k < l => less_by_name(t[s[k]], t[s[l]])
  BY <1>1 DEF SortedKids
<1>3. s \in Seq(1 .. Len(t))
  <2>1. i \in 0 .. Len(t)
    BY DEF IsTree
  <2> QED
    BY <2>1, SortedChildren
<1> HIDE DEF s, K, n
<1>4. Sequence(s) /\ Len(s) = n /\ DOMAIN s = 1 .. n
  <2>1. s \in Seq(K)
    BY <1>1, <1>2
  <2> QED
    BY <1>1, <1>2, <2>1, SequenceIn, LenProperties
<1>5. \A k \in 1 .. n : t[s[k]].name \in Int \X Int
  BY <1>1, <1>2 DEF IsTree
<1>6. InOrder(s, t)
  BY <1>2, <1>4, <1>5 DEF InOrder
<1>7. ASSUME NEW k \in 1 .. n, NEW l \in 1 .. n, s[k] = s[l] PROVE k = l
  <2>1. k < l \/ l < k \/ k = l
    BY <1>1
  <2> DEFINE a == t[s[k]]
  <2>2. ~less_by_name(a, a)
    <3>1. a.name \in Int \X Int
      BY <1>5
    <3> HIDE DEF a
    <3> QED
      BY <3>1, LessNames
  <2> QED
    BY <1>2, <1>7, <2>1, <2>2
<1>8. ASSUME NEW z \in K, \A k \in 1 .. n : s[k] # z PROVE FALSE
  <2> DEFINE R == K \ {z}
  <2>1. s \in Injection(1 .. n, R)
    <3>1. s \in [1 .. n -> R]
      BY <1>2, <1>8
    <3>2. \A k, l \in 1 .. n : s[k] = s[l] => k = l
      BY <1>7
    <3>3. IsInjective(s)
      BY <1>4, <3>2 DEF IsInjective
    <3> QED
      BY <3>1, <3>2, <3>3 DEF Injection
  <2>2. IsFiniteSet(R) /\ Cardinality(R) = n - 1
    BY <1>1, FS_RemoveElement
  <2>3. IsFiniteSet(1 .. n) /\ Cardinality(1 .. n) = n
    BY <1>1, FS_Interval
  <2> HIDE DEF R
  <2>4. Cardinality(1 .. n) <= Cardinality(R)
    BY <2>1, <2>2, FS_Injection
  <2> QED
    BY <1>1, <2>2, <2>3, <2>4
<1>9. ToSet(s) = K
  BY <1>2, <1>4, <1>8 DEF ToSet
<1> QED
  BY <1>3, <1>6, <1>9 DEF s, K

\* The entries of two sequences, one after the other.
LEMMA JoinSet ==
  ASSUME NEW S, NEW s \in Seq(S), NEW r \in Seq(S)
  PROVE  ToSet(s \o r) = ToSet(s) \cup ToSet(r)
<1> DEFINE c == s \o r
<1>1. /\ Len(s) \in Nat /\ Len(r) \in Nat /\ DOMAIN s = 1 .. Len(s) /\ DOMAIN r = 1 .. Len(r)
      /\ DOMAIN c = 1 .. Len(s) + Len(r)
      /\ \A k \in 1 .. Len(s) : c[k] = s[k]
      /\ \A k \in 1 .. Len(r) : c[Len(s) + k] = r[k]
  BY LenProperties, ConcatProperties
<1> HIDE DEF c
<1>2. ASSUME NEW e \in ToSet(c) PROVE e \in ToSet(s) \cup ToSet(r)
  <2>1. PICK k \in 1 .. Len(s) + Len(r) : e = c[k]
    BY <1>1 DEF ToSet
  <2>2. CASE k <= Len(s)
    <3>1. k \in 1 .. Len(s)
      BY <1>1, <2>2
    <3> QED
      BY <1>1, <2>1, <3>1 DEF ToSet
  <2>3. CASE ~(k <= Len(s))
    <3> DEFINE l == k - Len(s)
    <3>1. l \in 1 .. Len(r) /\ Len(s) + l = k
      BY <1>1, <2>3
    <3> HIDE DEF l
    <3> QED
      BY <1>1, <2>1, <3>1 DEF ToSet
  <2> QED
    BY <2>2, <2>3
<1>3. ASSUME NEW k \in 1 .. Len(s) PROVE s[k] \in ToSet(c)
  <2>1. k \in 1 .. Len(s) + Len(r)
    BY <1>1
  <2> QED
    BY <1>1, <2>1 DEF ToSet
<1>4. ASSUME NEW k \in 1 .. Len(r) PROVE r[k] \in ToSet(c)
  <2>1. Len(s) + k \in 1 .. Len(s) + Len(r)
    BY <1>1
  <2> QED
    BY <1>1, <2>1 DEF ToSet
<1>5. \A e \in ToSet(s) \cup ToSet(r) : e \in ToSet(c)
  BY <1>1, <1>3, <1>4 DEF ToSet
<1> QED
  BY <1>2, <1>5 DEF c

\* No node of L has the name of the node a.
Single(a, t, L, u) == \A b \in L : t[a].name # u[b].name

\* The pairs Z of the nodes K of t and L of u: those of the same name, and the others with
\* nothing or with each other.
Zipped(Z, K, L, t, u) ==
  /\ \A a \in K, b \in L : t[a].name = u[b].name => <<a, b>> \in Z
  /\ \A a \in K : Single(a, t, L, u) => \E b \in L \cup {0} : <<a, b>> \in Z
  /\ \A b \in L : Single(b, u, K, t) => \E a \in K \cup {0} : <<a, b>> \in Z
  /\ \A q \in Z : \/ \E a \in K, b \in L : q = <<a, b>> /\ t[a].name = u[b].name
                  \/ \E a \in K : Single(a, t, L, u)
                  \/ \E b \in L : Single(b, u, K, t)

\* The entries left over are paired in their order.
RestOfZip(dx, dy) ==
  LET value_or_none(s, i) == IF i \in DOMAIN s THEN s[i] ELSE 0
  IN  [i \in 1 .. (IF Len(dx) < Len(dy) THEN Len(dy) ELSE Len(dx)) |->
         <<value_or_none(dx, i), value_or_none(dy, i)>>]

IsRest(rest, dx, dy, A, B) ==
  /\ rest \in Seq((A \cup {0}) \X (B \cup {0}))
  /\ \A a \in ToSet(dx) : \E b \in ToSet(dy) \cup {0} : <<a, b>> \in ToSet(rest)
  /\ \A b \in ToSet(dy) : \E a \in ToSet(dx) \cup {0} : <<a, b>> \in ToSet(rest)
  /\ ToSet(rest) # {} => ToSet(dx) # {} \/ ToSet(dy) # {}

\* Every entry left over has a pair, and every pair an entry left over.
LEMMA RestPairs ==
  ASSUME NEW A, NEW B, NEW dx \in Seq(A), NEW dy \in Seq(B)
  PROVE  IsRest(RestOfZip(dx, dy), dx, dy, A, B)
<1> DEFINE sz == IF Len(dx) < Len(dy) THEN Len(dy) ELSE Len(dx)
           vx(i) == IF i \in DOMAIN dx THEN dx[i] ELSE 0
           vy(i) == IF i \in DOMAIN dy THEN dy[i] ELSE 0
           rest == [i \in 1 .. sz |-> <<vx(i), vy(i)>>]
<1>1. RestOfZip(dx, dy) = rest
  BY DEF RestOfZip
<1>2. /\ Len(dx) \in Nat /\ Len(dy) \in Nat /\ DOMAIN dx = 1 .. Len(dx) /\ DOMAIN dy = 1 .. Len(dy)
      /\ dx \in [1 .. Len(dx) -> A] /\ dy \in [1 .. Len(dy) -> B]
  BY LenProperties
<1>3. /\ sz \in Nat
      /\ \A i \in 1 .. Len(dx) : i \in 1 .. sz
      /\ \A i \in 1 .. Len(dy) : i \in 1 .. sz
      /\ \A i \in 1 .. sz : i \in 1 .. Len(dx) \/ i \in 1 .. Len(dy)
  BY <1>2
<1>4. /\ \A i : vx(i) \in A \cup {0} /\ vx(i) \in ToSet(dx) \cup {0}
      /\ \A i : vy(i) \in B \cup {0} /\ vy(i) \in ToSet(dy) \cup {0}
      /\ \A i \in 1 .. Len(dx) : vx(i) = dx[i]
      /\ \A i \in 1 .. Len(dy) : vy(i) = dy[i]
  BY <1>2 DEF ToSet
<1> HIDE DEF sz, vx, vy
<1>5. rest \in [1 .. sz -> (A \cup {0}) \X (B \cup {0})]
  BY <1>4
<1>6. DOMAIN rest = 1 .. sz /\ \A i \in 1 .. sz : rest[i] = <<vx(i), vy(i)>>
  OBVIOUS
<1> HIDE DEF rest
<1>7. rest \in Seq((A \cup {0}) \X (B \cup {0}))
  BY <1>3, <1>5
<1>8. ASSUME NEW i \in 1 .. sz PROVE <<vx(i), vy(i)>> \in ToSet(rest)
  BY <1>6 DEF ToSet
<1>9. \A a \in ToSet(dx) : \E b \in ToSet(dy) \cup {0} : <<a, b>> \in ToSet(rest)
  <2> TAKE a \in ToSet(dx)
  <2>1. PICK i \in 1 .. Len(dx) : a = dx[i]
    BY <1>2 DEF ToSet
  <2>2. <<a, vy(i)>> \in ToSet(rest)
    BY <1>3, <1>4, <1>8, <2>1
  <2> QED
    BY <1>4, <2>2
<1>10. \A b \in ToSet(dy) : \E a \in ToSet(dx) \cup {0} : <<a, b>> \in ToSet(rest)
  <2> TAKE b \in ToSet(dy)
  <2>1. PICK i \in 1 .. Len(dy) : b = dy[i]
    BY <1>2 DEF ToSet
  <2>2. <<vx(i), b>> \in ToSet(rest)
    BY <1>3, <1>4, <1>8, <2>1
  <2> QED
    BY <1>4, <2>2
<1>11. ToSet(rest) # {} => ToSet(dx) # {} \/ ToSet(dy) # {}
  <2>1. ToSet(rest) # {} => \E i \in 1 .. sz : TRUE
    BY <1>6 DEF ToSet
  <2> QED
    BY <1>2, <1>3, <2>1 DEF ToSet
<1> QED
  BY <1>1, <1>7, <1>9, <1>10, <1>11 DEF IsRest

\* The names of sorted positions are different.
LEMMA NamesDiffer ==
  ASSUME NEW x, NEW t, InOrder(x, t), NEW k \in 1 .. Len(x), NEW l \in 1 .. Len(x), t[x[k]].name = t[x[l]].name
  PROVE  k = l
<1>1. Len(x) \in Nat
  BY LenProperties DEF InOrder, Sequence
<1>2. k < l \/ l < k \/ k = l
  BY <1>1
<1> DEFINE a == t[x[k]]
           b == t[x[l]]
<1>3. a.name \in Int \X Int /\ b.name \in Int \X Int /\ a.name = b.name
  BY DEF InOrder
<1>4. k < l => less_by_name(a, b)
  BY DEF InOrder
<1>5. l < k => less_by_name(b, a)
  BY DEF InOrder
<1> HIDE DEF a, b
<1> QED
  BY <1>2, <1>3, <1>4, <1>5, LessNames

\* The pairs made by zip of two sorted sequences.
LEMMA ListsZipped ==
  ASSUME NEW A, NEW B, NEW x \in Seq(A), NEW y \in Seq(B), NEW t, NEW u, InOrder(x, t), InOrder(y, u)
  PROVE  Zipped(ToSet(_zip_lists(x, y, t, u)), ToSet(x), ToSet(y), t, u)
<1> DEFINE r == set_intersection_difference(x, y, t, u)
           rest == RestOfZip(r.diff_x, r.diff_y)
           Z == ToSet(_zip_lists(x, y, t, u))
           K == ToSet(x)
           L == ToSet(y)
           S == (A \cup {0}) \X (B \cup {0})
<1>1. r \in Merged(A, B) /\ Paired(r, x, y, t, u, 1, 1)
  BY MergeResult, MergePairs
<1>2. _zip_lists(x, y, t, u) = r.inter \o rest
  BY DEF _zip_lists, RestOfZip
<1> HIDE DEF r
<1>3. r.diff_x \in Seq(A) /\ r.diff_y \in Seq(B) /\ r.inter \in Seq(A \X B)
  BY <1>1 DEF Merged
<1>4. /\ rest \in Seq(S)
      /\ \A a \in ToSet(r.diff_x) : \E b \in ToSet(r.diff_y) \cup {0} : <<a, b>> \in ToSet(rest)
      /\ \A b \in ToSet(r.diff_y) : \E a \in ToSet(r.diff_x) \cup {0} : <<a, b>> \in ToSet(rest)
      /\ ToSet(rest) # {} => ToSet(r.diff_x) # {} \/ ToSet(r.diff_y) # {}
  <2>1. IsRest(rest, r.diff_x, r.diff_y, A, B)
    BY <1>3, RestPairs
  <2> QED
    BY <2>1 DEF IsRest
<1>5. r.inter \in Seq(S)
  <2>1. A \X B \in SUBSET S
    OBVIOUS
  <2> HIDE DEF S
  <2> QED
    BY <1>3, <2>1
<1> HIDE DEF rest, S
<1>6. Z = ToSet(r.inter) \cup ToSet(rest)
  BY <1>2, <1>4, <1>5, JoinSet
<1>7. /\ DOMAIN x = 1 .. Len(x) /\ DOMAIN y = 1 .. Len(y)
      /\ K = {x[k] : k \in 1 .. Len(x)} /\ L = {y[l] : l \in 1 .. Len(y)}
  BY LenProperties DEF ToSet
<1> HIDE DEF Z, K, L
<1>8. \A p \in ToSet(r.inter) : \E a \in K, b \in L : p = <<a, b>> /\ t[a].name = u[b].name
  BY <1>1, <1>7 DEF Paired
<1>9. \A a \in ToSet(r.diff_x) : a \in K /\ Single(a, t, L, u)
  BY <1>1, <1>7 DEF Paired, Alone, Single
<1>10. \A b \in ToSet(r.diff_y) : b \in L /\ Single(b, u, K, t)
  BY <1>1, <1>7 DEF Paired, Alone, Single
<1>11. \A a \in K : a \in ToSet(r.diff_x) \/ \E p \in ToSet(r.inter) : p[1] = a
  BY <1>1, <1>7 DEF Paired
<1>12. \A b \in L : b \in ToSet(r.diff_y) \/ \E p \in ToSet(r.inter) : p[2] = b
  BY <1>1, <1>7 DEF Paired
<1>13. \A b, c \in L : u[b].name = u[c].name => b = c
  BY <1>7, NamesDiffer
<1>14. ASSUME NEW a \in K, NEW b \in L, t[a].name = u[b].name PROVE <<a, b>> \in Z
  <2>1. a \notin ToSet(r.diff_x)
    BY <1>9, <1>14 DEF Single
  <2>2. PICK p \in ToSet(r.inter) : p[1] = a
    BY <1>11, <2>1
  <2>3. PICK c \in K, d \in L : p = <<c, d>> /\ t[c].name = u[d].name
    BY <1>8
  <2>4. c = a
    BY <2>2, <2>3
  <2>5. d = b
    BY <1>13, <1>14, <2>3, <2>4
  <2> QED
    BY <1>6, <2>3, <2>4, <2>5
<1>15. ASSUME NEW a \in K, Single(a, t, L, u) PROVE \E b \in L \cup {0} : <<a, b>> \in Z
  <2>1. a \in ToSet(r.diff_x)
    <3>1. ASSUME NEW p \in ToSet(r.inter), p[1] = a PROVE FALSE
      <4>1. PICK c \in K, d \in L : p = <<c, d>> /\ t[c].name = u[d].name
        BY <1>8
      <4>2. c = a
        BY <3>1, <4>1
      <4> QED
        BY <1>15, <4>1, <4>2 DEF Single
    <3> QED
      BY <1>11, <3>1
  <2>2. PICK b \in ToSet(r.diff_y) \cup {0} : <<a, b>> \in ToSet(rest)
    BY <1>4, <2>1
  <2> QED
    BY <1>6, <1>10, <2>2
<1>16. ASSUME NEW b \in L, Single(b, u, K, t) PROVE \E a \in K \cup {0} : <<a, b>> \in Z
  <2>1. b \in ToSet(r.diff_y)
    <3>1. ASSUME NEW p \in ToSet(r.inter), p[2] = b PROVE FALSE
      <4>1. PICK c \in K, d \in L : p = <<c, d>> /\ t[c].name = u[d].name
        BY <1>8
      <4>2. d = b
        BY <3>1, <4>1
      <4> QED
        BY <1>16, <4>1, <4>2 DEF Single
    <3> QED
      BY <1>12, <3>1
  <2>2. PICK a \in ToSet(r.diff_x) \cup {0} : <<a, b>> \in ToSet(rest)
    BY <1>4, <2>1
  <2> QED
    BY <1>6, <1>9, <2>2
<1>17. ASSUME NEW q \in Z
       PROVE  \/ \E a \in K, b \in L : q = <<a, b>> /\ t[a].name = u[b].name
              \/ \E a \in K : Single(a, t, L, u)
              \/ \E b \in L : Single(b, u, K, t)
  <2>1. CASE q \in ToSet(r.inter)
    BY <1>8, <2>1
  <2>2. CASE q \in ToSet(rest)
    BY <1>4, <1>9, <1>10, <2>2
  <2> QED
    BY <1>6, <2>1, <2>2
<1>18. Zipped(Z, K, L, t, u)
  BY <1>14, <1>15, <1>16, <1>17 DEF Zipped
<1> QED
  BY <1>18 DEF Z, K, L

\* The children of the pairs of nodes in the graph of two trees.
LEMMA GraphZipped ==
  ASSUME NEW t, NEW u, IsTree(t), IsTree(u), NEW i \in 1 .. Len(t), NEW j \in 1 .. Len(u)
  PROVE  Zipped(ToSet(ZipGraph(t, u).forward[<<i, j>>]), ToSet(t[i].kids), ToSet(u[j].kids), t, u)
<1> DEFINE x == _get_sorted_children(t, i)
           y == _get_sorted_children(u, j)
           D == (0 .. Len(t)) \X (0 .. Len(u))
           F == [ij \in D |-> _zip_lists(_get_sorted_children(t, ij[1]), _get_sorted_children(u, ij[2]), t, u)]
<1>1. InOrder(x, t) /\ ToSet(x) = ToSet(t[i].kids) /\ x \in Seq(1 .. Len(t))
  BY ChildrenInOrder
<1>2. InOrder(y, u) /\ ToSet(y) = ToSet(u[j].kids) /\ y \in Seq(1 .. Len(u))
  BY ChildrenInOrder
<1>3. ZipGraph(t, u).forward = F
  BY DEF ZipGraph
<1>4. <<i, j>> \in D /\ <<i, j>>[1] = i /\ <<i, j>>[2] = j
  BY DEF IsTree
<1>5. F[<<i, j>>] = _zip_lists(x, y, t, u)
  BY <1>4
<1> HIDE DEF x, y, D, F
<1>6. Zipped(ToSet(_zip_lists(x, y, t, u)), ToSet(x), ToSet(y), t, u)
  BY <1>1, <1>2, ListsZipped
<1> QED
  BY <1>1, <1>2, <1>3, <1>5, <1>6

-----------------------------------------------------------------------------
(***************************************************************************)
(* Trees that are equal up to the order of the children.  The recursive    *)
(* definition has a solution, the union of the sets of pairs that contain  *)
(* the pairs of children of their pairs.                                   *)
(***************************************************************************)

\* Two nodes are the same, their children have the same names, and those of a name are in P.
SameAbove(P, t, u, v, i, j) ==
  /\ is_same_node(t[i], u[j], v.abs_tol, v.type_tol)
  /\ {t[a].name : a \in ToSet(t[i].kids)} = {u[b].name : b \in ToSet(u[j].kids)}
  /\ \A a \in ToSet(t[i].kids) : \A b \in ToSet(u[j].kids) : t[a].name = u[b].name => <<a, b>> \in P

\* The same, with a function to the Booleans.
SameBody(f, t, u, v, i, j) ==
  /\ is_same_node(t[i], u[j], v.abs_tol, v.type_tol)
  /\ {t[a].name : a \in ToSet(t[i].kids)} = {u[b].name : b \in ToSet(u[j].kids)}
  /\ \A a \in ToSet(t[i].kids) : \A b \in ToSet(u[j].kids) : t[a].name = u[b].name => f[<<a, b>>]
IsSame(f, t, u, v) == f = [at \in (DOMAIN t) \X (DOMAIN u) |-> SameBody(f, t, u, v, at[1], at[2])]

\* Equivalent is such a function, if there is one.
LEMMA EquivalentIs == Equivalent = CHOOSE f : IsSame(f, trees[1], trees[2], visitor)
BY DEF Equivalent, IsSame, SameBody, T

\* The pairs of positions.
Positions(t, u) == (1 .. Len(t)) \X (1 .. Len(u))

\* A set with the pairs of children of its pairs.
ClosedBelow(P, t, u, v) == \A q \in P : SameAbove(P, t, u, v, q[1], q[2])
InClosed(p, t, u, v) == \E P \in SUBSET Positions(t, u) : p \in P /\ ClosedBelow(P, t, u, v)

\* A larger set.
LEMMA SameMonotone ==
  ASSUME NEW t, NEW u, NEW v, NEW i, NEW j, NEW P, NEW Q, P \in SUBSET Q, SameAbove(P, t, u, v, i, j)
  PROVE  SameAbove(Q, t, u, v, i, j)
BY DEF SameAbove

\* The union of these sets is a solution.
LEMMA InClosedFixed ==
  ASSUME NEW t, NEW u, NEW v, NEW p \in Positions(t, u)
  PROVE  InClosed(p, t, u, v) <=>
           SameAbove({q \in Positions(t, u) : InClosed(q, t, u, v)}, t, u, v, p[1], p[2])
<1> DEFINE G == {q \in Positions(t, u) : InClosed(q, t, u, v)}
<1>1. ASSUME NEW q, InClosed(q, t, u, v) PROVE SameAbove(G, t, u, v, q[1], q[2])
  <2>1. PICK P \in SUBSET Positions(t, u) : q \in P /\ ClosedBelow(P, t, u, v)
    BY <1>1 DEF InClosed
  <2>2. P \in SUBSET G
    BY <2>1 DEF InClosed
  <2>3. SameAbove(P, t, u, v, q[1], q[2])
    BY <2>1 DEF ClosedBelow
  <2> HIDE DEF G
  <2> QED
    BY <2>2, <2>3, SameMonotone
<1>2. ASSUME SameAbove(G, t, u, v, p[1], p[2]) PROVE InClosed(p, t, u, v)
  <2> DEFINE P == G \cup {p}
  <2>1. ASSUME NEW q \in P PROVE SameAbove(G, t, u, v, q[1], q[2])
    BY <1>1, <1>2
  <2>2. P \in SUBSET Positions(t, u) /\ G \in SUBSET P /\ p \in P
    OBVIOUS
  <2> HIDE DEF P, G
  <2>3. ClosedBelow(P, t, u, v)
    BY <2>1, <2>2, SameMonotone DEF ClosedBelow
  <2> QED
    BY <2>2, <2>3 DEF InClosed
<1> QED
  BY <1>1, <1>2

\* The pairs of children of a pair of positions.
LEMMA KidsPositions ==
  ASSUME NEW t, NEW u, IsTree(t), IsTree(u), NEW i \in 1 .. Len(t), NEW j \in 1 .. Len(u),
         NEW a \in ToSet(t[i].kids), NEW b \in ToSet(u[j].kids)
  PROVE  <<a, b>> \in Positions(t, u)
<1>1. a \in 1 .. Len(t) /\ b \in 1 .. Len(u)
  BY ChildrenSorted
<1> QED
  BY <1>1 DEF Positions

\* The recursive definition has a solution.
LEMMA SameExists ==
  ASSUME NEW t, NEW u, NEW v, IsTree(t), IsTree(u)
  PROVE  \E f : IsSame(f, t, u, v)
<1> DEFINE D == Positions(t, u)
           f == [at \in D |-> InClosed(at, t, u, v)]
           G == {q \in D : InClosed(q, t, u, v)}
<1>1. (DOMAIN t) \X (DOMAIN u) = D
  BY DEF IsTree, Positions
<1>2. ASSUME NEW at \in D PROVE InClosed(at, t, u, v) = SameBody(f, t, u, v, at[1], at[2])
  <2>1. at[1] \in 1 .. Len(t) /\ at[2] \in 1 .. Len(u)
    BY <1>2 DEF Positions
  <2>2. \A a \in ToSet(t[at[1]].kids) : \A b \in ToSet(u[at[2]].kids) : <<a, b>> \in D
    BY <2>1, KidsPositions
  <2>3. \A p \in D : f[p] <=> p \in G
    OBVIOUS
  <2>4. InClosed(at, t, u, v) <=> SameAbove(G, t, u, v, at[1], at[2])
    BY <1>2, InClosedFixed
  <2> HIDE DEF D, f, G
  <2>5. SameAbove(G, t, u, v, at[1], at[2]) <=> SameBody(f, t, u, v, at[1], at[2])
    BY <2>2, <2>3 DEF SameAbove, SameBody
  <2>6. InClosed(at, t, u, v) \in BOOLEAN /\ SameBody(f, t, u, v, at[1], at[2]) \in BOOLEAN
    BY Zenon DEF InClosed, SameBody
  <2> QED
    BY <2>4, <2>5, <2>6
<1>3. f = [at \in D |-> SameBody(f, t, u, v, at[1], at[2])]
  <2> DEFINE h == [at \in D |-> SameBody(f, t, u, v, at[1], at[2])]
  <2> HIDE DEF D
  <2>1. \A at \in D : f[at] = h[at]
    BY <1>2
  <2>2. f = h
    BY <2>1, Zenon
  <2> QED
    BY <2>2
<1>4. IsSame(f, t, u, v)
  BY <1>1, <1>3 DEF IsSame
<1> QED
  BY <1>4

\* The pairs of positions whose trees are equal up to the order of the children.
EqualPairs == {p \in Positions(trees[1], trees[2]) : Equivalent[p]}

\* What Equivalent says of a pair of positions.
LEMMA EquivalentAt ==
  ASSUME IsTree(trees[1]), IsTree(trees[2]), NEW p \in Positions(trees[1], trees[2])
  PROVE  /\ Equivalent[p] \in BOOLEAN
         /\ p \in EqualPairs <=> SameAbove(EqualPairs, trees[1], trees[2], visitor, p[1], p[2])
<1> DEFINE t == trees[1]
           u == trees[2]
           f == Equivalent
           D == Positions(t, u)
<1>1. IsSame(f, t, u, visitor)
  BY EquivalentIs, SameExists
<1>2. (DOMAIN t) \X (DOMAIN u) = D
  BY DEF IsTree, Positions
<1>3. p[1] \in 1 .. Len(t) /\ p[2] \in 1 .. Len(u)
  BY DEF Positions
<1>4. \A a \in ToSet(t[p[1]].kids) : \A b \in ToSet(u[p[2]].kids) : <<a, b>> \in D
  BY <1>3, KidsPositions
<1>5. \A q \in D : f[q] <=> q \in EqualPairs
  BY DEF EqualPairs
<1> HIDE DEF t, u, f, D
<1>6. f[p] = SameBody(f, t, u, visitor, p[1], p[2])
  BY <1>1, <1>2 DEF IsSame, D, t, u
<1>7. SameBody(f, t, u, visitor, p[1], p[2]) \in BOOLEAN
  BY Zenon DEF SameBody
<1>8. SameAbove(EqualPairs, t, u, visitor, p[1], p[2]) <=> SameBody(f, t, u, visitor, p[1], p[2])
  BY <1>4, <1>5 DEF SameAbove, SameBody
<1>9. p \in D
  BY DEF D, t, u
<1> QED
  BY <1>5, <1>6, <1>7, <1>8, <1>9 DEF t, u, f

\* Two nodes that are the same are equal exactly if all the pairs of their children are.
LEMMA EqualDown ==
  ASSUME IsTree(trees[1]), IsTree(trees[2]), NEW p \in Positions(trees[1], trees[2]),
         is_same_node(trees[1][p[1]], trees[2][p[2]], visitor.abs_tol, visitor.type_tol)
  PROVE  p \in EqualPairs <=> ToSet(ZipGraph(trees[1], trees[2]).forward[p]) \in SUBSET EqualPairs
<1> DEFINE t == trees[1]
           u == trees[2]
           Z == ToSet(ZipGraph(t, u).forward[p])
           K == ToSet(t[p[1]].kids)
           L == ToSet(u[p[2]].kids)
<1>1. p[1] \in 1 .. Len(t) /\ p[2] \in 1 .. Len(u) /\ p = <<p[1], p[2]>>
  BY DEF Positions
<1>2. Zipped(Z, K, L, t, u)
  BY <1>1, GraphZipped
<1>3. p \in EqualPairs <=> SameAbove(EqualPairs, t, u, visitor, p[1], p[2])
  BY EquivalentAt
<1>4. \A a, b : <<a, b>> \in EqualPairs => t[a].name = u[b].name /\ a # 0 /\ b # 0
  <2> SUFFICES ASSUME NEW a, NEW b, <<a, b>> \in EqualPairs
               PROVE  t[a].name = u[b].name /\ a # 0 /\ b # 0
    OBVIOUS
  <2>1. <<a, b>> \in Positions(t, u)
    BY DEF EqualPairs
  <2>2. a \in 1 .. Len(t) /\ b \in 1 .. Len(u) /\ <<a, b>>[1] = a /\ <<a, b>>[2] = b
    BY <2>1 DEF Positions
  <2>3. SameAbove(EqualPairs, t, u, visitor, a, b)
    BY <2>1, <2>2, EquivalentAt
  <2>4. a # 0 /\ b # 0
    BY <2>2, SMTT(60) DEF IsTree
  <2> QED
    BY <2>3, <2>4 DEF SameAbove, is_same_node
<1> HIDE DEF t, u, Z, K, L
<1>5. ASSUME p \in EqualPairs PROVE Z \in SUBSET EqualPairs
  <2>1. /\ {t[a].name : a \in K} = {u[b].name : b \in L}
        /\ \A a \in K : \A b \in L : t[a].name = u[b].name => <<a, b>> \in EqualPairs
    BY <1>3, <1>5 DEF SameAbove, K, L
  <2>2. \A a \in K : ~Single(a, t, L, u)
    BY <2>1 DEF Single
  <2>3. \A b \in L : ~Single(b, u, K, t)
    BY <2>1 DEF Single
  <2> QED
    BY <1>2, <2>1, <2>2, <2>3 DEF Zipped
<1>6. ASSUME Z \in SUBSET EqualPairs PROVE p \in EqualPairs
  <2>1. ASSUME NEW a \in K PROVE t[a].name \in {u[b].name : b \in L}
    <3>1. CASE Single(a, t, L, u)
      <4>1. PICK b \in L \cup {0} : <<a, b>> \in Z
        BY <1>2, <3>1 DEF Zipped
      <4>2. t[a].name = u[b].name /\ b # 0
        BY <1>4, <1>6, <4>1
      <4> QED
        BY <3>1, <4>1, <4>2 DEF Single
    <3>2. CASE ~Single(a, t, L, u)
      BY <3>2 DEF Single
    <3> QED
      BY <3>1, <3>2
  <2>2. ASSUME NEW b \in L PROVE u[b].name \in {t[a].name : a \in K}
    <3>1. CASE Single(b, u, K, t)
      <4>1. PICK a \in K \cup {0} : <<a, b>> \in Z
        BY <1>2, <3>1 DEF Zipped
      <4>2. t[a].name = u[b].name /\ a # 0
        BY <1>4, <1>6, <4>1
      <4> QED
        BY <3>1, <4>1, <4>2 DEF Single
    <3>2. CASE ~Single(b, u, K, t)
      BY <3>2 DEF Single
    <3> QED
      BY <3>1, <3>2
  <2>3. {t[a].name : a \in K} = {u[b].name : b \in L}
    BY <2>1, <2>2
  <2>4. \A a \in K : \A b \in L : t[a].name = u[b].name => <<a, b>> \in EqualPairs
    BY <1>2, <1>6 DEF Zipped
  <2>5. is_same_node(t[p[1]], u[p[2]], visitor.abs_tol, visitor.type_tol)
    BY DEF t, u
  <2>6. SameAbove(EqualPairs, t, u, visitor, p[1], p[2])
    BY <2>3, <2>4, <2>5 DEF SameAbove, K, L
  <2> QED
    BY <1>3, <2>6
<1> QED
  BY <1>5, <1>6 DEF Z, t, u

-----------------------------------------------------------------------------
(***************************************************************************)
(* The invariant of is_same_tree: as long as no difference is met, the     *)
(* trees are equal if the siblings left to visit are.                      *)
(***************************************************************************)

\* The pair whose children are the siblings of a level.
AboveLevel(s, k) == IF k = 1 THEN <<1, 1>> ELSE Head(s[k - 1])
Awaited(s, E) == \A k \in 1 .. Len(s) : ToSet(s[k]) \in SUBSET E => AboveLevel(s, k) \in E
AllIn(s, E) == \A k \in 1 .. Len(s) : ToSet(s[k]) \in SUBSET E

\* The children of the current node are pushed.
LEMMA AwaitedPush ==
  ASSUME NEW S, NEW s \in Seq(S), Len(s) > 0, NEW x \in S, NEW E, Awaited(s, E),
         ToSet(x) \in SUBSET E => Head(s[Len(s)]) \in E
  PROVE  Awaited(Append(s, x), E) /\ (AllIn(s, E) /\ ToSet(x) \in SUBSET E => AllIn(Append(s, x), E))
<1> DEFINE n == Len(s)
           r == Append(s, x)
<1>1. n \in Nat /\ n > 0 /\ Len(r) = n + 1 /\ r[n + 1] = x /\ \A k \in 1 .. n : r[k] = s[k]
  BY AppendProperties, LenProperties
<1> HIDE DEF n, r
<1>2. ASSUME NEW k \in 1 .. n + 1 PROVE k = n + 1 \/ (k \in 1 .. n /\ (k = 1 \/ k - 1 \in 1 .. n))
  BY <1>1
<1>3. AboveLevel(r, n + 1) = Head(s[n])
  <2>1. n + 1 # 1 /\ (n + 1) - 1 = n /\ n \in 1 .. n
    BY <1>1
  <2> QED
    BY <1>1, <2>1 DEF AboveLevel
<1>4. \A k \in 1 .. n : AboveLevel(r, k) = AboveLevel(s, k)
  <2> TAKE k \in 1 .. n
  <2>1. k = 1 \/ k - 1 \in 1 .. n
    BY <1>1
  <2> QED
    BY <1>1, <2>1 DEF AboveLevel
<1>5. Awaited(r, E)
  <2>1. ASSUME NEW k \in 1 .. n, ToSet(r[k]) \in SUBSET E PROVE AboveLevel(r, k) \in E
    BY <1>1, <1>4, <2>1 DEF Awaited, n
  <2>2. ToSet(r[n + 1]) \in SUBSET E => AboveLevel(r, n + 1) \in E
    BY <1>1, <1>3 DEF n
  <2> QED
    BY <1>1, <1>2, <2>1, <2>2 DEF Awaited
<1>6. AllIn(s, E) /\ ToSet(x) \in SUBSET E => AllIn(r, E)
  BY <1>1, <1>2 DEF AllIn, n
<1> QED
  BY <1>5, <1>6 DEF r

\* The entries of a sequence are its head and those of its tail.
LEMMA HeadTailSet ==
  ASSUME NEW S, NEW s \in Seq(S), s # << >>
  PROVE  ToSet(s) = {Head(s)} \cup ToSet(Tail(s))
<1>1. Tail(s) \in Seq(S) /\ Head(s) \in S /\ s = <<Head(s)>> \o Tail(s)
  OBVIOUS
<1> DEFINE h == Head(s)
           r == Tail(s)
<1>2. Sequence(r)
  BY <1>1, SequenceIn
<1>3. s = <<h>> \o r
  BY <1>1
<1> HIDE DEF h, r
<1>4. ToSet(<<h>> \o r) = {h} \cup ToSet(r)
  BY <1>2, ConsSet
<1> QED
  BY <1>3, <1>4 DEF h, r

\* A level is done.
LEMMA AwaitedPop ==
  ASSUME NEW S, NEW s, NEW m \in Nat, m > 0, Len(s) = m + 1, s[m + 1] = << >>, s[m] \in Seq(S), s[m] # << >>,
         NEW E, Awaited(s, E), NEW r, Len(r) = m, r[m] = Tail(s[m]), \A k \in 1 .. m - 1 : r[k] = s[k]
  PROVE  Awaited(r, E) /\ (AllIn(s, E) => AllIn(r, E))
<1>1. m + 1 \in 1 .. Len(s) /\ (m + 1) - 1 = m /\ m + 1 # 1 /\ m \in 1 .. Len(s)
  OBVIOUS
<1>2. Head(s[m]) \in E
  <2>1. AboveLevel(s, m + 1) = Head(s[m])
    BY <1>1 DEF AboveLevel
  <2>2. ToSet(s[m + 1]) \in SUBSET E
    BY DEF ToSet
  <2> QED
    BY <1>1, <2>1, <2>2 DEF Awaited
<1>3. ToSet(s[m]) = {Head(s[m])} \cup ToSet(r[m])
  BY HeadTailSet
<1>4. ASSUME NEW k \in 1 .. m
      PROVE  AboveLevel(r, k) = AboveLevel(s, k) /\ k \in 1 .. Len(s) /\ (ToSet(r[k]) \in SUBSET E <=> ToSet(s[k]) \in SUBSET E)
  <2>1. k \in 1 .. Len(s) /\ (k = 1 \/ k - 1 \in 1 .. m - 1) /\ (k = m \/ k \in 1 .. m - 1)
    OBVIOUS
  <2>2. AboveLevel(r, k) = AboveLevel(s, k)
    BY <2>1 DEF AboveLevel
  <2>3. ToSet(r[k]) \in SUBSET E <=> ToSet(s[k]) \in SUBSET E
    BY <1>2, <1>3, <2>1
  <2> QED
    BY <2>1, <2>2, <2>3
<1>5. Awaited(r, E)
  BY <1>4 DEF Awaited
<1>6. AllIn(s, E) => AllIn(r, E)
  BY <1>4 DEF AllIn
<1> QED
  BY <1>5, <1>6

\* While no difference is met, all that is left to visit decides whether the trees are equal; if
\* they are, all that is left is equal too.
SameInv == visitor.name = "same" =>
  /\ IsTree(trees[1]) /\ IsTree(trees[2]) /\ graph = ZipGraph(trees[1], trees[2])
  /\ is_ok \in BOOLEAN
  /\ phase = "unwind" => ~is_ok
  /\ is_ok /\ phase = "search" => Awaited(stack, EqualPairs)
  /\ is_ok /\ phase = "done" => <<1, 1>> \in EqualPairs
  /\ <<1, 1>> \in EqualPairs => is_ok /\ (phase = "search" => AllIn(stack, EqualPairs))

\* At the beginning the two roots are left to visit.
LEMMA SameInit ==
  ASSUME Init
  PROVE  SameInv
<1> SUFFICES ASSUME visitor.name = "same" PROVE SameInv
  BY DEF SameInv
<1> DEFINE e == <<1, 1>>
<1>1. trees \in Pairs /\ graph = ZipGraph(trees[1], trees[2])
  <2>1. [name |-> "any"].name = "any"
    OBVIOUS
  <2>2. visitor # [name |-> "any"]
    BY <2>1
  <2> QED
    BY <2>2 DEF Init
<1>2. IsTree(trees[1]) /\ IsTree(trees[2])
  BY <1>1, PairsAssumption
<1>3. graph.roots = <<e>>
  BY <1>1 DEF ZipGraph
<1>4. stack = << <<e>> >> /\ is_ok = TRUE /\ phase = "search"
  BY <1>3 DEF Init, InitTraversal
<1> HIDE DEF e
<1>5. Len(stack) = 1 /\ stack[1] = <<e>> /\ ToSet(<<e>>) = {e}
  BY <1>4 DEF ToSet
<1>6. Awaited(stack, EqualPairs)
  BY <1>5 DEF Awaited, AboveLevel, e
<1>7. e \in EqualPairs => AllIn(stack, EqualPairs)
  BY <1>5 DEF AllIn
<1> QED
  BY <1>1, <1>2, <1>4, <1>6, <1>7 DEF SameInv, e

\* The answer of the visitor of is_same_tree.
LEMMA SamePreKeeps ==
  ASSUME TraversalInv, SameInv, SamePre
  PROVE  SameInv'
<1> DEFINE s == stack
           n == Len(s)
           E == EqualPairs
           ij == Head(s[n])
           t == trees[1]
           u == trees[2]
           N == DOMAIN graph.forward
           kids == graph.forward[ij]
           same == /\ ij[1] # 0 /\ ij[2] # 0
                   /\ is_same_node(t[ij[1]], u[ij[2]], visitor.abs_tol, visitor.type_tol)
           answer == IF same THEN "into" ELSE "out"
<1>1. /\ visitor.name = "same" /\ IsTree(t) /\ IsTree(u) /\ graph = ZipGraph(t, u) /\ is_ok \in BOOLEAN
      /\ phase = "search" /\ (is_ok => Awaited(s, E)) /\ (<<1, 1>> \in E => is_ok /\ AllIn(s, E))
  BY SMTT(60) DEF SamePre, SameInv, Pre
<1>2. /\ s \in Seq(Seq(N)) /\ Len(s) > 0 /\ n \in Nat /\ s[n] # << >> /\ IsGraph(graph)
  BY LenProperties DEF TraversalInv, Shape, SamePre, Pre, level_is_done, Last
<1>3. current_node(stack) = ij
  BY SMTT(60) DEF current_node, Last
<1>4. /\ Pre(answer) /\ is_ok' = (is_ok /\ same)
      /\ UNCHANGED <<graph, visitor, trees>>
  BY <1>3, SMTT(60) DEF SamePre, T
<1>5. E' = E
  BY <1>4 DEF EqualPairs, Equivalent, T, Positions
<1>6. s[n] \in Seq(N) /\ n \in 1 .. n /\ ij \in N /\ ij \in ToSet(s[n])
  <2>1. s[n] \in Seq(N) /\ n \in 1 .. n
    BY <1>2, ElementOfSeq
  <2> DEFINE l == s[n]
  <2> HIDE DEF l
  <2>2. l \in Seq(N) /\ l # << >> => Head(l) \in N /\ Head(l) \in ToSet(l)
    BY HeadTail, HeadTailSet
  <2> QED
    BY <1>2, <2>1, <2>2 DEF l
<1>7. ij \in (0 .. Len(t)) \X (0 .. Len(u))
  <2>1. DOMAIN graph.forward = (0 .. Len(t)) \X (0 .. Len(u))
    BY <1>1, SMTT(60) DEF ZipGraph
  <2> QED
    BY <1>6, <2>1
<1>8. /\ IsTree(trees[1])' /\ IsTree(trees[2])' /\ (graph = ZipGraph(trees[1], trees[2]))'
  BY <1>1, <1>4
<1>9. CASE same
  <2>1. ij \in Positions(t, u)
    BY <1>1, <1>7, <1>9, SMTT(60) DEF Positions, IsTree
  <2>2. ij \in E <=> ToSet(kids) \in SUBSET E
    <3>1. is_same_node(trees[1][ij[1]], trees[2][ij[2]], visitor.abs_tol, visitor.type_tol)
      BY <1>9
    <3> HIDE DEF ij
    <3> QED
      BY <1>1, <2>1, <3>1, EqualDown
  <2>3. kids \in Seq(N)
    BY <1>2, <1>6 DEF IsGraph
  <2>4. stack' = Append(s, kids) /\ phase' = "search" /\ is_ok' = is_ok
    <3>1. Pre("into") /\ is_ok' = is_ok
      BY <1>1, <1>4, <1>9
    <3>2. stack' = push_level(stack) /\ phase' = phase
      BY <3>1 DEF Pre
    <3> QED
      BY <1>1, <1>3, <3>1, <3>2 DEF push_level
  <2> HIDE DEF ij, kids, same, answer, E, N
  <2>5. ASSUME is_ok
        PROVE  Awaited(Append(s, kids), E) /\ (AllIn(s, E) /\ ToSet(kids) \in SUBSET E => AllIn(Append(s, kids), E))
    <3>1. Awaited(s, E)
      BY <1>1, <2>5
    <3>2. ToSet(kids) \in SUBSET E => Head(s[Len(s)]) \in E
      BY <2>2 DEF ij
    <3> QED
      BY <1>2, <2>3, <3>1, <3>2, AwaitedPush
  <2>6. ASSUME <<1, 1>> \in E PROVE AllIn(s, E) /\ ToSet(kids) \in SUBSET E /\ is_ok
    <3>1. AllIn(s, E) /\ is_ok
      BY <1>1, <2>6
    <3>2. ToSet(s[n]) \in SUBSET E
      BY <1>6, <3>1 DEF AllIn
    <3> QED
      BY <1>6, <2>2, <3>1, <3>2
  <2>7. is_ok' => Awaited(stack', E')
    BY <1>5, <2>4, <2>5
  <2>8. <<1, 1>> \in E' => is_ok' /\ AllIn(stack', E')
    BY <1>5, <2>4, <2>5, <2>6
  <2>9. is_ok' \in BOOLEAN
    BY <1>1, <2>4
  <2> QED
    BY <1>8, <2>4, <2>7, <2>8, <2>9, SMTT(60) DEF SameInv, E
<1>10. CASE ~same
  <2>1. <<1, 1>> \notin E
    <3> SUFFICES ASSUME <<1, 1>> \in E PROVE FALSE
      OBVIOUS
    <3>1. ij \in E
      BY <1>1, <1>6 DEF AllIn
    <3>2. ij \in Positions(t, u)
      BY <3>1 DEF EqualPairs
    <3>3. ij[1] \in 1 .. Len(t) /\ ij[2] \in 1 .. Len(u)
      BY <3>2 DEF Positions
    <3>4. ij[1] # 0 /\ ij[2] # 0
      BY <1>1, <3>3 DEF IsTree
    <3> HIDE DEF ij
    <3>5. SameAbove(E, t, u, visitor, ij[1], ij[2])
      BY <1>1, <3>1, <3>2, EquivalentAt
    <3> QED
      BY <1>10, <3>4, <3>5 DEF SameAbove
  <2>2. is_ok' = FALSE /\ phase' = "unwind"
    <3>1. Pre("out") /\ is_ok' = FALSE
      BY <1>1, <1>4, <1>10
    <3> QED
      BY <3>1, SMTT(60) DEF Pre
  <2>3. <<1, 1>> \notin E'
    BY <1>5, <2>1
  <2> HIDE DEF E
  <2> QED
    BY <1>8, <2>2, <2>3 DEF SameInv, E
<1> QED
  BY <1>9, <1>10, SMTT(60)

\* The siblings of a level are all visited.
LEMMA SamePostKeeps ==
  ASSUME TraversalInv, SameInv, Post, UNCHANGED <<graph, visitor, trees, is_ok>>, visitor.name = "same"
  PROVE  SameInv'
<1> DEFINE s == stack
           m == Len(s) - 1
           E == EqualPairs
           N == DOMAIN graph.forward
           ns == s[m]
           up == Front(s)
           s2 == [up EXCEPT ![m] = Tail(ns)]
<1>1. /\ IsTree(trees[1]) /\ IsTree(trees[2]) /\ graph = ZipGraph(trees[1], trees[2]) /\ is_ok \in BOOLEAN
      /\ phase = "search" /\ (is_ok => Awaited(s, E)) /\ (<<1, 1>> \in E => is_ok /\ AllIn(s, E))
  BY DEF Post, SameInv
<1>2. /\ s \in Seq(Seq(N)) /\ s[Len(s)] = << >> /\ Len(s) # 1 /\ Len(s) > 0
      /\ \A k \in 1 .. Len(s) - 1 : s[k] # << >>
  BY DEF TraversalInv, Shape, Post, level_is_done, is_at_root_level, Last
<1>3. m \in Nat /\ m > 0 /\ Len(s) = m + 1 /\ m \in 1 .. m /\ m \in 1 .. Len(s)
  <2> DEFINE n == Len(s)
  <2>1. n \in Nat /\ n # 1 /\ n > 0
    BY <1>2, LenProperties
  <2> HIDE DEF n
  <2>2. n - 1 \in Nat /\ n - 1 > 0 /\ n = (n - 1) + 1 /\ n - 1 \in 1 .. n - 1 /\ n - 1 \in 1 .. n
    BY <2>1
  <2> QED
    BY <2>2 DEF n
<1>4. up \in Seq(Seq(N)) /\ Len(up) = m /\ \A k \in 1 .. m : up[k] = s[k]
  <2> HIDE DEF m
  <2> QED
    BY <1>2, <1>3, FrontFacts, ZenonT(90)
<1>5. ns \in Seq(N) /\ ns # << >> /\ Tail(ns) \in Seq(N)
  <2>1. ns \in Seq(N) /\ ns # << >>
    BY <1>2, <1>3, ElementOfSeq
  <2> QED
    BY <2>1, HeadTail
<1>6. Len(s2) = m /\ s2[m] = Tail(ns) /\ \A k \in 1 .. m - 1 : s2[k] = up[k]
  <2> DEFINE x == Tail(ns)
             S == Seq(N)
             r == [up EXCEPT ![m] = x]
  <2>1. up \in Seq(S) /\ x \in S /\ Len(up) = m /\ m \in Nat /\ m > 0
    BY <1>3, <1>4, <1>5
  <2> HIDE DEF m, up, x, S
  <2>2. r \in Seq(S) /\ Len(r) = m /\ r[m] = x /\ \A k \in 1 .. m - 1 : r[k] = up[k]
    BY <2>1, ReplacedTop
  <2> QED
    BY <2>2 DEF x, S
<1>7. stack' = s2 /\ phase' = phase
  <2>1. up[m] = ns /\ Len(up) = m
    BY <1>3, <1>4
  <2>2. stack' = advance_node_range(up) /\ phase' = phase
    BY DEF Post, pop_level
  <2> HIDE DEF up, m, ns
  <2> QED
    BY <2>1, <2>2 DEF advance_node_range
<1>8. \A k \in 1 .. m - 1 : s2[k] = s[k]
  <2> TAKE k \in 1 .. m - 1
  <2>1. k \in 1 .. m
    BY <1>3
  <2> HIDE DEF s2, up, m
  <2> QED
    BY <1>4, <1>6, <2>1
<1>9. E' = E
  BY DEF EqualPairs, Equivalent, T, Positions
<1>10. s[m + 1] = << >> /\ s[m] \in Seq(N) /\ s[m] # << >>
  BY <1>2, <1>3, <1>5
<1> HIDE DEF s2, m, up, E, N
<1>11. is_ok => Awaited(s2, E) /\ (AllIn(s, E) => AllIn(s2, E))
  BY <1>1, <1>3, <1>6, <1>8, <1>10, AwaitedPop, ZenonT(90) DEF ns
<1>12. /\ IsTree(trees[1])' /\ IsTree(trees[2])' /\ (graph = ZipGraph(trees[1], trees[2]))'
  BY <1>1
<1>13. /\ is_ok' => Awaited(stack', E')
       /\ <<1, 1>> \in E' => is_ok' /\ AllIn(stack', E')
  BY <1>1, <1>7, <1>9, <1>11
<1>14. is_ok' \in BOOLEAN /\ phase' = "search"
  BY <1>1, <1>7
<1> QED
  BY <1>12, <1>13, <1>14 DEF SameInv, E

\* The end of the traversal.
LEMMA SameEndKeeps ==
  ASSUME TraversalInv, SameInv, Done \/ Unwind, UNCHANGED <<graph, visitor, trees, is_ok>>, visitor.name = "same"
  PROVE  SameInv'
<1> DEFINE E == EqualPairs
<1>1. /\ IsTree(trees[1])' /\ IsTree(trees[2])' /\ (graph = ZipGraph(trees[1], trees[2]))' /\ is_ok' \in BOOLEAN
  BY DEF SameInv
<1>2. E' = E /\ is_ok' = is_ok
  BY DEF EqualPairs, Equivalent, T, Positions
<1>3. CASE Done
  <2>1. phase = "search" /\ phase' = "done" /\ Len(stack) = 1 /\ stack[1] = << >>
    BY <1>3 DEF Done, is_done, is_at_root_level, level_is_done, Last
  <2>2. is_ok => <<1, 1>> \in E
    <3>1. ToSet(stack[1]) \in SUBSET E /\ 1 \in 1 .. Len(stack)
      BY <2>1 DEF ToSet
    <3>2. is_ok => AboveLevel(stack, 1) \in E
      BY <2>1, <3>1 DEF SameInv, Awaited
    <3> QED
      BY <3>2 DEF AboveLevel
  <2>3. <<1, 1>> \in E => is_ok
    BY DEF SameInv
  <2> HIDE DEF E
  <2>4. (is_ok' => <<1, 1>> \in E') /\ (<<1, 1>> \in E' => is_ok')
    BY <1>2, <2>2, <2>3
  <2> QED
    BY <1>1, <2>1, <2>4 DEF SameInv, E
<1>4. CASE Unwind
  <2>1. phase = "unwind" /\ phase' \in {"unwind", "done"}
    BY <1>4 DEF Unwind
  <2>2. ~is_ok /\ <<1, 1>> \notin E
    BY <2>1 DEF SameInv
  <2> HIDE DEF E
  <2>3. ~is_ok' /\ <<1, 1>> \notin E'
    BY <1>2, <2>2
  <2> QED
    BY <1>1, <2>1, <2>3 DEF SameInv, E
<1> QED
  BY <1>3, <1>4

\* Every step keeps the invariant of is_same_tree.
LEMMA SameStep ==
  ASSUME TraversalInv, SameInv, [Next]_vars
  PROVE  SameInv'
<1>1. CASE visitor.name # "same"
  <2>1. visitor' = visitor
    BY DEF Next, AnyPre, SamePre, DiffPre, Returned, vars
  <2> QED
    BY <1>1, <2>1 DEF SameInv
<1>2. CASE visitor.name = "same"
  <2>1. CASE SamePre
    BY <2>1, SamePreKeeps
  <2>2. CASE Post /\ UNCHANGED <<graph, visitor, trees, is_ok, err, warn>>
    BY <1>2, <2>2, SamePostKeeps
  <2>3. CASE (Done \/ Unwind) /\ UNCHANGED <<graph, visitor, trees, is_ok, err, warn>>
    BY <1>2, <2>3, SameEndKeeps
  <2>4. CASE UNCHANGED vars
    <3>1. UNCHANGED <<graph, visitor, trees, is_ok, stack, phase>>
      BY <2>4 DEF vars, traversal
    <3>2. EqualPairs' = EqualPairs
      BY <3>1 DEF EqualPairs, Equivalent, T, Positions
    <3> QED
      BY <3>1, <3>2 DEF SameInv
  <2>5. ~AnyPre /\ ~DiffPre
    BY <1>2 DEF AnyPre, DiffPre
  <2> QED
    BY <2>1, <2>2, <2>3, <2>4, <2>5 DEF Next, Returned
<1> QED
  BY <1>1, <1>2

\* What the invariant says when is_same_tree returns.
LEMMA SameExact ==
  ASSUME SameInv
  PROVE  SameTreeExact
<1> SUFFICES ASSUME phase = "done", visitor.name = "same" PROVE is_ok = Equivalent[<<1, 1>>]
  BY DEF SameTreeExact
<1>1. /\ IsTree(trees[1]) /\ IsTree(trees[2]) /\ is_ok \in BOOLEAN
      /\ is_ok <=> <<1, 1>> \in EqualPairs
  BY DEF SameInv
<1>2. <<1, 1>> \in Positions(trees[1], trees[2])
  BY <1>1 DEF Positions, IsTree
<1>3. Equivalent[<<1, 1>>] \in BOOLEAN
  BY <1>1, <1>2, EquivalentAt
<1>4. Equivalent[<<1, 1>>] <=> <<1, 1>> \in EqualPairs
  BY <1>2 DEF EqualPairs
<1> QED
  BY <1>1, <1>3, <1>4

-----------------------------------------------------------------------------
(***************************************************************************)
(* The theorems                                                            *)
(***************************************************************************)

\* The calls made and the trees built so far, continued by the recursion, are the whole traversal.
THEOREM TraversalIsInvariant == Spec => []TraversalInv
<1>1. Init => TraversalInv
  BY InitIsGraph, InitKeeps DEF Init
<1>2. TraversalInv /\ [Next]_vars => TraversalInv'
  BY NextKeeps
<1> QED
  BY <1>1, <1>2, PTL DEF Spec

\* depth_first_search makes the calls of the recursive definition: any graph, any visitor, stopped or not.
THEOREM CallsAlwaysOfRecursion == Spec => []CallsOfRecursion
<1>1. TraversalInv => CallsOfRecursion
  BY TraversalExact
<1> QED
  BY <1>1, TraversalIsInvariant, PTL

\* The lists of every level are those of the trees of that level, numbered one after the other.
THEOREM ListsAreInvariant == Spec => []ListsInv
<1>1. Init => ListsInv
  BY ListsInit DEF Init
<1>2. TraversalInv /\ ListsInv /\ [Next]_vars => ListsInv'
  BY ListsStep
<1> QED
  BY <1>1, <1>2, TraversalIsInvariant, PTL DEF Spec

\* build_tree makes the tree of the nodes entered, and fb_tree_ctor forward and backward lists that
\* agree and are that tree, for any graph and any visitor.
THEOREM BuildersAlwaysExact == Spec => []BuildersExact
<1>1. TraversalInv /\ ListsInv => BuildersExact
  BY TraversalExact, ListsExact DEF BuildersExact
<1> QED
  BY <1>1, TraversalIsInvariant, ListsAreInvariant, PTL

\* is_same_tree is as long as it runs on the way to the right answer.
THEOREM SameIsInvariant == Spec => []SameInv
<1>1. Init => SameInv
  BY SameInit
<1>2. TraversalInv /\ SameInv /\ [Next]_vars => SameInv'
  BY SameStep
<1> QED
  BY <1>1, <1>2, TraversalIsInvariant, PTL DEF Spec

\* is_same_tree, which sorts and merges the children of the two trees and stops at the first
\* difference, returns true exactly if the trees are equal up to the order of the children.
THEOREM SameTreeAlwaysExact == Spec => []SameTreeExact
<1>1. SameInv => SameTreeExact
  BY SameExact
<1> QED
  BY <1>1, SameIsInvariant, PTL
=============================================================================
