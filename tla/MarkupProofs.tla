----------------------------- MODULE MarkupProofs -----------------------------
(* Proofs about Markup, and the lemmas about sets, recursion, lists and       *)
(* sequences that they share with TransformationsProofs. What is escaped      *)
(* comes back as it was; and the walk from tag to tag takes out of a text     *)
(* just what was framed into it, whatever that says.                          *)
EXTENDS Markup, FiniteSetTheorems, SequenceTheorems, FunctionTheorems,
        WellFoundedInduction, NaturalsInduction, TLAPS

(*----------------------------------------------------------------------------*)
(* A set of naturals has a least member, and a recursive function has a value *)
(*----------------------------------------------------------------------------*)

\* Naturals are well-founded.
LEMMA LeastOfNaturals ==
  ASSUME NEW S, S \subseteq Nat, S # {}
  PROVE  \E x \in S : \A y \in S : x <= y
<1> DEFINE Smaller == {pair \in Nat \X Nat : pair[1] < pair[2]}
<1>1. IsWellFoundedOn(Smaller, Nat)
  BY NatLessThanWellFounded, Zenon DEF OpToRel
<1>2. \A j, k \in Nat : j < k => <<j, k>> \in Smaller
  OBVIOUS
<1> HIDE DEF Smaller
<1>3. PICK x \in S : \A y \in S : ~(<<y, x>> \in Smaller)
  BY <1>1, WFMin
<1>4. \A y \in S : y \in Nat /\ x \in Nat /\ ~(y < x)
  BY <1>2, <1>3
<1>5. \A y \in S : x <= y
  BY <1>4
<1> QED BY <1>5

\* The least counterexample of a property of the elements of D measured by m.
LEMMA LeastMeasured ==
  ASSUME NEW D, NEW m \in [D -> Nat], NEW T, T \subseteq D, T # {}
  PROVE  \E x \in T : \A y \in T : m[x] <= m[y]
<1> DEFINE S == {m[x] : x \in T}
<1>1. S \subseteq Nat /\ S # {}
  OBVIOUS
<1>2. \E k \in S : \A j \in S : k <= j
  <2> HIDE DEF S
  <2> QED BY <1>1, LeastOfNaturals
<1>3. PICK k \in S : \A j \in S : k <= j
  BY <1>2
<1>4. PICK x \in T : k = m[x]
  BY <1>3
<1> QED BY <1>3, <1>4

\* The equation of a recursive function on D: it starts at stop with start[x], and
\* steps from the value at down[x].
Solves(f, D, stop, down, start, step) ==
  f = [x \in D |-> IF x \in stop THEN start[x] ELSE step[<<x, f[down[x]]>>]]

ClosedUnder(R, D, B, stop, down, start, step) ==
  /\ R \subseteq D \X B
  /\ \A x \in stop : <<x, start[x]>> \in R
  /\ \A x \in D \ stop : \A b \in B : <<down[x], b>> \in R => <<x, step[<<x, b>>]>> \in R

\* A function that recurs along a decreasing measure satisfies its equation.
LEMMA RecursionHasSolution ==
  ASSUME NEW D, NEW B, NEW stop, stop \subseteq D, NEW down \in [D -> D],
         NEW m \in [D -> Nat], \A x \in D \ stop : m[down[x]] < m[x],
         NEW start \in [D -> B], NEW step \in [D \X B -> B]
  PROVE  \E f \in [D -> B] : Solves(f, D, stop, down, start, step)
<1> DEFINE C(R) == ClosedUnder(R, D, B, stop, down, start, step)
           All == D \X B
           Least == {p \in All : \A R \in SUBSET All : C(R) => p \in R}
<1>1. Least \subseteq All
  OBVIOUS
<1>2. C(Least)
  <2>1. \A x \in stop : <<x, start[x]>> \in Least
    BY DEF ClosedUnder
  <2>2. ASSUME NEW x \in D \ stop, NEW b \in B, <<down[x], b>> \in Least
        PROVE  <<x, step[<<x, b>>]>> \in Least
    <3>1. <<x, step[<<x, b>>]>> \in All
      BY <2>2
    <3>2. ASSUME NEW R \in SUBSET All, C(R) PROVE <<x, step[<<x, b>>]>> \in R
      <4>1. <<down[x], b>> \in R
        BY <2>2, <3>2
      <4> QED BY <4>1, <3>2 DEF ClosedUnder
    <3> QED BY <3>1, <3>2
  <2> QED BY <2>1, <2>2 DEF ClosedUnder
<1>3. ASSUME NEW R, C(R) PROVE Least \subseteq R
  BY <1>3 DEF ClosedUnder
<1> HIDE DEF Least
<1>4. ASSUME NEW x \in stop, NEW b \in B, <<x, b>> \in Least PROVE b = start[x]
  <2> SUFFICES ASSUME b # start[x] PROVE FALSE
    OBVIOUS
  <2> DEFINE R == Least \ {<<x, b>>}
  <2>1. R \subseteq D \X B
    BY <1>1
  <2>2. \A y \in stop : <<y, start[y]>> \in R
    <3> TAKE y \in stop
    <3>1. <<y, start[y]>> \in Least
      BY <1>2 DEF ClosedUnder
    <3> QED BY <3>1
  <2>3. ASSUME NEW y \in D \ stop, NEW c \in B, <<down[y], c>> \in R
        PROVE  <<y, step[<<y, c>>]>> \in R
    <3>1. <<down[y], c>> \in Least
      BY <2>3
    <3>2. <<y, step[<<y, c>>]>> \in Least
      BY <1>2, <3>1 DEF ClosedUnder
    <3> QED BY <3>2
  <2>4. C(R)
    <3> HIDE DEF R
    <3> QED BY <2>1, <2>2, <2>3 DEF ClosedUnder
  <2>5. <<x, b>> \in R
    BY <2>4, <1>3, <1>4
  <2> QED BY <2>5
<1>5. ASSUME NEW x \in D \ stop, NEW a \in B, \A b \in B : <<down[x], b>> \in Least => b = a,
             NEW c \in B, <<x, c>> \in Least
      PROVE  c = step[<<x, a>>]
  <2> SUFFICES ASSUME c # step[<<x, a>>] PROVE FALSE
    OBVIOUS
  <2> DEFINE R == Least \ {<<x, c>>}
  <2>1. R \subseteq D \X B
    BY <1>1
  <2>2. \A y \in stop : <<y, start[y]>> \in R
    <3> TAKE y \in stop
    <3>1. <<y, start[y]>> \in Least
      BY <1>2 DEF ClosedUnder
    <3> QED BY <3>1
  <2>3. ASSUME NEW y \in D \ stop, NEW b \in B, <<down[y], b>> \in R
        PROVE  <<y, step[<<y, b>>]>> \in R
    <3>1. <<down[y], b>> \in Least
      BY <2>3
    <3>2. <<y, step[<<y, b>>]>> \in Least
      BY <1>2, <3>1 DEF ClosedUnder
    <3>3. y = x => b = a
      BY <1>5, <3>1
    <3> QED BY <3>2, <3>3
  <2>4. C(R)
    <3> HIDE DEF R
    <3> QED BY <2>1, <2>2, <2>3 DEF ClosedUnder
  <2>5. <<x, c>> \in R
    BY <2>4, <1>3, <1>5
  <2> QED BY <2>5
<1> DEFINE Has(x) == \E a \in B : <<x, a>> \in Least /\ \A b \in B : <<x, b>> \in Least => b = a
           T == {x \in D : ~Has(x)}
<1>6. ASSUME NEW x \in stop PROVE Has(x)
  <2>1. <<x, start[x]>> \in Least /\ start[x] \in B
    BY <1>2 DEF ClosedUnder
  <2> QED BY <2>1, <1>4
<1>7. ASSUME NEW x \in D \ stop, Has(down[x]) PROVE Has(x)
  <2>1. PICK a \in B : <<down[x], a>> \in Least /\ \A b \in B : <<down[x], b>> \in Least => b = a
    BY <1>7
  <2>2. <<x, step[<<x, a>>]>> \in Least /\ step[<<x, a>>] \in B
    BY <1>2, <2>1 DEF ClosedUnder
  <2>3. \A b \in B : <<x, b>> \in Least => b = step[<<x, a>>]
    BY <2>1, <1>5
  <2> QED BY <2>2, <2>3
<1>8. T = {}
  <2> SUFFICES ASSUME T # {} PROVE FALSE
    OBVIOUS
  <2>1. T \subseteq D
    OBVIOUS
  <2>2. PICK x \in T : \A y \in T : m[x] <= m[y]
    <3> HIDE DEF T
    <3> QED BY <2>1, LeastMeasured
  <2>3. x \in D \ stop /\ ~Has(x)
    BY <2>2, <1>6
  <2>4. ~Has(down[x])
    <3> HIDE DEF Has
    <3> QED BY <2>3, <1>7
  <2>5. down[x] \in T
    <3> HIDE DEF Has
    <3> QED BY <2>4, <2>3
  <2>6. m[x] <= m[down[x]] /\ m[down[x]] < m[x] /\ m[x] \in Nat /\ m[down[x]] \in Nat
    <3> HIDE DEF T
    <3> QED BY <2>2, <2>3, <2>5
  <2> QED BY <2>6
<1>9. \A x \in D : Has(x)
  <2> HIDE DEF Has
  <2> QED BY <1>8
<1> DEFINE f == [x \in D |-> CHOOSE a \in B : <<x, a>> \in Least]
<1>10. ASSUME NEW x \in D
       PROVE  f[x] \in B /\ <<x, f[x]>> \in Least /\ \A b \in B : <<x, b>> \in Least => b = f[x]
  <2>1. Has(x)
    BY <1>9
  <2> QED BY <2>1
<1>11. f \in [D -> B]
  BY <1>10
<1> HIDE DEF f
<1>12. ASSUME NEW x \in D PROVE f[x] = IF x \in stop THEN start[x] ELSE step[<<x, f[down[x]]>>]
  <2>1. CASE x \in stop
    BY <2>1, <1>10, <1>4
  <2>2. CASE x \notin stop
    <3>1. f[down[x]] \in B /\ <<down[x], f[down[x]]>> \in Least
      BY <1>10
    <3>2. \A b \in B : <<down[x], b>> \in Least => b = f[down[x]]
      BY <1>10
    <3>3. f[x] \in B /\ <<x, f[x]>> \in Least
      BY <1>10
    <3> QED BY <2>2, <3>1, <3>2, <3>3, <1>5
  <2> QED BY <2>1, <2>2
<1>13. Solves(f, D, stop, down, start, step)
  BY <1>11, <1>12 DEF Solves
<1> QED BY <1>11, <1>13

(*----------------------------------------------------------------------------*)
(* Lists in an order                                                          *)
(*----------------------------------------------------------------------------*)
TotallyOrders(before, S) ==
  /\ \A x \in S : <<x, x>> \notin before
  /\ \A x, y, z \in S : <<x, y>> \in before /\ <<y, z>> \in before => <<x, z>> \in before
  /\ \A x, y \in S : x # y => <<x, y>> \in before \/ <<y, x>> \in before

Before(S, before, x) == {y \in S : <<y, x>> \in before}
PlaceIn(S, before, x) == Cardinality(Before(S, before, x)) + 1

\* A list of the members of S, each where its number of predecessors puts it.
Lists(list, S, before) ==
  /\ Cardinality(S) \in Nat
  /\ list \in [1..Cardinality(S) -> S]
  /\ \A x \in S : PlaceIn(S, before, x) \in 1..Cardinality(S) /\ list[PlaceIn(S, before, x)] = x
  /\ \A i \in 1..Cardinality(S) : PlaceIn(S, before, list[i]) = i
  /\ \A i, j \in 1..Cardinality(S) : i < j <=> <<list[i], list[j]>> \in before

\* Sorting a finite set by a strict total order lists it.
LEMMA OrderedLists ==
  ASSUME NEW S, IsFiniteSet(S), NEW before, TotallyOrders(before, S)
  PROVE  Lists(Ordered(S, before), S, before)
<1> DEFINE n == Cardinality(S)
           below(x) == Before(S, before, x)
           rank == [x \in S |-> Cardinality(below(x))]
           list == Ordered(S, before)
<1>1. n \in Nat BY FS_CardinalityType
<1>2. ASSUME NEW x \in S PROVE rank[x] \in 0..n - 1
  <2>1. below(x) \in SUBSET (S \ {x}) BY DEF TotallyOrders, Before
  <2>2. IsFiniteSet(S \ {x}) /\ Cardinality(S \ {x}) = n - 1 BY FS_RemoveElement
  <2>3. IsFiniteSet(below(x)) /\ Cardinality(below(x)) <= n - 1 BY <2>1, <2>2, FS_Subset
  <2>4. Cardinality(below(x)) \in Nat BY <2>3, FS_CardinalityType
  <2> QED BY <1>1, <2>3, <2>4
<1>3. ASSUME NEW x \in S, NEW y \in S, <<x, y>> \in before PROVE rank[x] < rank[y]
  <2>1. x \notin below(x) BY DEF TotallyOrders, Before
  <2>2. below(x) \cup {x} \subseteq below(y) BY <1>3 DEF TotallyOrders, Before
  <2>3. IsFiniteSet(below(x)) /\ IsFiniteSet(below(y)) BY FS_Subset DEF Before
  <2>4. IsFiniteSet(below(x) \cup {x}) /\ Cardinality(below(x) \cup {x}) = Cardinality(below(x)) + 1
    BY <2>1, <2>3, FS_AddElement
  <2>5. Cardinality(below(x) \cup {x}) <= Cardinality(below(y)) BY <2>2, <2>3, FS_Subset
  <2>6. Cardinality(below(x)) \in Nat /\ Cardinality(below(y)) \in Nat BY <2>3, FS_CardinalityType
  <2> QED BY <2>4, <2>5, <2>6
<1>4. \A x, y \in S : rank[x] = rank[y] => x = y
  <2> SUFFICES ASSUME NEW x \in S, NEW y \in S, x # y PROVE rank[x] # rank[y] OBVIOUS
  <2>1. rank[x] < rank[y] \/ rank[y] < rank[x] BY <1>3 DEF TotallyOrders
  <2> QED BY <1>1, <1>2, <2>1
<1>5. \A i \in 0..n - 1 : \E x \in S : rank[x] = i
  <2>1. rank \in [S -> 0..n - 1] BY <1>2
  <2>2. rank \in Injection(S, 0..n - 1) BY <1>4, <2>1 DEF Injection, IsInjective
  <2>3. IsFiniteSet(0..n - 1) /\ Cardinality(0..n - 1) = n BY <1>1, FS_Interval, SMTT(30)
  <2>4. rank \in Surjection(S, 0..n - 1) BY <2>2, <2>3, FS_Injection
  <2> QED BY <2>4 DEF Surjection
<1>6. \A i \in 1..n : list[i] \in S /\ rank[list[i]] = i - 1
  <2> SUFFICES ASSUME NEW i \in 1..n PROVE list[i] \in S /\ rank[list[i]] = i - 1 OBVIOUS
  <2>1. list[i] = CHOOSE x \in S : Cardinality(below(x)) = i - 1 BY DEF Ordered, Before
  <2>2. i - 1 \in 0..n - 1 BY <1>1
  <2>3. PICK x \in S : rank[x] = i - 1 BY <1>5, <2>2
  <2>4. Cardinality(below(x)) = i - 1 BY <2>3
  <2> HIDE DEF below, list
  <2>5. list[i] \in S /\ Cardinality(below(list[i])) = i - 1 BY <2>1, <2>4
  <2> QED BY <2>5
<1>7. list \in [1..n -> S]
  <2> DEFINE pick(i) == CHOOSE x \in S : Cardinality({y \in S : <<y, x>> \in before}) = i - 1
  <2>1. list = [i \in 1..n |-> pick(i)] BY DEF Ordered
  <2> HIDE DEF list, pick, n
  <2> QED BY <1>6, <2>1
<1>8. \A x \in S : rank[x] + 1 \in 1..n /\ list[rank[x] + 1] = x
  <2> SUFFICES ASSUME NEW x \in S PROVE rank[x] + 1 \in 1..n /\ list[rank[x] + 1] = x OBVIOUS
  <2> HIDE DEF rank, list
  <2>1. rank[x] + 1 \in 1..n BY <1>1, <1>2
  <2>2. list[rank[x] + 1] \in S /\ rank[list[rank[x] + 1]] = rank[x] BY <1>1, <1>2, <1>6, <2>1
  <2> QED BY <1>4, <2>1, <2>2
<1>9. \A i, j \in 1..n : i < j <=> <<list[i], list[j]>> \in before
  <2> SUFFICES ASSUME NEW i \in 1..n, NEW j \in 1..n PROVE i < j <=> <<list[i], list[j]>> \in before OBVIOUS
  <2> HIDE DEF list, n
  <2>1. list[i] \in S /\ list[j] \in S /\ rank[list[i]] = i - 1 /\ rank[list[j]] = j - 1 BY <1>6
  <2> HIDE DEF rank
  <2>2. CASE i = j BY <1>1, <2>1, <2>2 DEF TotallyOrders
  <2>3. CASE i # j
    <3>1. list[i] # list[j] BY <1>1, <2>1, <2>3
    <3>2. <<list[i], list[j]>> \in before \/ <<list[j], list[i]>> \in before BY <2>1, <3>1 DEF TotallyOrders
    <3>3. <<list[i], list[j]>> \in before => i < j BY <1>1, <1>3, <2>1
    <3>4. <<list[j], list[i]>> \in before => j < i BY <1>1, <1>3, <2>1
    <3> QED BY <1>1, <3>2, <3>3, <3>4
  <2> QED BY <2>2, <2>3
<1>10. \A x \in S : PlaceIn(S, before, x) = rank[x] + 1 BY DEF PlaceIn
<1>11. \A i \in 1..n : PlaceIn(S, before, list[i]) = i
  <2> HIDE DEF list, rank
  <2> QED BY <1>1, <1>6, <1>10
<1> HIDE DEF list, rank
<1> QED BY <1>1, <1>7, <1>8, <1>9, <1>10, <1>11 DEF Lists, list

\* So the list holds every member, and only members.
LEMMA ListHolds ==
  ASSUME NEW S, NEW before, NEW list, Lists(list, S, before)
  PROVE  ToSet(list) = S /\ DOMAIN list = 1..Cardinality(S) /\ list \in Seq(S) /\ Len(list) = Cardinality(S)
<1>1. Cardinality(S) \in Nat /\ list \in [1..Cardinality(S) -> S] BY DEF Lists
<1>2. \A x \in S : \E i \in 1..Cardinality(S) : list[i] = x BY DEF Lists
<1>3. list \in Seq(S) /\ Len(list) = Cardinality(S) BY <1>1
<1> QED BY <1>1, <1>2, <1>3 DEF ToSet

\* A list in ascending order.
AscendsOver(s, S) ==
  /\ Cardinality(S) \in Nat
  /\ s \in [1..Cardinality(S) -> S] /\ DOMAIN s = 1..Cardinality(S) /\ Len(s) = Cardinality(S)
  /\ \A x \in S : \E i \in 1..Cardinality(S) : s[i] = x
  /\ \A i, j \in 1..Cardinality(S) : i < j <=> s[i] < s[j]

\* Ascending lists a finite set of naturals.
LEMMA AscendingAscends ==
  ASSUME NEW S, S \subseteq Nat, IsFiniteSet(S)
  PROVE  AscendsOver(Ascending(S), S)
<1> DEFINE before == {p \in S \X S : p[1] < p[2]}
           s == Ordered(S, before)
<1>1. TotallyOrders(before, S)
  <2>1. \A x \in S, y \in S : <<x, y>> \in before <=> x < y
    OBVIOUS
  <2>2. \A x \in S : x \in Nat
    OBVIOUS
  <2> HIDE DEF before
  <2> QED BY <2>1, <2>2 DEF TotallyOrders
<1>2. Lists(s, S, before)
  <2> HIDE DEF before
  <2> QED BY <1>1, OrderedLists
<1>3. s \in [1..Cardinality(S) -> S] /\ Cardinality(S) \in Nat
      /\ \A i, j \in 1..Cardinality(S) : i < j <=> <<s[i], s[j]>> \in before
  BY <1>2 DEF Lists
<1>4. \A x \in S : \E i \in 1..Cardinality(S) : s[i] = x
  BY <1>2 DEF Lists
<1>5. ToSet(s) = S /\ DOMAIN s = 1..Cardinality(S) /\ s \in Seq(S) /\ Len(s) = Cardinality(S)
  <2> HIDE DEF s, before
  <2> QED BY <1>2, ListHolds
<1> HIDE DEF s
<1>6. \A i, j \in 1..Cardinality(S) : i < j <=> s[i] < s[j]
  <2>1. \A i, j \in 1..Cardinality(S) : <<s[i], s[j]>> \in before <=> s[i] < s[j]
    BY <1>3
  <2> HIDE DEF before
  <2> QED BY <1>3, <2>1
<1> QED BY <1>3, <1>4, <1>5, <1>6 DEF AscendsOver, Ascending, s

(*----------------------------------------------------------------------------*)
(* Members of sequences                                                       *)
(*----------------------------------------------------------------------------*)
LEMMA MembersOfConcat ==
  ASSUME NEW S, NEW s \in Seq(S), NEW t \in Seq(S)
  PROVE  /\ s \o t \in Seq(S) /\ Len(s \o t) = Len(s) + Len(t)
         /\ ToSet(s \o t) = ToSet(s) \cup ToSet(t)
<1>1. /\ s \o t \in Seq(S) /\ Len(s \o t) = Len(s) + Len(t)
      /\ \A i \in 1..Len(s) + Len(t) : (s \o t)[i] = IF i <= Len(s) THEN s[i] ELSE t[i - Len(s)]
      /\ DOMAIN s = 1..Len(s) /\ DOMAIN t = 1..Len(t) /\ DOMAIN (s \o t) = 1..Len(s) + Len(t)
      /\ Len(s) \in Nat /\ Len(t) \in Nat
  OBVIOUS
<1> DEFINE u == s \o t
<1> HIDE DEF u
<1>2. /\ \A i \in DOMAIN u : u[i] = IF i <= Len(s) THEN s[i] ELSE t[i - Len(s)]
      /\ DOMAIN u = 1..Len(s) + Len(t)
  BY <1>1 DEF u
<1>3. ASSUME NEW i \in DOMAIN u PROVE u[i] \in ToSet(s) \cup ToSet(t)
  <2>1. CASE i <= Len(s)
    BY <1>1, <1>2, <2>1 DEF ToSet
  <2>2. CASE ~(i <= Len(s))
    <3>1. i - Len(s) \in DOMAIN t /\ u[i] = t[i - Len(s)]
      BY <1>1, <1>2, <2>2
    <3> QED BY <3>1 DEF ToSet
  <2> QED BY <2>1, <2>2
<1>4. ASSUME NEW i \in DOMAIN s PROVE s[i] \in ToSet(u)
  <2>1. i \in DOMAIN u /\ u[i] = s[i]
    BY <1>1, <1>2
  <2> QED BY <2>1 DEF ToSet
<1>5. ASSUME NEW i \in DOMAIN t PROVE t[i] \in ToSet(u)
  <2>1. i + Len(s) \in DOMAIN u /\ u[i + Len(s)] = t[i]
    BY <1>1, <1>2
  <2> QED BY <2>1 DEF ToSet
<1>6. ToSet(u) = ToSet(s) \cup ToSet(t)
  BY <1>3, <1>4, <1>5 DEF ToSet
<1> QED BY <1>1, <1>6 DEF u

\* A part of a sequence holds what stood there.
LEMMA MembersOfPart ==
  ASSUME NEW S, NEW s \in Seq(S), NEW a \in 1..Len(s) + 1, NEW b \in a - 1..Len(s)
  PROVE  /\ SubSeq(s, a, b) \in Seq(S) /\ Len(SubSeq(s, a, b)) = b - a + 1
         /\ \A i \in 1..b - a + 1 : SubSeq(s, a, b)[i] = s[a + i - 1]
         /\ ToSet(SubSeq(s, a, b)) = {s[i] : i \in a..b}
<1> DEFINE u == SubSeq(s, a, b)
<1>1. Len(s) \in Nat /\ a \in Nat /\ b \in Nat
  OBVIOUS
<1>2. CASE b = a - 1
  <2>1. u = <<>>
    BY <1>1, <1>2
  <2>2. ToSet(u) = {}
    BY <2>1 DEF ToSet
  <2>3. a..b = {} /\ 1..b - a + 1 = {} /\ b - a + 1 = 0
    BY <1>1, <1>2
  <2> HIDE DEF u
  <2>4. u \in Seq(S) /\ Len(u) = 0
    BY <2>1
  <2> QED BY <2>2, <2>3, <2>4 DEF u
<1>3. CASE b # a - 1
  <2>1. /\ u \in Seq(S) /\ Len(u) = b - a + 1
        /\ \A i \in 1..b - a + 1 : u[i] = s[a + i - 1]
    BY <1>1, <1>3
  <2> HIDE DEF u
  <2>2. DOMAIN u = 1..b - a + 1
    BY <2>1
  <2>3. ASSUME NEW i \in 1..b - a + 1 PROVE u[i] \in {s[k] : k \in a..b}
    <3>1. a + i - 1 \in a..b
      BY <1>1
    <3> QED BY <2>1, <3>1
  <2>4. ASSUME NEW k \in a..b PROVE s[k] \in {u[i] : i \in 1..b - a + 1}
    <3>1. k - a + 1 \in 1..b - a + 1 /\ a + (k - a + 1) - 1 = k
      BY <1>1
    <3> QED BY <2>1, <3>1
  <2>5. ToSet(u) = {u[i] : i \in 1..b - a + 1}
    BY <2>2, Zenon DEF ToSet
  <2>6. ToSet(u) = {s[k] : k \in a..b}
    BY <2>3, <2>4, <2>5
  <2> QED BY <2>1, <2>6 DEF u
<1> QED BY <1>2, <1>3

\* FlattenSeq, one sequence after the other.
LEMMA Flattened ==
  ASSUME NEW S, NEW seqs \in Seq(Seq(S)), seqs # <<>>
  PROVE  \E f \in [1..Len(seqs) -> Seq(S)] :
           /\ FlattenSeq(seqs) = f[Len(seqs)]
           /\ f[1] = seqs[1]
           /\ \A i \in 2..Len(seqs) : f[i] = f[i - 1] \o seqs[i]
<1> DEFINE D == 1..Len(seqs)
           B == Seq(S)
           Eq(f) == f = [i \in D |-> IF i = 1 THEN seqs[i] ELSE f[i - 1] \o seqs[i]]
           stop == {1}
           down == [i \in D |-> IF i = 1 THEN 1 ELSE i - 1]
           m == [i \in D |-> i]
           start == [i \in D |-> seqs[i]]
           step == [p \in D \X B |-> p[2] \o seqs[p[1]]]
<1>1. Len(seqs) \in Nat /\ Len(seqs) # 0 /\ \A i \in D : seqs[i] \in B
  OBVIOUS
<1>2. stop \subseteq D /\ down \in [D -> D] /\ m \in [D -> Nat] /\ \A i \in D \ stop : m[down[i]] < m[i]
  BY <1>1
<1>3. start \in [D -> B] /\ step \in [D \X B -> B]
  <2>1. \A s, t \in B : s \o t \in B
    OBVIOUS
  <2> HIDE DEF D, B
  <2> QED BY <1>1, <2>1
<1>4. PICK f \in [D -> B] : Solves(f, D, stop, down, start, step)
  <2>1. \E f \in [D -> B] : Solves(f, D, stop, down, start, step)
    <3> HIDE DEF D, B, stop, down, m, start, step
    <3> QED BY <1>2, <1>3, RecursionHasSolution
  <2> QED BY <2>1
<1>5. ASSUME NEW i \in D PROVE f[i] = IF i = 1 THEN seqs[i] ELSE f[i - 1] \o seqs[i]
  <2>1. f[i] = IF i \in stop THEN start[i] ELSE step[<<i, f[down[i]]>>]
    <3> HIDE DEF D, stop, start, step, down
    <3> QED BY <1>4 DEF Solves
  <2>2. CASE i = 1
    BY <2>1, <2>2
  <2>3. CASE i # 1
    <3>1. down[i] = i - 1 /\ i - 1 \in D /\ i \notin stop
      BY <1>1, <2>3
    <3>2. f[i - 1] \in B
      BY <3>1, <1>4
    <3>3. step[<<i, f[i - 1]>>] = f[i - 1] \o seqs[i]
      <4> HIDE DEF B, D
      <4> QED BY <3>2
    <3> HIDE DEF step, down, stop
    <3> QED BY <2>1, <2>3, <3>1, <3>3
  <2> QED BY <2>2, <2>3
<1>6. Eq(f)
  <2>1. f = [i \in D |-> f[i]]
    BY <1>4
  <2> HIDE DEF D
  <2> QED BY <1>5, <2>1
<1> DEFINE g == CHOOSE h : Eq(h)
<1>7. Eq(g)
  <2> HIDE DEF Eq
  <2> QED BY <1>6, Zenon
<1>8. FlattenSeq(seqs) = g[Len(seqs)]
  BY <1>1, Zenon DEF FlattenSeq
<1> HIDE DEF g
<1>9. g = [i \in D |-> g[i]]
  <2> HIDE DEF D
  <2> QED BY <1>7
<1>10. \A i \in D : g[i] = IF i = 1 THEN seqs[i] ELSE g[i - 1] \o seqs[i]
  <2> HIDE DEF D
  <2> QED BY <1>7
<1> DEFINE T == {i \in D : g[i] \notin B}
<1>11. T = {}
  <2> SUFFICES ASSUME T # {} PROVE FALSE
    OBVIOUS
  <2>1. T \subseteq Nat
    OBVIOUS
  <2>2. PICK i \in T : \A y \in T : i <= y
    <3> HIDE DEF T
    <3> QED BY <2>1, LeastOfNaturals
  <2>3. i \in D /\ g[i] \notin B
    BY <2>2
  <2>4. i # 1
    BY <1>1, <1>10, <2>3
  <2>5. i - 1 \in D /\ i - 1 \notin T
    BY <1>1, <2>2, <2>3, <2>4
  <2>6. g[i - 1] \in B /\ g[i] = g[i - 1] \o seqs[i]
    BY <1>10, <2>3, <2>4, <2>5
  <2> QED BY <1>1, <2>3, <2>6
<1>12. g \in [D -> B]
  <2>1. \A i \in D : g[i] \in B
    BY <1>11
  <2> HIDE DEF D, B
  <2> QED BY <1>9, <2>1
<1>13. g[1] = seqs[1] /\ \A i \in 2..Len(seqs) : g[i] = g[i - 1] \o seqs[i]
  <2>1. 1 \in D /\ \A i \in 2..Len(seqs) : i \in D /\ i # 1
    BY <1>1
  <2> HIDE DEF D
  <2> QED BY <1>10, <2>1
<1> QED BY <1>8, <1>12, <1>13

(*----------------------------------------------------------------------------*)
(* The agents' XML: what is escaped comes back, and the walk from tag to tag  *)
(* takes out of a text what was framed into it                                *)
(*----------------------------------------------------------------------------*)
\* The prefixes of a flattened sequence of texts.
AddsUp(F, seqs, S) ==
  /\ F \in [0..Len(seqs) -> Seq(S)]
  /\ F[0] = <<>>
  /\ \A i \in 1..Len(seqs) : F[i] = F[i - 1] \o seqs[i]

\* FlattenSeq puts one text behind the other.
LEMMA FlattenJoins ==
  ASSUME NEW S, NEW seqs \in Seq(Seq(S))
  PROVE  \E F : AddsUp(F, seqs, S) /\ FlattenSeq(seqs) = F[Len(seqs)]
<1> DEFINE n == Len(seqs)
<1>0. n \in Nat /\ (\A i \in 1..n : seqs[i] \in Seq(S)) /\ <<>> \in Seq(S)
  OBVIOUS
<1>1. CASE seqs = <<>>
  <2> DEFINE F == [i \in 0..0 |-> <<>>]
  <2>1. n = 0 /\ FlattenSeq(seqs) = <<>>
    BY <1>1 DEF FlattenSeq
  <2>2. F \in [0..n -> Seq(S)] /\ F[0] = <<>> /\ 1..n = {} /\ FlattenSeq(seqs) = F[n]
    BY <1>0, <2>1
  <2> HIDE DEF F
  <2> QED BY <2>2 DEF AddsUp
<1>2. CASE seqs # <<>>
  <2>1. PICK f \in [1..n -> Seq(S)] :
          /\ FlattenSeq(seqs) = f[n] /\ f[1] = seqs[1]
          /\ \A i \in 2..n : f[i] = f[i - 1] \o seqs[i]
    BY <1>2, Flattened
  <2> DEFINE F == [i \in 0..n |-> IF i = 0 THEN <<>> ELSE f[i]]
  <2>2. n # 0
    BY <1>2
  <2> HIDE DEF n
  <2>3. F \in [0..n -> Seq(S)] /\ F[0] = <<>> /\ F[n] = FlattenSeq(seqs)
        /\ \A i \in 1..n : F[i] = f[i]
    BY <1>0, <2>1, <2>2
  <2> HIDE DEF F
  <2>4. ASSUME NEW i \in 1..n PROVE F[i] = F[i - 1] \o seqs[i]
    <3>1. CASE i = 1
      <4>1. \A s \in Seq(S) : <<>> \o s = s
        OBVIOUS
      <4>2. F[1] = seqs[1] /\ F[1 - 1] = <<>> /\ seqs[1] \in Seq(S) /\ F[1 - 1] \o seqs[1] = seqs[1]
        <5>1. 1 \in 1..n
          BY <1>0, <2>2
        <5>2. 1 - 1 = 0
          OBVIOUS
        <5>3. F[1] = seqs[1] /\ F[1 - 1] = <<>> /\ seqs[1] \in Seq(S)
          BY <1>0, <2>1, <2>3, <5>1, <5>2
        <5> QED BY <4>1, <5>3
      <4> QED BY <3>1, <4>2
    <3>2. CASE i # 1
      <4>1. i \in 2..n /\ i - 1 \in 1..n
        BY <1>0, <3>2
      <4> QED BY <2>1, <2>3, <4>1
    <3> QED BY <3>1, <3>2
  <2> QED BY <2>3, <2>4 DEF AddsUp, n
<1> QED BY <1>1, <1>2

\* It gives a text.
LEMMA FlattenIsText ==
  ASSUME NEW S, NEW seqs \in Seq(Seq(S))
  PROVE  FlattenSeq(seqs) \in Seq(S)
<1>1. PICK F : AddsUp(F, seqs, S) /\ FlattenSeq(seqs) = F[Len(seqs)]
  BY FlattenJoins
<1>2. Len(seqs) \in 0..Len(seqs)
  OBVIOUS
<1> QED BY <1>1, <1>2 DEF AddsUp

\* One text flattens to itself, none to the empty one.
LEMMA FlattenOne ==
  ASSUME NEW S, NEW s \in Seq(S)
  PROVE  FlattenSeq(<<s>>) = s /\ FlattenSeq(<<>>) = <<>>
<1>1. PICK F : AddsUp(F, <<s>>, S) /\ FlattenSeq(<<s>>) = F[Len(<<s>>)]
  <2>1. <<s>> \in Seq(Seq(S))
    OBVIOUS
  <2> QED BY <2>1, FlattenJoins
<1>2. Len(<<s>>) = 1 /\ <<s>>[1] = s /\ 1 \in 1..1 /\ 1 - 1 = 0
  OBVIOUS
<1>3. F[1] = F[0] \o s /\ F[0] = <<>>
  BY <1>1, <1>2 DEF AddsUp
<1>4. F[1] = s
  BY <1>3
<1>5. FlattenSeq(<<>>) = <<>>
  BY DEF FlattenSeq
<1> QED BY <1>1, <1>2, <1>4, <1>5

\* It distributes over concatenation.
LEMMA FlattenConcat ==
  ASSUME NEW S, NEW x \in Seq(Seq(S)), NEW y \in Seq(Seq(S))
  PROVE  FlattenSeq(x \o y) = FlattenSeq(x) \o FlattenSeq(y)
<1> DEFINE n == Len(x)
           k == Len(y)
           z == x \o y
<1>1. n \in Nat /\ k \in Nat /\ z \in Seq(Seq(S)) /\ Len(z) = n + k
      /\ (\A i \in 1..n : z[i] = x[i]) /\ (\A j \in 1..k : z[n + j] = y[j] /\ y[j] \in Seq(S))
  OBVIOUS
<1> HIDE DEF n, k, z
<1>2. PICK F : AddsUp(F, x, S) /\ FlattenSeq(x) = F[n]
  BY FlattenJoins DEF n
<1>3. PICK G : AddsUp(G, y, S) /\ FlattenSeq(y) = G[k]
  BY FlattenJoins DEF k
<1>4. PICK H : AddsUp(H, z, S) /\ FlattenSeq(z) = H[n + k]
  BY <1>1, FlattenJoins
<1>5. /\ F \in [0..n -> Seq(S)] /\ F[0] = <<>> /\ \A i \in 1..n : F[i] = F[i - 1] \o x[i]
      /\ G \in [0..k -> Seq(S)] /\ G[0] = <<>> /\ \A j \in 1..k : G[j] = G[j - 1] \o y[j]
      /\ H[0] = <<>> /\ \A i \in 1..n + k : H[i] = H[i - 1] \o z[i]
  BY <1>1, <1>2, <1>3, <1>4 DEF AddsUp, n, k
<1> DEFINE Same(i) == H[i] = F[i]
           T == {i \in 0..n : ~Same(i)}
<1>6. T = {}
  <2> SUFFICES ASSUME T # {} PROVE FALSE
    OBVIOUS
  <2>1. T \subseteq Nat
    BY <1>1
  <2>2. PICK i \in T : \A j \in T : i <= j
    <3> HIDE DEF T
    <3> QED BY <2>1, LeastOfNaturals
  <2>3. i \in 0..n /\ ~Same(i)
    BY <2>2
  <2>4. i # 0
    BY <1>5, <2>3
  <2>5. i \in 1..n /\ i \in 1..n + k /\ i - 1 \in 0..n /\ i - 1 \notin T
    <3> HIDE DEF Same
    <3> QED BY <1>1, <2>2, <2>3, <2>4
  <2>6. H[i - 1] = F[i - 1]
    BY <2>5
  <2> QED BY <1>1, <1>5, <2>3, <2>5, <2>6, ZenonT(60)
<1>7. H[n] = F[n]
  <2>1. n \in 0..n
    BY <1>1
  <2> QED BY <1>6, <2>1
<1> DEFINE Goes(j) == H[n + j] = F[n] \o G[j]
           U == {j \in 0..k : ~Goes(j)}
<1>8. U = {}
  <2> SUFFICES ASSUME U # {} PROVE FALSE
    OBVIOUS
  <2>1. U \subseteq Nat
    <3> HIDE DEF Goes
    <3> QED BY <1>1
  <2>2. PICK j \in U : \A i \in U : j <= i
    <3> HIDE DEF U
    <3> QED BY <2>1, LeastOfNaturals
  <2>3. j \in 0..k /\ ~Goes(j)
    <3> HIDE DEF Goes
    <3> QED BY <2>2
  <2>4. F[n] \in Seq(S) /\ \A s \in Seq(S) : s \o <<>> = s
    <3>1. n \in 0..n
      BY <1>1
    <3> QED BY <1>5, <3>1
  <2>5. j # 0
    <3>1. n + 0 = n
      BY <1>1
    <3> QED BY <1>5, <1>7, <2>3, <2>4, <3>1
  <2>6. j \in 1..k /\ n + j \in 1..n + k /\ (n + j) - 1 = n + (j - 1) /\ j - 1 \in 0..k /\ j - 1 \notin U
    <3> HIDE DEF Goes
    <3> QED BY <1>1, <2>2, <2>3, <2>5
  <2>7. H[n + j] = H[n + (j - 1)] \o y[j] /\ H[n + (j - 1)] = F[n] \o G[j - 1]
    BY <1>1, <1>5, <2>6
  <2>8. G[j - 1] \in Seq(S) /\ y[j] \in Seq(S) /\ G[j] = G[j - 1] \o y[j]
    BY <1>1, <1>5, <2>6
  <2>9. (F[n] \o G[j - 1]) \o y[j] = F[n] \o (G[j - 1] \o y[j])
    <3>1. \A a, b, c \in Seq(S) : (a \o b) \o c = a \o (b \o c)
      BY ConcatAssociative, SMTT(60)
    <3> QED BY <2>4, <2>8, <3>1, Zenon
  <2> QED BY <2>3, <2>7, <2>8, <2>9
<1>9. H[n + k] = F[n] \o G[k]
  <2>1. k \in 0..k
    BY <1>1
  <2> QED BY <1>8, <2>1
<1> QED BY <1>2, <1>3, <1>4, <1>9 DEF z

\* The beginnings of a sequence grow by one element.
LEMMA PartGrows ==
  ASSUME NEW S, NEW s \in Seq(S), NEW i \in 1..Len(s)
  PROVE  /\ SubSeq(s, 1, i - 1) \in Seq(S) /\ s[i] \in S
         /\ SubSeq(s, 1, i) = SubSeq(s, 1, i - 1) \o <<s[i]>>
<1> DEFINE Part(j) == SubSeq(s, 1, j)
           k == i - 1
<1>1. k \in 0..Len(s) /\ i = k + 1 /\ i \in 1..Len(s)
  OBVIOUS
<1> HIDE DEF k
<1>2. Part(k) \in Seq(S) /\ Len(Part(k)) = k /\ \A j \in 1..k : Part(k)[j] = s[j]
  BY <1>1
<1>3. Part(k + 1) \in Seq(S) /\ Len(Part(k + 1)) = k + 1 /\ \A j \in 1..k + 1 : Part(k + 1)[j] = s[j]
  BY <1>1
<1>4. s[k + 1] \in S
  BY <1>1
<1>5. Part(k) \o <<s[k + 1]>> \in Seq(S) /\ Len(Part(k) \o <<s[k + 1]>>) = k + 1
      /\ \A j \in 1..k + 1 : (Part(k) \o <<s[k + 1]>>)[j] = s[j]
  <2> HIDE DEF Part
  <2> QED BY <1>1, <1>2, <1>4
<1>6. Part(k + 1) = Part(k) \o <<s[k + 1]>>
  <2> HIDE DEF Part
  <2>0. \A j \in 1..Len(Part(k + 1)) : Part(k + 1)[j] = (Part(k) \o <<s[k + 1]>>)[j]
    BY <1>3, <1>5
  <2> QED BY <1>3, <1>5, <2>0, SeqEqual
<1> QED BY <1>1, <1>2, <1>4, <1>6 DEF k

\* What is true of the empty sequence, and stays true when one more element is
\* added, is true of all.
LEMMA SequencesGrow ==
  ASSUME NEW S, NEW Q, <<>> \in Q, \A p \in Seq(S), x \in S : p \in Q => p \o <<x>> \in Q
  PROVE  \A s \in Seq(S) : s \in Q
<1> SUFFICES ASSUME NEW s \in Seq(S), s \notin Q PROVE FALSE
  OBVIOUS
<1> DEFINE Part(i) == SubSeq(s, 1, i)
           T == {i \in 0..Len(s) : Part(i) \notin Q}
<1>1. Len(s) \in Nat /\ Part(0) = <<>> /\ Part(Len(s)) = s
  OBVIOUS
<1>2. T \subseteq Nat /\ Len(s) \in T
  <2> HIDE DEF Part
  <2> QED BY <1>1
<1>3. PICK i \in T : \A j \in T : i <= j
  <2> HIDE DEF T
  <2> QED BY <1>2, LeastOfNaturals
<1>4. i \in 0..Len(s) /\ Part(i) \notin Q
  BY <1>3
<1>5. i # 0
  <2> HIDE DEF Part
  <2> QED BY <1>1, <1>4
<1>6. i \in 1..Len(s) /\ i - 1 \in 0..Len(s) /\ ~(i <= i - 1) /\ i - 1 \notin T
  <2>1. i \in 1..Len(s) /\ i - 1 \in 0..Len(s) /\ ~(i <= i - 1)
    BY <1>1, <1>4, <1>5
  <2> HIDE DEF T
  <2> QED BY <1>3, <2>1
<1>7. Part(i - 1) \in Q
  <2> HIDE DEF Part
  <2> QED BY <1>6
<1>8. Part(i - 1) \in Seq(S) /\ s[i] \in S /\ Part(i) = Part(i - 1) \o <<s[i]>>
  BY <1>6, PartGrows
<1> QED
  <2> HIDE DEF Part
  <2> QED BY <1>4, <1>7, <1>8

\* A text more is put behind what is there.
LEMMA FlattenGrows ==
  ASSUME NEW S, NEW p \in Seq(Seq(S)), NEW x \in Seq(S)
  PROVE  FlattenSeq(p \o <<x>>) = FlattenSeq(p) \o x
<1>1. <<x>> \in Seq(Seq(S))
  OBVIOUS
<1>2. FlattenSeq(p \o <<x>>) = FlattenSeq(p) \o FlattenSeq(<<x>>)
  BY <1>1, FlattenConcat
<1>3. FlattenSeq(<<x>>) = x
  BY FlattenOne
<1> QED BY <1>2, <1>3

\* Texts of a kind that joining keeps are of it together, too.
LEMMA FlattenKeeps ==
  ASSUME NEW S, NEW Q, Q \subseteq Seq(S), <<>> \in Q, \A a, b \in Q : a \o b \in Q,
         NEW seqs \in Seq(Q)
  PROVE  FlattenSeq(seqs) \in Q
<1> DEFINE G == {p \in Seq(Q) : FlattenSeq(p) \in Q}
<1>1. <<>> \in G
  BY FlattenOne DEF FlattenSeq
<1>2. ASSUME NEW p \in Seq(Q), NEW x \in Q, p \in G PROVE p \o <<x>> \in G
  <2>1. p \in Seq(Seq(S)) /\ x \in Seq(S)
    BY SeqMonotonic
  <2>2. FlattenSeq(p \o <<x>>) = FlattenSeq(p) \o x
    BY <2>1, FlattenGrows
  <2>3. p \o <<x>> \in Seq(Q) /\ FlattenSeq(p) \in Q
    BY <1>2
  <2> QED BY <2>2, <2>3
<1>3. \A s \in Seq(Q) : s \in G
  <2> HIDE DEF G
  <2> QED BY <1>1, <1>2, SequencesGrow
<1> QED BY <1>3

\* Where a text has another one in it.
IsAt(sub, text, i) ==
  /\ i \in Nat /\ 1 <= i /\ i + Len(sub) - 1 <= Len(text)
  /\ \A k \in 1..Len(sub) : text[i + k - 1] = sub[k]

\* Occurrences finds the places a text stands at, all of them.
LEMMA OccurrencesAre ==
  ASSUME NEW S, NEW sub \in Seq(S), NEW text \in Seq(S), sub # <<>>
  PROVE  /\ \A i : i \in Occurrences(sub, text) <=> IsAt(sub, text, i)
         /\ Len(sub) \in Nat /\ Len(sub) >= 1
<1> DEFINE l == Len(sub)
           n == Len(text)
<1>1. l \in Nat /\ l >= 1 /\ n \in Nat
  OBVIOUS
<1>2. ASSUME NEW i \in 1..n - l + 1
      PROVE  SubSeq(text, i, i + l - 1) = sub <=> \A k \in 1..l : text[i + k - 1] = sub[k]
  <2> HIDE DEF l, n
  <2>1. i \in 1..n + 1 /\ i + l - 1 \in i - 1..n /\ (i + l - 1) - i + 1 = l
    BY <1>1
  <2> DEFINE cut == SubSeq(text, i, i + l - 1)
  <2>2. cut \in Seq(S) /\ Len(cut) = l /\ \A k \in 1..l : cut[k] = text[i + k - 1]
    <3>1. i \in 1..Len(text) + 1 /\ i + l - 1 \in i - 1..Len(text)
      BY <2>1 DEF n
    <3> QED BY <2>1, <3>1, MembersOfPart
  <2> HIDE DEF cut
  <2>3. cut = sub <=> \A k \in 1..l : cut[k] = sub[k]
    <3>1. Len(sub) = l
      BY DEF l
    <3> QED BY <2>2, <3>1, SeqEqual
  <2> QED BY <2>2, <2>3 DEF cut
<1>3. ASSUME NEW i PROVE i \in Occurrences(sub, text) <=> IsAt(sub, text, i)
  <2>1. i \in 1..n - l + 1 <=> i \in Nat /\ 1 <= i /\ i + l - 1 <= n
    <3> HIDE DEF l, n
    <3>1. CASE i \in Nat
      BY <1>1, <3>1
    <3>2. CASE i \notin Nat
      BY <1>1, <3>2
    <3> QED BY <3>1, <3>2
  <2> HIDE DEF l, n
  <2> QED BY <1>2, <2>1 DEF Occurrences, IsAt, l, n
<1> QED BY <1>1, <1>3

\* What stands in the place of the i-th element when old is replaced by new.
Covered(old, text, i) == \E j \in Occurrences(old, text) : i \in j + 1..j + Len(old) - 1
Piece(text, old, new, i) ==
  IF i \in Occurrences(old, text) THEN new ELSE IF Covered(old, text, i) THEN <<>> ELSE <<text[i]>>
Pieces(text, old, new) == [i \in DOMAIN text |-> Piece(text, old, new, i)]

\* Replace flattens the pieces.
LEMMA ReplaceIsFlat ==
  ASSUME NEW text, NEW old, NEW new
  PROVE  Replace(text, old, new) = FlattenSeq(Pieces(text, old, new))
<1> DEFINE found == Occurrences(old, text)
           rest == UNION {i + 1..i + Len(old) - 1 : i \in found}
<1>1. \A i : i \in rest <=> Covered(old, text, i)
  BY DEF Covered
<1> HIDE DEF rest
<1>2. \A i : Piece(text, old, new, i)
               = IF i \in found THEN new ELSE IF i \in rest THEN <<>> ELSE <<text[i]>>
  BY <1>1 DEF Piece
<1>3. Pieces(text, old, new)
        = [i \in DOMAIN text |-> IF i \in found THEN new ELSE IF i \in rest THEN <<>> ELSE <<text[i]>>]
  <2> HIDE DEF found
  <2> QED BY <1>2 DEF Pieces
<1> QED BY <1>3 DEF Replace, rest

\* It gives a text, too.
LEMMA PiecesAreTexts ==
  ASSUME NEW S, NEW text \in Seq(S), NEW old, NEW new \in Seq(S)
  PROVE  /\ Pieces(text, old, new) \in Seq(Seq(S)) /\ Len(Pieces(text, old, new)) = Len(text)
         /\ \A i \in 1..Len(text) : Pieces(text, old, new)[i] = Piece(text, old, new, i)
         /\ Replace(text, old, new) \in Seq(S)
<1>1. \A i \in 1..Len(text) : Piece(text, old, new, i) \in Seq(S)
  <2>1. \A i \in 1..Len(text) : <<text[i]>> \in Seq(S) /\ <<>> \in Seq(S)
    OBVIOUS
  <2> QED BY <2>1 DEF Piece
<1>2. DOMAIN text = 1..Len(text) /\ Len(text) \in Nat
  OBVIOUS
<1>3. Pieces(text, old, new) \in [1..Len(text) -> Seq(S)]
  BY <1>1, <1>2 DEF Pieces
<1>4. Pieces(text, old, new) \in Seq(Seq(S)) /\ Len(Pieces(text, old, new)) = Len(text)
  <2> DEFINE f == Pieces(text, old, new)
             n == Len(text)
  <2>1. f \in [1..n -> Seq(S)] /\ n \in Nat
    BY <1>2, <1>3
  <2> HIDE DEF f, n
  <2>2. f \in Seq(Seq(S)) /\ Len(f) = n
    BY <2>1
  <2> QED BY <2>2 DEF f, n
<1>5. \A i \in 1..Len(text) : Pieces(text, old, new)[i] = Piece(text, old, new, i)
  BY <1>2 DEF Pieces
<1> QED BY <1>4, <1>5, FlattenIsText, ReplaceIsFlat

\* When no occurrence lies across the seam.
Seamless(old, a, b) ==
  \A i \in Occurrences(old, a \o b) : i + Len(old) - 1 <= Len(a) \/ i > Len(a)

\* What can be replaced on both sides of a seam by itself can be replaced in one.
LEMMA ReplaceJoins ==
  ASSUME NEW S, NEW a \in Seq(S), NEW b \in Seq(S), NEW old \in Seq(S), NEW new \in Seq(S),
         old # <<>>, Seamless(old, a, b)
  PROVE  Replace(a \o b, old, new) = Replace(a, old, new) \o Replace(b, old, new)
<1> DEFINE n == Len(a)
           k == Len(b)
           l == Len(old)
           t == a \o b
           A == Pieces(a, old, new)
           B == Pieces(b, old, new)
           T == Pieces(t, old, new)
           OA == Occurrences(old, a)
           OB == Occurrences(old, b)
           OT == Occurrences(old, t)
<1>1. /\ n \in Nat /\ k \in Nat /\ t \in Seq(S) /\ Len(t) = n + k
      /\ (\A i \in 1..n : t[i] = a[i]) /\ (\A j \in 1..k : t[n + j] = b[j])
  OBVIOUS
<1> HIDE DEF n, k, t
<1>2. l \in Nat /\ l >= 1 /\ \A i : i \in OA <=> IsAt(old, a, i)
  BY OccurrencesAre
<1>3. \A i : i \in OB <=> IsAt(old, b, i)
  BY OccurrencesAre
<1>4. \A i : i \in OT <=> IsAt(old, t, i)
  BY <1>1, OccurrencesAre
<1> HIDE DEF l, OA, OB, OT
<1>5. /\ \A i : i \in OA <=> i \in Nat /\ 1 <= i /\ i + l - 1 <= n /\ \A m \in 1..l : a[i + m - 1] = old[m]
      /\ \A i : i \in OB <=> i \in Nat /\ 1 <= i /\ i + l - 1 <= k /\ \A m \in 1..l : b[i + m - 1] = old[m]
      /\ \A i : i \in OT <=> i \in Nat /\ 1 <= i /\ i + l - 1 <= n + k /\ \A m \in 1..l : t[i + m - 1] = old[m]
  BY <1>1, <1>2, <1>3, <1>4 DEF IsAt, n, k, l
<1>6. \A i \in OT : i + l - 1 <= n \/ i > n
  BY DEF Seamless, OT, t, n, l
<1>7. ASSUME NEW i \in Nat, 1 <= i, i <= n PROVE i \in OA <=> i \in OT
  <2>1. ASSUME i + l - 1 <= n PROVE \A m \in 1..l : t[i + m - 1] = a[i + m - 1]
    <3>1. \A m \in 1..l : i + m - 1 \in 1..n
      BY <1>1, <1>2, <1>7, <2>1
    <3> QED BY <1>1, <3>1
  <2>2. ASSUME i \in OA PROVE i \in OT
    <3>1. i + l - 1 <= n /\ \A m \in 1..l : a[i + m - 1] = old[m]
      BY <1>5, <2>2
    <3>2. i + l - 1 <= n + k
      BY <1>1, <1>2, <3>1
    <3>3. \A m \in 1..l : t[i + m - 1] = old[m]
      BY <2>1, <3>1, Zenon
    <3> QED BY <1>5, <1>7, <3>2, <3>3
  <2>3. i \in OT => i \in OA
    <3>1. i \in OT => i + l - 1 <= n
      BY <1>1, <1>2, <1>6, <1>7
    <3> QED BY <1>5, <2>1, <3>1
  <2> QED BY <2>2, <2>3
<1>8. ASSUME NEW j \in Nat, 1 <= j PROVE j \in OB <=> n + j \in OT
  <2>1. ASSUME j + l - 1 <= k PROVE \A m \in 1..l : t[n + j + m - 1] = b[j + m - 1]
    <3>1. \A m \in 1..l : j + m - 1 \in 1..k /\ n + j + m - 1 = n + (j + m - 1)
      BY <1>1, <1>2, <1>8, <2>1
    <3> QED BY <1>1, <3>1
  <2>2. /\ n + j \in Nat /\ 1 <= n + j
        /\ (j + l - 1 <= k <=> (n + j) + l - 1 <= n + k)
    BY <1>1, <1>2, <1>8
  <2>3. \A m \in 1..l : (n + j) + m - 1 = n + j + m - 1
    BY <1>1, <1>2, <1>8
  <2> QED BY <1>5, <1>8, <2>1, <2>2, <2>3, ZenonT(60)
<1>9. \A i \in OA : i \in Nat /\ 1 <= i /\ i <= n
  BY <1>1, <1>2, <1>5
<1>10. \A i \in OT : i \in Nat /\ 1 <= i
  BY <1>5
<1>11. \A i \in OB : i \in Nat /\ 1 <= i
  BY <1>5
<1>12. \A i : Covered(old, a, i) <=> \E j \in OA : i \in j + 1..j + l - 1
  BY DEF Covered, OA, l
<1>13. \A i : Covered(old, b, i) <=> \E j \in OB : i \in j + 1..j + l - 1
  BY DEF Covered, OB, l
<1>14. \A i : Covered(old, t, i) <=> \E j \in OT : i \in j + 1..j + l - 1
  BY DEF Covered, OT, l
<1>15. ASSUME NEW i \in 1..n PROVE Piece(t, old, new, i) = Piece(a, old, new, i)
  <2>1. i \in OA <=> i \in OT
    BY <1>1, <1>7
  <2>2. Covered(old, t, i) <=> Covered(old, a, i)
    <3>1. ASSUME NEW j \in OT, i \in j + 1..j + l - 1 PROVE j \in OA
      <4>1. j \in Nat /\ 1 <= j /\ j <= n
        BY <1>1, <1>2, <1>10, <3>1
      <4> QED BY <1>7, <4>1
    <3>2. ASSUME NEW j \in OA PROVE j \in OT
      BY <1>7, <1>9
    <3> QED BY <1>12, <1>14, <3>1, <3>2
  <2>3. t[i] = a[i]
    BY <1>1
  <2> QED BY <2>1, <2>2, <2>3 DEF Piece, OA, OT
<1>16. ASSUME NEW j \in 1..k PROVE Piece(t, old, new, n + j) = Piece(b, old, new, j)
  <2>1. j \in OB <=> n + j \in OT
    BY <1>1, <1>8
  <2>2. Covered(old, t, n + j) <=> Covered(old, b, j)
    <3>1. ASSUME NEW i \in OT, n + j \in i + 1..i + l - 1 PROVE i - n \in OB /\ j \in (i - n) + 1..(i - n) + l - 1
      <4>1. i \in Nat /\ 1 <= i
        BY <1>10
      <4>2. i > n
        BY <1>1, <1>2, <1>6, <3>1, <4>1
      <4>3. i - n \in Nat /\ 1 <= i - n /\ n + (i - n) = i /\ j \in (i - n) + 1..(i - n) + l - 1
        BY <1>1, <1>2, <3>1, <4>1, <4>2
      <4> QED BY <1>8, <4>3
    <3>2. ASSUME NEW i \in OB, j \in i + 1..i + l - 1
          PROVE  n + i \in OT /\ n + j \in (n + i) + 1..(n + i) + l - 1
      <4>1. i \in Nat /\ 1 <= i
        BY <1>11
      <4>2. n + i \in OT
        BY <1>8, <4>1
      <4>3. n + j \in (n + i) + 1..(n + i) + l - 1
        BY <1>1, <1>2, <3>2, <4>1
      <4> QED BY <4>2, <4>3
    <3> QED BY <1>13, <1>14, <3>1, <3>2
  <2>3. t[n + j] = b[j]
    BY <1>1
  <2> QED BY <2>1, <2>2, <2>3 DEF Piece, OB, OT
<1>17. A \in Seq(Seq(S)) /\ Len(A) = n /\ \A i \in 1..n : A[i] = Piece(a, old, new, i)
  BY PiecesAreTexts DEF n
<1>18. B \in Seq(Seq(S)) /\ Len(B) = k /\ \A j \in 1..k : B[j] = Piece(b, old, new, j)
  BY PiecesAreTexts DEF k
<1>19. T \in Seq(Seq(S)) /\ Len(T) = n + k /\ \A i \in 1..n + k : T[i] = Piece(t, old, new, i)
  BY <1>1, PiecesAreTexts
<1> HIDE DEF A, B, T
<1>20. T = A \o B
  <2>1. A \o B \in Seq(Seq(S)) /\ Len(A \o B) = n + k
    <3>1. A \in Seq(Seq(S)) /\ B \in Seq(Seq(S)) /\ Len(A) = n /\ Len(B) = k
      BY <1>17, <1>18
    <3> QED BY <3>1, ConcatProperties
  <2>2. ASSUME NEW i \in 1..n + k PROVE T[i] = (A \o B)[i]
    <3>1. CASE i <= n
      <4>1. i \in 1..n
        BY <1>1, <3>1
      <4>2. (A \o B)[i] = A[i]
        BY <1>17, <1>18, <4>1
      <4> QED BY <1>15, <1>17, <1>19, <4>1, <4>2
    <3>2. CASE i > n
      <4> DEFINE j == i - n
      <4>1. j \in 1..k /\ i = n + j
        BY <1>1, <3>2
      <4> HIDE DEF j
      <4>2. (A \o B)[n + j] = B[j]
        BY <1>1, <1>17, <1>18, <4>1, SMTT(60)
      <4> QED BY <1>16, <1>18, <1>19, <4>1, <4>2
    <3>3. i <= n \/ i > n
      BY <1>1
    <3> QED BY <3>1, <3>2, <3>3
  <2> QED BY <1>19, <2>1, <2>2, SeqEqual
<1> QED BY <1>17, <1>18, <1>20, FlattenConcat, ReplaceIsFlat DEF A, B, T, t

\* There is nothing to replace in the empty text.
LEMMA ReplaceNothing ==
  ASSUME NEW old, NEW new
  PROVE  Replace(<<>>, old, new) = <<>>
<1>1. DOMAIN <<>> = {}
  OBVIOUS
<1>2. Pieces(<<>>, old, new) = <<>>
  <2>1. Pieces(<<>>, old, new) = [i \in {} |-> Piece(<<>>, old, new, i)]
    BY <1>1 DEF Pieces
  <2>2. <<>> = [i \in {} |-> Piece(<<>>, old, new, i)]
    BY <1>1
  <2> QED BY <2>1, <2>2
<1> QED BY <1>2, ReplaceIsFlat, FlattenOne DEF FlattenSeq

\* A text of one piece.
LEMMA ReplaceInOnePiece ==
  ASSUME NEW S, NEW x \in S, NEW old \in Seq(S), NEW new \in Seq(S), old # <<>>
  PROVE  Replace(<<x>>, old, new) = IF old = <<x>> THEN new ELSE <<x>>
<1>1. <<x>> \in Seq(S) /\ Len(<<x>>) = 1 /\ <<x>>[1] = x /\ 1 \in 1..Len(<<x>>)
  OBVIOUS
<1>2. Len(old) \in Nat /\ Len(old) >= 1 /\ \A i : i \in Occurrences(old, <<x>>) <=> IsAt(old, <<x>>, i)
  BY <1>1, OccurrencesAre
<1>3. IsAt(old, <<x>>, 1) <=> old = <<x>>
  <2>1. ASSUME IsAt(old, <<x>>, 1) PROVE old = <<x>>
    <3>1. 1 + Len(old) - 1 <= 1 /\ \A k \in 1..Len(old) : <<x>>[1 + k - 1] = old[k]
      BY <1>1, <2>1 DEF IsAt
    <3>2. Len(old) = 1
      BY <1>2, <3>1
    <3>3. 1 \in 1..Len(old) /\ 1 + 1 - 1 = 1
      BY <3>2
    <3>4. old[1] = x
      BY <1>1, <3>1, <3>3
    <3> QED BY <3>2, <3>4
  <2>2. ASSUME old = <<x>> PROVE IsAt(old, <<x>>, 1)
    <3>1. \A k \in 1..Len(<<x>>) : k = 1
      BY <1>1
    <3>2. \A k \in 1..Len(<<x>>) : <<x>>[1 + k - 1] = <<x>>[k]
      BY <3>1
    <3>3. 1 + Len(<<x>>) - 1 <= Len(<<x>>)
      BY <1>1
    <3> QED BY <2>2, <3>2, <3>3 DEF IsAt
  <2> QED BY <2>1, <2>2
<1>4. ~Covered(old, <<x>>, 1)
  <2>1. \A j \in Occurrences(old, <<x>>) : j \in Nat /\ 1 <= j
    BY <1>2 DEF IsAt
  <2>2. \A j \in Occurrences(old, <<x>>) : 1 \notin j + 1..j + Len(old) - 1
    BY <2>1
  <2> QED BY <2>2 DEF Covered
<1>5. Piece(<<x>>, old, new, 1) = IF old = <<x>> THEN new ELSE <<x>>
  BY <1>1, <1>2, <1>3, <1>4 DEF Piece
<1>6. /\ Pieces(<<x>>, old, new) \in Seq(Seq(S)) /\ Len(Pieces(<<x>>, old, new)) = 1
      /\ Pieces(<<x>>, old, new)[1] = Piece(<<x>>, old, new, 1)
  <2> DEFINE one == <<x>>
  <2>1. one \in Seq(S) /\ Len(one) = 1 /\ 1 \in 1..Len(one)
    BY <1>1
  <2> HIDE DEF one
  <2>2. /\ Pieces(one, old, new) \in Seq(Seq(S)) /\ Len(Pieces(one, old, new)) = 1
        /\ Pieces(one, old, new)[1] = Piece(one, old, new, 1)
    BY <2>1, PiecesAreTexts
  <2> QED BY <2>2 DEF one
<1>7. Pieces(<<x>>, old, new) = <<Piece(<<x>>, old, new, 1)>>
  BY <1>6
<1>8. Piece(<<x>>, old, new, 1) \in Seq(S)
  BY <1>1, <1>5
<1> QED BY <1>5, <1>7, <1>8, ReplaceIsFlat, FlattenOne

\* A text and one element behind it.
LEMMA LastOfMore ==
  ASSUME NEW S, NEW p \in Seq(S), NEW x \in S
  PROVE  /\ p \o <<x>> \in Seq(S) /\ Len(p \o <<x>>) = Len(p) + 1 /\ (p \o <<x>>)[Len(p) + 1] = x
         /\ \A i \in 1..Len(p) : (p \o <<x>>)[i] = p[i]
         /\ Len(p) \in Nat
OBVIOUS

\* A character is replaced by itself, wherever it stands.
ReplacesOne(p, x, c, new) ==
  Replace(p \o <<x>>, <<c>>, new) = Replace(p, <<c>>, new) \o (IF x = c THEN new ELSE <<x>>)

\* One character is replaced by itself.
LEMMA ReplaceOne ==
  ASSUME NEW S, NEW p \in Seq(S), NEW x \in S, NEW c \in S, NEW new \in Seq(S)
  PROVE  ReplacesOne(p, x, c, new)
<1>1. <<c>> \in Seq(S) /\ <<c>> # <<>> /\ Len(<<c>>) = 1 /\ <<x>> \in Seq(S)
      /\ (<<c>> = <<x>> <=> x = c)
  OBVIOUS
<1>2. Seamless(<<c>>, p, <<x>>)
  <2>1. \A i \in Occurrences(<<c>>, p \o <<x>>) : i \in Nat
    BY <1>1, LastOfMore, OccurrencesAre DEF IsAt
  <2>2. \A i \in Nat : i + 1 - 1 <= Len(p) \/ i > Len(p)
    BY LastOfMore
  <2> QED BY <1>1, <2>1, <2>2 DEF Seamless
<1>3. Replace(p \o <<x>>, <<c>>, new) = Replace(p, <<c>>, new) \o Replace(<<x>>, <<c>>, new)
  <2> DEFINE old == <<c>>
             one == <<x>>
  <2>1. old \in Seq(S) /\ one \in Seq(S) /\ old # <<>> /\ Seamless(old, p, one)
    BY <1>1, <1>2
  <2> HIDE DEF old, one
  <2>2. Replace(p \o one, old, new) = Replace(p, old, new) \o Replace(one, old, new)
    BY <2>1, ReplaceJoins
  <2> QED BY <2>2 DEF old, one
<1>4. Replace(<<x>>, <<c>>, new) = IF x = c THEN new ELSE <<x>>
  <2> DEFINE old == <<c>>
  <2>1. old \in Seq(S) /\ old # <<>> /\ (old = <<x>> <=> x = c)
    BY <1>1
  <2> HIDE DEF old
  <2>2. Replace(<<x>>, old, new) = IF old = <<x>> THEN new ELSE <<x>>
    BY <2>1, ReplaceInOnePiece
  <2> QED BY <2>1, <2>2 DEF old
<1> QED BY <1>3, <1>4 DEF ReplacesOne

EndsIn(s, d) == s # <<>> /\ s[Len(s)] = d

\* Two characters are replaced when they follow each other.
ReplacesTwo(q, x, d, e, new) ==
  /\ ~(EndsIn(q, d) /\ x = e)
       => Replace(q \o <<x>>, <<d, e>>, new) = Replace(q, <<d, e>>, new) \o <<x>>
  /\ Replace(q \o <<d, e>>, <<d, e>>, new) = Replace(q, <<d, e>>, new) \o new

\* And so are two, unless the first of them stood last before.
LEMMA ReplaceTwo ==
  ASSUME NEW S, NEW q \in Seq(S), NEW d \in S, NEW e \in S, d # e, NEW new \in Seq(S), NEW x \in S
  PROVE  ReplacesTwo(q, x, d, e, new)
<1> DEFINE old == <<d, e>>
           n == Len(q)
<1>1. old \in Seq(S) /\ old # <<>> /\ Len(old) = 2 /\ old[1] = d /\ old[2] = e /\ n \in Nat
      /\ 1 \in 1..2 /\ 2 \in 1..2 /\ 1 + 1 = 2
  OBVIOUS
<1> HIDE DEF old, n
<1>2. ASSUME NEW b \in Seq(S), b # <<>>, ~(EndsIn(q, d) /\ b[1] = e) PROVE Seamless(old, q, b)
  <2> DEFINE t == q \o b
  <2>1. t \in Seq(S) /\ (\A i \in 1..n : t[i] = q[i]) /\ t[n + 1] = b[1]
    <3>1. 1 \in 1..Len(b)
      BY <1>2
    <3> QED BY <3>1 DEF n
  <2> HIDE DEF t
  <2>2. ASSUME NEW i \in Occurrences(old, t), ~(i + 2 - 1 <= n), ~(i > n) PROVE FALSE
    <3>1. IsAt(old, t, i)
      BY <1>1, <2>1, <2>2, OccurrencesAre
    <3>2. i \in Nat /\ 1 <= i /\ \A k \in 1..2 : t[i + k - 1] = old[k]
      BY <1>1, <3>1 DEF IsAt
    <3>3. i = n /\ i \in 1..n /\ i + 1 - 1 = n /\ i + 2 - 1 = n + 1
      BY <1>1, <2>2, <3>2
    <3>4. t[n] = d /\ t[n + 1] = e
      <4>1. t[i + 1 - 1] = old[1] /\ t[i + 2 - 1] = old[2]
        BY <1>1, <3>2
      <4> QED BY <1>1, <3>3, <4>1
    <3>5. q[n] = d /\ q # <<>> /\ b[1] = e
      <4>1. q # <<>>
        BY <3>3 DEF n
      <4> QED BY <2>1, <3>3, <3>4, <4>1
    <3> QED BY <1>2, <3>5 DEF EndsIn, n
  <2> QED BY <1>1, <2>2 DEF Seamless, t, n
<1>3. <<x>> \in Seq(S) /\ <<x>> # <<>> /\ <<x>>[1] = x /\ old # <<x>>
  BY DEF old
<1>4. ASSUME ~(EndsIn(q, d) /\ x = e) PROVE Replace(q \o <<x>>, old, new) = Replace(q, old, new) \o <<x>>
  <2>1. Seamless(old, q, <<x>>)
    BY <1>2, <1>3, <1>4
  <2>2. Replace(<<x>>, old, new) = <<x>>
    BY <1>1, <1>3, ReplaceInOnePiece, ZenonT(60)
  <2> DEFINE one == <<x>>
  <2>3. one \in Seq(S) /\ Seamless(old, q, one) /\ old \in Seq(S) /\ old # <<>>
    BY <1>1, <1>3, <2>1
  <2> HIDE DEF one
  <2>4. Replace(q \o one, old, new) = Replace(q, old, new) \o Replace(one, old, new)
    BY <2>3, ReplaceJoins
  <2> QED BY <2>2, <2>4 DEF one
<1>5. Replace(q \o old, old, new) = Replace(q, old, new) \o new
  <2>1. Seamless(old, q, old)
    BY <1>1, <1>2
  <2>2. Replace(old, old, new) = new
    <3>1. \A i : i \in Occurrences(old, old) <=> IsAt(old, old, i)
      BY <1>1, OccurrencesAre
    <3>2. IsAt(old, old, 1)
      <4>1. \A k \in 1..2 : 1 + k - 1 = k
        OBVIOUS
      <4>2. 1 + 2 - 1 <= 2
        OBVIOUS
      <4> QED BY <1>1, <4>1, <4>2 DEF IsAt
    <3>3. ~IsAt(old, old, 2)
      <4>1. ~(2 + 2 - 1 <= 2)
        OBVIOUS
      <4> QED BY <1>1, <4>1 DEF IsAt
    <3>4. Covered(old, old, 2)
      <4>1. 2 \in 1 + 1..1 + 2 - 1
        OBVIOUS
      <4> QED BY <1>1, <3>1, <3>2, <4>1 DEF Covered
    <3>5. Piece(old, old, new, 1) = new /\ Piece(old, old, new, 2) = <<>>
      BY <3>1, <3>2, <3>3, <3>4 DEF Piece
    <3>6. /\ Pieces(old, old, new) \in Seq(Seq(S)) /\ Len(Pieces(old, old, new)) = 2
          /\ Pieces(old, old, new)[1] = new /\ Pieces(old, old, new)[2] = <<>>
      BY <1>1, <3>5, PiecesAreTexts
    <3>7. Pieces(old, old, new) = <<new>> \o <<<<>>>>
      <4> DEFINE f == Pieces(old, old, new)
      <4>1. f \in Seq(Seq(S)) /\ Len(f) = 2 /\ f[1] = new /\ f[2] = <<>>
        BY <3>6
      <4> HIDE DEF f
      <4>2. f = <<new, <<>>>>
        BY <4>1
      <4>3. <<new, <<>>>> = <<new>> \o <<<<>>>>
        OBVIOUS
      <4> QED BY <4>2, <4>3 DEF f
    <3>8. <<new>> \in Seq(Seq(S)) /\ <<>> \in Seq(S) /\ new \o <<>> = new
      OBVIOUS
    <3>9. FlattenSeq(<<new>> \o <<<<>>>>) = FlattenSeq(<<new>>) \o <<>>
      BY <3>8, FlattenGrows
    <3> QED BY <3>7, <3>8, <3>9, FlattenOne, ReplaceIsFlat
  <2>3. Replace(q \o old, old, new) = Replace(q, old, new) \o Replace(old, old, new)
    BY <1>1, <2>1, ReplaceJoins
  <2> QED BY <2>2, <2>3
<1> QED BY <1>4, <1>5 DEF old, ReplacesTwo

\* A "&" that stays when c is replaced is not followed by e.
Calm(s, c, d, e) == \A i \in 1..Len(s) - 1 : s[i] = d => s[i] = c \/ s[i + 1] # e

\* Replacing c by d and e, and these by c, leads back.
LEMMA EscapeBack ==
  ASSUME NEW S, NEW c \in S, NEW d \in S, NEW e \in S, d # e, c # e
  PROVE  \A s \in Seq(S) : Calm(s, c, d, e)
           => Replace(Replace(s, <<c>>, <<d, e>>), <<d, e>>, <<c>>) = s
<1> DEFINE There(s) == Replace(s, <<c>>, <<d, e>>)
           Back(s) == Replace(s, <<d, e>>, <<c>>)
           LeadsBack(s) == /\ There(s) \in Seq(S)
                           /\ Back(There(s)) = s
                           /\ EndsIn(There(s), d) => EndsIn(s, d) /\ d # c
           Q == {s \in Seq(S) : Calm(s, c, d, e) => LeadsBack(s)}
<1>0. <<c>> \in Seq(S) /\ <<d, e>> \in Seq(S) /\ <<>> \in Seq(S)
  OBVIOUS
<1>1. <<>> \in Q
  <2>1. There(<<>>) = <<>> /\ Back(<<>>) = <<>>
    BY ReplaceNothing
  <2>2. ~EndsIn(<<>>, d)
    BY DEF EndsIn
  <2> HIDE DEF There, Back
  <2> QED BY <1>0, <2>1, <2>2
<1>2. ASSUME NEW p \in Seq(S), NEW x \in S
      PROVE  /\ x = c => There(p \o <<x>>) = There(p) \o <<d, e>>
             /\ x # c => There(p \o <<x>>) = There(p) \o <<x>>
  <2> DEFINE new == <<d, e>>
  <2>1. new \in Seq(S)
    BY <1>0
  <2> HIDE DEF new
  <2>2. ReplacesOne(p, x, c, new)
    BY <2>1, ReplaceOne
  <2> QED BY <2>2 DEF new, ReplacesOne
<1>3. ASSUME NEW q \in Seq(S), NEW x \in S
      PROVE  /\ Back(q \o <<d, e>>) = Back(q) \o <<c>>
             /\ ~(EndsIn(q, d) /\ x = e) => Back(q \o <<x>>) = Back(q) \o <<x>>
  <2> DEFINE new == <<c>>
  <2>1. new \in Seq(S)
    BY <1>0
  <2> HIDE DEF new
  <2>2. ReplacesTwo(q, x, d, e, new)
    BY <2>1, ReplaceTwo
  <2> QED BY <2>2 DEF new, ReplacesTwo
<1>4. \A s \in Seq(S) : There(s) \in Seq(S)
  BY <1>0, PiecesAreTexts
<1> HIDE DEF There, Back
<1>5. ASSUME NEW p \in Seq(S), NEW x \in S, p \in Q PROVE p \o <<x>> \in Q
  <2> DEFINE s == p \o <<x>>
             n == Len(p)
  <2>1. s \in Seq(S) /\ Len(s) = n + 1 /\ s[n + 1] = x /\ (\A i \in 1..n : s[i] = p[i]) /\ n \in Nat /\ s # <<>>
    BY LastOfMore
  <2> HIDE DEF s, n
  <2> SUFFICES ASSUME Calm(s, c, d, e) PROVE LeadsBack(s)
    BY <2>1 DEF s
  <2>2. Calm(p, c, d, e)
    <3>1. \A i \in 1..n - 1 : i \in 1..(n + 1) - 1 /\ i \in 1..n /\ i + 1 \in 1..n
      BY <2>1
    <3> QED BY <2>1, <3>1 DEF Calm, n
  <2>3. LeadsBack(p)
    BY <1>5, <2>2
  <2>4. EndsIn(s, d) <=> x = d
    BY <2>1 DEF EndsIn
  <2>5. There(p) \in Seq(S) /\ Back(There(p)) = p
    BY <2>3
  <2>6. CASE x = c
    <3>1. There(s) = There(p) \o <<d, e>>
      BY <1>2, <2>6 DEF s
    <3>2. Back(There(s)) = s
      <4>1. Back(There(p) \o <<d, e>>) = Back(There(p)) \o <<c>>
        BY <1>3, <2>5
      <4> QED BY <2>5, <2>6, <3>1, <4>1 DEF s
    <3>3. ~EndsIn(There(s), d)
      <4> DEFINE q == There(p)
      <4>1. q \in Seq(S)
        BY <2>5
      <4> HIDE DEF q
      <4>2. Len(q \o <<d, e>>) = Len(q) + 2 /\ (q \o <<d, e>>)[Len(q) + 2] = e
        BY <4>1
      <4> QED BY <3>1, <4>2 DEF EndsIn, q
    <3> QED BY <1>4, <2>1, <3>2, <3>3
  <2>7. CASE x # c
    <3>1. There(s) = There(p) \o <<x>>
      BY <1>2, <2>7 DEF s
    <3>2. ~(EndsIn(There(p), d) /\ x = e)
      <4> SUFFICES ASSUME EndsIn(There(p), d), x = e PROVE FALSE
        OBVIOUS
      <4>1. p # <<>> /\ p[n] = d /\ d # c
        BY <2>3 DEF EndsIn, n
      <4>2. n \in 1..n /\ n \in 1..(n + 1) - 1
        <5>1. n # 0
          BY <4>1 DEF n
        <5> QED BY <2>1, <5>1
      <4>3. s[n] = d
        BY <2>1, <4>1, <4>2
      <4> QED BY <2>1, <4>1, <4>2, <4>3 DEF Calm
    <3>3. Back(There(s)) = s
      <4>1. Back(There(p) \o <<x>>) = Back(There(p)) \o <<x>>
        BY <1>3, <2>5, <3>2
      <4> QED BY <2>5, <3>1, <4>1 DEF s
    <3>4. EndsIn(There(s), d) => x = d
      <4> DEFINE q == There(p)
      <4>1. q \in Seq(S)
        BY <2>5
      <4> HIDE DEF q
      <4>2. Len(q \o <<x>>) = Len(q) + 1 /\ (q \o <<x>>)[Len(q) + 1] = x
        BY <4>1
      <4> QED BY <3>1, <4>2 DEF EndsIn, q
    <3> QED BY <1>4, <2>1, <2>4, <2>7, <3>3, <3>4
  <2> QED BY <2>6, <2>7
<1>6. \A s \in Seq(S) : s \in Q
  <2> HIDE DEF Q
  <2> QED BY <1>1, <1>5, SequencesGrow
<1> QED BY <1>6 DEF There, Back

\* What holds of two texts, each by itself, at a place or at it and the next one, holds
\* of both together.
LEMMA PlacesOfTwo ==
  ASSUME NEW S, NEW q \in Seq(S), NEW b \in Seq(S)
  PROVE  /\ q \o b \in Seq(S) /\ Len(q) \in Nat /\ Len(b) \in Nat /\ Len(q \o b) = Len(q) + Len(b)
         /\ \A i \in 1..Len(q) : (q \o b)[i] = q[i]
         /\ \A i \in 1..Len(q \o b) :
              i \in 1..Len(q) \/ (i - Len(q) \in 1..Len(b) /\ (q \o b)[i] = b[i - Len(q)])
OBVIOUS

\* Every d is followed by f.
EachFollowed(s, d, f) == \A i \in 1..Len(s) : s[i] = d => i + 1 \in 1..Len(s) /\ s[i + 1] = f

\* That holds of two texts together when it holds of each.
LEMMA FollowedTogether ==
  ASSUME NEW S, NEW q \in Seq(S), NEW b \in Seq(S), NEW d, NEW f, EachFollowed(q, d, f), EachFollowed(b, d, f)
  PROVE  EachFollowed(q \o b, d, f)
<1> DEFINE n == Len(q)
           k == Len(b)
           t == q \o b
<1>1. /\ n \in Nat /\ k \in Nat /\ Len(t) = n + k
      /\ (\A i \in 1..n : t[i] = q[i]) /\ (\A i \in 1..k : t[n + i] = b[i])
  OBVIOUS
<1>2. /\ \A i \in 1..n : q[i] = d => i + 1 \in 1..n /\ q[i + 1] = f
      /\ \A i \in 1..k : b[i] = d => i + 1 \in 1..k /\ b[i + 1] = f
  BY DEF EachFollowed
<1> HIDE DEF n, k, t
<1>3. ASSUME NEW i \in 1..n + k, t[i] = d PROVE i + 1 \in 1..n + k /\ t[i + 1] = f
  <2>1. CASE i <= n
    <3>1. i \in 1..n
      BY <1>1, <2>1
    <3>2. i + 1 \in 1..n /\ q[i + 1] = f
      BY <1>1, <1>2, <1>3, <3>1
    <3>3. i + 1 \in 1..n + k
      BY <1>1, <3>2
    <3> QED BY <1>1, <3>2, <3>3
  <2>2. CASE i > n
    <3> DEFINE j == i - n
    <3>1. j \in 1..k /\ i = n + j
      BY <1>1, <2>2
    <3> HIDE DEF j
    <3>2. j + 1 \in 1..k /\ b[j + 1] = f
      BY <1>1, <1>2, <1>3, <3>1
    <3>3. n + (j + 1) \in 1..n + k /\ i + 1 = n + (j + 1)
      BY <1>1, <3>1, <3>2
    <3>4. t[n + (j + 1)] = f
      BY <1>1, <3>2
    <3> QED BY <3>3, <3>4
  <2>3. i <= n \/ i > n
    BY <1>1
  <2> QED BY <2>1, <2>2, <2>3
<1> QED BY <1>1, <1>3 DEF EachFollowed, t

\* Once d has been replaced by d and f, no d is followed by what d and e would stand for.
LEMMA ReplacedAreCalm ==
  ASSUME NEW S, NEW c \in S, NEW d \in S, NEW e \in S, NEW f \in S, d # f, e # f
  PROVE  \A t \in Seq(S) : Calm(Replace(t, <<d>>, <<d, f>>), c, d, e)
<1> DEFINE new == <<d, f>>
           R(t) == Replace(t, <<d>>, new)
           Q == {t \in Seq(S) : EachFollowed(R(t), d, f)}
<1>0. new \in Seq(S) /\ Len(new) = 2 /\ new[1] = d /\ new[2] = f /\ <<>> \in Seq(S)
  OBVIOUS
<1> HIDE DEF new
<1>1. <<>> \in Q
  <2>1. R(<<>>) = <<>>
    BY ReplaceNothing
  <2>2. EachFollowed(<<>>, d, f)
    BY DEF EachFollowed
  <2> QED BY <1>0, <2>1, <2>2
<1>2. ASSUME NEW p \in Seq(S), NEW x \in S
      PROVE  R(p \o <<x>>) = R(p) \o (IF x = d THEN new ELSE <<x>>)
  <2>1. ReplacesOne(p, x, d, new)
    BY <1>0, ReplaceOne
  <2> QED BY <2>1 DEF ReplacesOne
<1>3. \A p \in Seq(S) : R(p) \in Seq(S)
  BY <1>0, PiecesAreTexts
<1>4. ASSUME NEW p \in Seq(S), NEW x \in S, p \in Q PROVE p \o <<x>> \in Q
  <2> DEFINE q == R(p)
             b == IF x = d THEN new ELSE <<x>>
  <2>1. q \in Seq(S) /\ EachFollowed(q, d, f)
    BY <1>3, <1>4
  <2>2. b \in Seq(S) /\ EachFollowed(b, d, f)
    <3>1. CASE x = d
      <4>1. \A i \in 1..2 : new[i] = d => i = 1
        BY <1>0
      <4>2. 1 + 1 \in 1..2 /\ 1 + 1 = 2
        OBVIOUS
      <4>3. EachFollowed(new, d, f)
        BY <1>0, <4>1, <4>2 DEF EachFollowed
      <4> QED BY <1>0, <3>1, <4>3
    <3>2. CASE x # d
      <4>1. <<x>> \in Seq(S) /\ \A i \in 1..Len(<<x>>) : <<x>>[i] = x
        OBVIOUS
      <4>2. EachFollowed(<<x>>, d, f)
        BY <3>2, <4>1 DEF EachFollowed
      <4> QED BY <3>2, <4>1, <4>2
    <3> QED BY <3>1, <3>2
  <2> HIDE DEF q, b
  <2>3. EachFollowed(q \o b, d, f)
    BY <2>1, <2>2, FollowedTogether
  <2>4. R(p \o <<x>>) = q \o b
    BY <1>2, Zenon DEF q, b
  <2>5. p \o <<x>> \in Seq(S)
    BY LastOfMore
  <2>6. /\ q \o b = R(p \o <<x>>)
        /\ p \o <<x>> \in Seq(S)
    BY <2>4, <2>5
  <2> HIDE DEF R
  <2> QED BY <2>3, <2>6
<1>5. \A t \in Seq(S) : t \in Q
  <2> HIDE DEF Q
  <2> QED BY <1>1, <1>4, SequencesGrow
<1>6. ASSUME NEW t \in Seq(S) PROVE Calm(R(t), c, d, e)
  <2> DEFINE s == R(t)
  <2>1. EachFollowed(s, d, f) /\ s \in Seq(S)
    BY <1>3, <1>5
  <2> HIDE DEF s
  <2>2. \A i \in 1..Len(s) - 1 : i \in 1..Len(s)
    BY <2>1
  <2> QED BY <2>1, <2>2 DEF Calm, EachFollowed, s
<1> QED BY <1>6 DEF new

\* No c is left when it is replaced.
Lacks(s, c) == \A i \in 1..Len(s) : s[i] # c

\* Two texts that lack c lack it together.
LEMMA LackingTogether ==
  ASSUME NEW S, NEW q \in Seq(S), NEW b \in Seq(S), NEW c, Lacks(q, c), Lacks(b, c)
  PROVE  Lacks(q \o b, c)
<1>1. \A i \in 1..Len(q \o b) : \/ i \in 1..Len(q) /\ (q \o b)[i] = q[i]
                                \/ i - Len(q) \in 1..Len(b) /\ (q \o b)[i] = b[i - Len(q)]
  BY PlacesOfTwo
<1> QED BY <1>1 DEF Lacks

\* Whatever has been replaced is gone, unless the new text brings it back.
LEMMA ReplacedAreGone ==
  ASSUME NEW S, NEW c \in S, NEW new \in Seq(S), Lacks(new, c)
  PROVE  \A t \in Seq(S) : Lacks(Replace(t, <<c>>, new), c)
<1> DEFINE R(s) == Replace(s, <<c>>, new)
           Q == {s \in Seq(S) : Lacks(R(s), c)}
<1>1. <<>> \in Q
  <2>1. R(<<>>) = <<>> /\ <<>> \in Seq(S)
    BY ReplaceNothing
  <2> QED BY <2>1 DEF Lacks
<1>2. ASSUME NEW p \in Seq(S), NEW x \in S
      PROVE  R(p \o <<x>>) = R(p) \o (IF x = c THEN new ELSE <<x>>)
  <2>1. ReplacesOne(p, x, c, new)
    BY ReplaceOne
  <2> QED BY <2>1 DEF ReplacesOne
<1>3. \A p \in Seq(S) : R(p) \in Seq(S)
  <2>1. <<c>> \in Seq(S)
    OBVIOUS
  <2> QED BY <2>1, PiecesAreTexts
<1>4. ASSUME NEW p \in Seq(S), NEW x \in S, p \in Q PROVE p \o <<x>> \in Q
  <2> DEFINE q == R(p)
             b == IF x = c THEN new ELSE <<x>>
  <2>1. q \in Seq(S) /\ Lacks(q, c)
    BY <1>3, <1>4
  <2>2. b \in Seq(S) /\ Lacks(b, c)
    <3>1. CASE x = c
      BY <3>1
    <3>2. CASE x # c
      BY <3>2 DEF Lacks
    <3> QED BY <3>1, <3>2
  <2> HIDE DEF q, b
  <2>3. Lacks(q \o b, c)
    BY <2>1, <2>2, LackingTogether
  <2>4. R(p \o <<x>>) = q \o b
    BY <1>2, Zenon DEF q, b
  <2>5. p \o <<x>> \in Seq(S)
    BY LastOfMore
  <2>6. /\ q \o b = R(p \o <<x>>)
        /\ p \o <<x>> \in Seq(S)
    BY <2>4, <2>5
  <2> HIDE DEF R
  <2> QED BY <2>3, <2>6
<1>5. \A s \in Seq(S) : s \in Q
  <2> HIDE DEF Q
  <2> QED BY <1>1, <1>4, SequencesGrow
<1> QED BY <1>5

\* What the texts are made of. Each of the listed values is a string already;
\* naming them is how the proofs below come to know it.
Signs == STRING \cup {"<", "/", "&", "amp;", "lt;", "observation", "input", "output", "record", "title",
                      "summary", "cluster", "candidate", "pool", "neighbor", "fact", "merge", "id", "keep_separate"}
Texts == Seq(Signs)

\* Sequences of one and of two.
LEMMA TextOfTwo == ASSUME NEW S, NEW x \in S, NEW y \in S
                   PROVE  <<x>> \in Seq(S) /\ <<x, y>> \in Seq(S)
OBVIOUS

\* The characters and entities of the escapes.
LEMMA SignsAre ==
  /\ "&" \in Signs /\ "<" \in Signs /\ "/" \in Signs /\ "amp;" \in Signs /\ "lt;" \in Signs
  /\ Amp \in Texts /\ Lt \in Texts
<1>1. /\ "&" \in Signs
      /\ "<" \in Signs
      /\ "/" \in Signs
      /\ "amp;" \in Signs
      /\ "lt;" \in Signs
  BY DEF Signs
<1>2. <<"&", "amp;">> \in Texts /\ <<"&", "lt;">> \in Texts
  BY <1>1, TextOfTwo DEF Texts
<1> QED BY <1>1, <1>2 DEF Amp, Lt

\* What is escaped is text again, and is found as it was.
LEMMA EscapedComesBack ==
  ASSUME NEW t \in Texts
  PROVE  EscapeXml(t) \in Texts /\ UnescapeXml(EscapeXml(t)) = t
<1> DEFINE a == Replace(t, <<"&">>, Amp)
           b == Replace(a, <<"<">>, Lt)
<1>1. a \in Texts /\ b \in Texts
  <2>1. a \in Texts
    BY SignsAre, PiecesAreTexts DEF Texts
  <2> HIDE DEF a
  <2> QED BY <2>1, SignsAre, PiecesAreTexts DEF Texts
<1>2. Replace(a, Amp, <<"&">>) = t
  <2>1. Calm(t, "&", "&", "amp;")
    BY DEF Calm
  <2>2. Replace(Replace(t, <<"&">>, <<"&", "amp;">>), <<"&", "amp;">>, <<"&">>) = t
    <3>1. "&" \in Signs /\ "amp;" \in Signs /\ "&" # "amp;" /\ t \in Seq(Signs)
      BY SignsAre DEF Texts
    <3> QED BY <2>1, <3>1, EscapeBack
  <2> QED BY <2>2 DEF Amp
<1>3. Replace(b, Lt, <<"<">>) = a
  <2>1. Calm(a, "<", "&", "lt;")
    <3>1. /\ "&" \in Signs /\ "<" \in Signs /\ "lt;" \in Signs /\ "amp;" \in Signs
          /\ "&" # "amp;" /\ "lt;" # "amp;" /\ t \in Seq(Signs)
      BY SignsAre DEF Texts
    <3>2. Calm(Replace(t, <<"&">>, <<"&", "amp;">>), "<", "&", "lt;")
      BY <3>1, ReplacedAreCalm
    <3> QED BY <3>2 DEF Amp
  <2> HIDE DEF a
  <2>2. Replace(Replace(a, <<"<">>, <<"&", "lt;">>), <<"&", "lt;">>, <<"<">>) = a
    <3>1. "&" \in Signs /\ "<" \in Signs /\ "lt;" \in Signs /\ "&" # "lt;" /\ "<" # "lt;" /\ a \in Seq(Signs)
      BY <1>1, SignsAre DEF Texts
    <3> QED BY <2>1, <3>1, EscapeBack
  <2> QED BY <2>2 DEF Lt
<1> HIDE DEF a
<1>4. EscapeXml(t) = b
  BY DEF EscapeXml, a
<1> HIDE DEF b
<1> QED BY <1>1, <1>2, <1>3, <1>4 DEF UnescapeXml

\* Only the empty text escapes to the empty one.
LEMMA EscapedIsEmpty ==
  ASSUME NEW t \in Texts
  PROVE  EscapeXml(t) = <<>> <=> t = <<>>
<1>1. EscapeXml(<<>>) = <<>>
  BY ReplaceNothing DEF EscapeXml
<1>2. UnescapeXml(<<>>) = <<>>
  BY ReplaceNothing DEF UnescapeXml
<1> QED BY <1>1, <1>2, EscapedComesBack

\* No "<" is left in what is escaped.
LEMMA EscapedIsPlain ==
  ASSUME NEW t \in Texts
  PROVE  Lacks(EscapeXml(t), "<")
<1> DEFINE a == Replace(t, <<"&">>, Amp)
<1>1. a \in Seq(Signs)
  BY SignsAre, PiecesAreTexts DEF Texts
<1> HIDE DEF a
<1>2. Lacks(<<"&", "lt;">>, "<")
  <2>1. "&" # "<" /\ "lt;" # "<"
    OBVIOUS
  <2>2. \A x, y : x # "<" /\ y # "<" => Lacks(<<x, y>>, "<")
    BY DEF Lacks
  <2> QED BY <2>1, <2>2
<1>3. Lacks(Replace(a, <<"<">>, Lt), "<")
  <2>1. "<" \in Signs /\ Lt \in Seq(Signs) /\ Lacks(Lt, "<")
    BY <1>2, SignsAre DEF Lt, Texts
  <2> QED BY <1>1, <2>1, ReplacedAreGone
<1> QED BY <1>3 DEF EscapeXml, a

\* Texts one after the other.
Cat(a, b) == a \o b

\* --------------------------------------------------------------- white space ---
Blank(s) == \A i \in 1..Len(s) : s[i] = "space"
Edged(s) == s # <<>> => s[1] # "space" /\ s[Len(s)] # "space"

\* The members of a part of a text.
LEMMA MembersOfMiddle ==
  ASSUME NEW S, NEW a \in Seq(S), NEW b \in Seq(S), NEW c \in Seq(S)
  PROVE  /\ (a \o b) \o c \in Seq(S) /\ Len((a \o b) \o c) = Len(a) + Len(b) + Len(c)
         /\ Len(a) \in Nat /\ Len(b) \in Nat /\ Len(c) \in Nat
         /\ \A i \in 1..Len(a) : ((a \o b) \o c)[i] = a[i]
         /\ \A i \in 1..Len(b) : ((a \o b) \o c)[Len(a) + i] = b[i]
         /\ \A i \in 1..Len(c) : ((a \o b) \o c)[Len(a) + Len(b) + i] = c[i]
OBVIOUS

\* A greatest number is the one Max chooses, a least one the one Min chooses.
LEMMA BoundsAre ==
  ASSUME NEW K, K \subseteq Nat, NEW lo \in K, NEW hi \in K, \A k \in K : lo <= k /\ k <= hi
  PROVE  Min(K) = lo /\ Max(K) = hi
<1>1. \A x \in K : (\A y \in K : x <= y) => x = lo
  OBVIOUS
<1>2. \A x \in K : (\A y \in K : x >= y) => x = hi
  OBVIOUS
<1>3. Min(K) = lo
  BY <1>1, Zenon DEF Min
<1>4. Max(K) = hi
  BY <1>2 DEF Max
<1> QED BY <1>3, <1>4

\* SubSeq, behind the first m members.
LEMMA MiddleIs ==
  ASSUME NEW S, NEW s \in Seq(S), NEW m \in Nat, NEW n \in Nat, m + n <= Len(s)
  PROVE  /\ SubSeq(s, m + 1, m + n) \in Seq(S) /\ Len(SubSeq(s, m + 1, m + n)) = n
         /\ \A k \in 1..n : SubSeq(s, m + 1, m + n)[k] = s[m + k]
<1>1. m + 1 \in 1..Len(s) + 1 /\ m + n \in (m + 1) - 1..Len(s)
  OBVIOUS
<1>2. /\ SubSeq(s, m + 1, m + n) \in Seq(S) /\ Len(SubSeq(s, m + 1, m + n)) = (m + n) - (m + 1) + 1
      /\ \A k \in 1..(m + n) - (m + 1) + 1 : SubSeq(s, m + 1, m + n)[k] = s[(m + 1) + k - 1]
  BY Zenon, <1>1, MembersOfPart
<1>3. (m + n) - (m + 1) + 1 = n /\ \A k \in 1..n : (m + 1) + k - 1 = m + k
  OBVIOUS
<1> QED BY Zenon, <1>2, <1>3

\* Trimming takes away what is blank on both sides, and no more.
LEMMA TrimTakesBlanks ==
  ASSUME NEW S, NEW a \in Seq(S), NEW b \in Seq(S), NEW c \in Seq(S), Blank(a), Edged(b), Blank(c)
  PROVE  Trim((a \o b) \o c) = b
<1> DEFINE t == (a \o b) \o c
           K == {i \in DOMAIN t : t[i] # "space"}
           la == Len(a)
           lb == Len(b)
           lc == Len(c)
<1>0. ASSUME NEW i, NEW p \in Nat, NEW q \in Nat, i \in 1..p + q, i \notin 1..p
      PROVE  i - p \in 1..q /\ p + (i - p) = i /\ i \in Int
  BY <1>0
<1>1. /\ t \in Seq(S) /\ Len(t) = la + lb + lc /\ la \in Nat /\ lb \in Nat /\ lc \in Nat
      /\ \A i \in 1..la : t[i] = a[i]
      /\ \A i \in 1..lb : t[la + i] = b[i]
      /\ \A i \in 1..lc : t[la + lb + i] = c[i]
  BY MembersOfMiddle
<1>2. DOMAIN t = 1..la + lb + lc
  <2> HIDE DEF t
  <2> QED BY <1>1
<1>3. (\A i \in 1..la : a[i] = "space") /\ (\A i \in 1..lc : c[i] = "space")
  BY DEF Blank
<1>4. b # <<>> => b[1] # "space" /\ b[lb] # "space"
  BY Zenon DEF Edged
<1>5. b = <<>> <=> lb = 0
  OBVIOUS
<1>6. Trim(t) = IF K = {} THEN <<>> ELSE SubSeq(t, Min(K), Max(K))
  BY DEF Trim
<1> HIDE DEF t, la, lb, lc
<1>7. \A i \in 1..la + lb + lc : t[i] # "space" => la + 1 <= i /\ i <= la + lb
  <2> SUFFICES ASSUME NEW i \in 1..la + lb + lc, t[i] # "space" PROVE la + 1 <= i /\ i <= la + lb
    OBVIOUS
  <2>1. i \notin 1..la
    BY <1>1, <1>3
  <2>2. i \in 1..la + lb
    <3> SUFFICES ASSUME i \notin 1..la + lb PROVE FALSE
      OBVIOUS
    <3>1. la + lb \in Nat /\ i \in 1..(la + lb) + lc
      BY <1>1
    <3>2. i - (la + lb) \in 1..lc /\ (la + lb) + (i - (la + lb)) = i
      BY <1>0, <1>1, <3>1
    <3>3. t[(la + lb) + (i - (la + lb))] = c[i - (la + lb)]
      BY <1>1, <3>2
    <3> QED BY <1>3, <3>2, <3>3
  <2>3. i \in Nat /\ la \in Nat /\ lb \in Nat
    BY <1>1
  <2> QED BY <2>1, <2>2, <2>3
<1>8. CASE b = <<>>
  <2>0. \A i \in 1..la + lb + lc : i \in Nat /\ ~(la + 1 <= i /\ i <= la + lb)
    BY <1>1, <1>5, <1>8
  <2>1. K = {}
    BY <1>2, <1>7, <2>0
  <2> QED BY <1>6, <1>8, <2>1 DEF t
<1>9. CASE b # <<>>
  <2>1. lb >= 1 /\ 1 \in 1..lb /\ lb \in 1..lb
    BY <1>1, <1>5, <1>9
  <2>2. t[la + 1] # "space" /\ t[la + lb] # "space"
    BY <1>1, <1>4, <1>9, <2>1
  <2>a. la + 1 \in 1..la + lb + lc /\ la + lb \in 1..la + lb + lc
    BY <1>1, <2>1
  <2>b. \A k \in K : k \in 1..la + lb + lc /\ t[k] # "space"
    BY <1>2
  <2>c. K \subseteq Nat
    BY <1>2
  <2>d. la + 1 \in K /\ la + lb \in K
    BY <1>2, <2>2, <2>a
  <2>3. la + 1 \in K /\ la + lb \in K /\ K \subseteq Nat /\ \A k \in K : la + 1 <= k /\ k <= la + lb
    BY <1>7, <2>b, <2>c, <2>d
  <2> HIDE DEF K
  <2>4. Min(K) = la + 1 /\ Max(K) = la + lb
    BY <2>3, BoundsAre
  <2>5. Trim(t) = SubSeq(t, la + 1, la + lb)
    BY <1>6, <2>3, <2>4
  <2>6. SubSeq(t, la + 1, la + lb) = b
    <3> DEFINE cut == SubSeq(t, la + 1, la + lb)
    <3>1. t \in Seq(S) /\ la \in Nat /\ lb \in Nat /\ la + lb <= Len(t)
      BY <1>1
    <3>2. cut \in Seq(S) /\ Len(cut) = lb /\ \A k \in 1..lb : cut[k] = t[la + k]
      BY Zenon, <3>1, MiddleIs
    <3>4. \A k \in 1..lb : cut[k] = b[k]
      BY Zenon, <1>1, <3>2
    <3> HIDE DEF cut
    <3> QED BY <3>2, <3>4, SeqEqual DEF lb, cut
  <2> QED BY <2>5, <2>6 DEF t
<1> QED BY <1>8, <1>9

\* Every text is what trimming leaves of it between two blank ones.
LEMMA TrimSplits ==
  ASSUME NEW S, NEW t \in Seq(S)
  PROVE  \E a, b, c \in Seq(S) : t = (a \o b) \o c /\ Blank(a) /\ Edged(b) /\ Blank(c)
<1> DEFINE n == Len(t)
           K == {i \in 1..n : t[i] # "space"}
<1>1. n \in Nat /\ <<>> \in Seq(S) /\ Len(<<>>) = 0
  OBVIOUS
<1>2. CASE K = {}
  <2> DEFINE e == <<>>
  <2>0. t \o e = t
    BY ConcatEmptySeq
  <2>1. t = (t \o e) \o e
    <3> HIDE DEF e
    <3> QED BY <2>0
  <2>2. Blank(t)
    BY <1>2 DEF Blank
  <2>3. Blank(e) /\ Edged(e) /\ e \in Seq(S)
    BY <1>1 DEF Blank, Edged
  <2> HIDE DEF e
  <2> QED BY <2>1, <2>2, <2>3
<1>3. CASE K # {}
  <2>1. K \subseteq Nat
    OBVIOUS
  <2>2. PICK lo \in K : \A k \in K : lo <= k
    <3> HIDE DEF K
    <3> QED BY <1>3, <2>1, LeastOfNaturals
  <2>3. PICK hi \in K : \A k \in K : k <= hi
    <3> DEFINE M == {n - k : k \in K}
    <3>1. M \subseteq Nat /\ M # {}
      BY <1>1, <1>3
    <3>2. \A k \in K : n - k \in M /\ k \in Nat
      OBVIOUS
    <3>a. ASSUME NEW j \in Nat, NEW k \in Nat, n - j <= n - k PROVE k <= j
      BY <1>1, <3>a
    <3>3. \E x \in M : \A y \in M : x <= y
      <4> HIDE DEF M
      <4> QED BY <3>1, LeastOfNaturals
    <3>4. PICK x \in M : \A y \in M : x <= y
      BY <3>3
    <3>5. PICK hi \in K : x = n - hi
      BY <3>4
    <3> HIDE DEF M, K
    <3>6. \A k \in K : k <= hi
      BY <3>2, <3>4, <3>5, <3>a
    <3> QED BY <3>5, <3>6
  <2>4. lo \in 1..n /\ hi \in 1..n /\ lo <= hi /\ t[lo] # "space" /\ t[hi] # "space"
    BY <2>2, <2>3
  <2>5. \A i \in 1..n : i < lo \/ i > hi => t[i] = "space"
    BY <2>2, <2>3
  <2> HIDE DEF K
  <2>n. n = Len(t)
    OBVIOUS
  <2> HIDE DEF n
  <2> DEFINE a == SubSeq(t, 1, lo - 1)
             b == SubSeq(t, lo, hi)
             c == SubSeq(t, hi + 1, n)
  <2>6. a \in Seq(S) /\ Len(a) = lo - 1 /\ \A k \in 1..lo - 1 : a[k] = t[k]
    <3>1. 1 \in 1..n + 1 /\ lo - 1 \in 1 - 1..n /\ (lo - 1) - 1 + 1 = lo - 1
      BY <1>1, <2>4
    <3>2. a \in Seq(S) /\ Len(a) = (lo - 1) - 1 + 1 /\ \A k \in 1..(lo - 1) - 1 + 1 : a[k] = t[1 + k - 1]
      BY <3>1, MembersOfPart, <2>n
    <3>3. \A k \in 1..lo - 1 : 1 + k - 1 = k
      BY <2>4
    <3> HIDE DEF a
    <3> QED BY <3>1, <3>2, <3>3
  <2>7. b \in Seq(S) /\ Len(b) = hi - lo + 1 /\ \A k \in 1..hi - lo + 1 : b[k] = t[lo + k - 1]
    <3>1. lo \in 1..n + 1 /\ hi \in lo - 1..n
      BY <1>1, <2>4
    <3> QED BY <3>1, MembersOfPart, <2>n
  <2>8. c \in Seq(S) /\ Len(c) = n - hi /\ \A k \in 1..n - hi : c[k] = t[hi + k]
    <3>1. hi + 1 \in 1..n + 1 /\ n \in hi + 1 - 1..n /\ n - (hi + 1) + 1 = n - hi
      BY <1>1, <2>4
    <3>2. c \in Seq(S) /\ Len(c) = n - (hi + 1) + 1 /\ \A k \in 1..n - (hi + 1) + 1 : c[k] = t[(hi + 1) + k - 1]
      BY <3>1, MembersOfPart, <2>n
    <3>3. \A k \in 1..n - hi : (hi + 1) + k - 1 = hi + k
      BY <2>4
    <3> HIDE DEF c
    <3> QED BY <3>1, <3>2, <3>3
  <2> HIDE DEF a, b, c
  <2>9. Blank(a)
    <3>1. \A k \in 1..lo - 1 : k \in 1..n /\ k < lo
      BY <1>1, <2>4
    <3> QED BY <2>5, <2>6, <3>1 DEF Blank
  <2>10. Blank(c)
    <3>1. \A k \in 1..n - hi : hi + k \in 1..n /\ hi + k > hi
      BY <1>1, <2>4
    <3> QED BY <2>5, <2>8, <3>1 DEF Blank
  <2>11. Edged(b)
    <3>1. /\ 1 \in 1..hi - lo + 1 /\ hi - lo + 1 \in 1..hi - lo + 1
          /\ lo + 1 - 1 = lo /\ lo + (hi - lo + 1) - 1 = hi
      BY <2>4
    <3>2. b[1] = t[lo] /\ b[hi - lo + 1] = t[hi]
      BY <2>7, <3>1
    <3> QED BY <2>4, <2>7, <3>2 DEF Edged
  <2>12. t = (a \o b) \o c
    <3> DEFINE u == (a \o b) \o c
    <3>1. /\ u \in Seq(S) /\ Len(u) = Len(a) + Len(b) + Len(c)
          /\ \A i \in 1..Len(a) : u[i] = a[i]
          /\ \A i \in 1..Len(b) : u[Len(a) + i] = b[i]
          /\ \A i \in 1..Len(c) : u[Len(a) + Len(b) + i] = c[i]
      <4>1. a \in Seq(S) /\ b \in Seq(S) /\ c \in Seq(S)
        BY <2>6, <2>7, <2>8
      <4> QED BY <4>1, MembersOfMiddle
    <3> HIDE DEF u
    <3>2. Len(u) = n
      BY <1>1, <2>4, <2>6, <2>7, <2>8, <3>1
    <3>3. \A i \in 1..n : u[i] = t[i]
      <4> SUFFICES ASSUME NEW i \in 1..n PROVE u[i] = t[i]
        OBVIOUS
      <4>1. CASE i < lo
        <5>1. i \in 1..lo - 1
          BY <2>4, <4>1
        <5> QED BY <2>6, <3>1, <5>1
      <4>2. CASE lo <= i /\ i <= hi
        <5>1. i - (lo - 1) \in 1..hi - lo + 1 /\ (lo - 1) + (i - (lo - 1)) = i /\ lo + (i - (lo - 1)) - 1 = i
          BY <2>4, <4>2
        <5>2. u[(lo - 1) + (i - (lo - 1))] = b[i - (lo - 1)]
          BY <2>6, <2>7, <3>1, <5>1
        <5>3. b[i - (lo - 1)] = t[lo + (i - (lo - 1)) - 1]
          BY <2>7, <5>1
        <5> QED BY <5>1, <5>2, <5>3
      <4>3. CASE hi < i
        <5>1. /\ i - hi \in 1..n - hi /\ hi + (i - hi) = i
              /\ (lo - 1) + (hi - lo + 1) + (i - hi) = i
          BY <1>1, <2>4, <4>3
        <5>2. u[(lo - 1) + (hi - lo + 1) + (i - hi)] = c[i - hi]
          BY <2>6, <2>7, <2>8, <3>1, <5>1
        <5>3. c[i - hi] = t[hi + (i - hi)]
          BY <2>8, <5>1
        <5> QED BY <5>1, <5>2, <5>3
      <4> QED BY <2>4, <4>1, <4>2, <4>3
    <3>4. u = t
      BY <3>1, <3>2, <3>3, SeqEqual, <2>n
    <3> QED BY <3>4 DEF u
  <2> QED BY <2>6, <2>7, <2>8, <2>9, <2>10, <2>11, <2>12
<1> QED BY <1>2, <1>3

\* Two texts side by side are replaced in as each is by itself.
ReplacesApart(a, b, c, new) ==
  Replace(a \o b, <<c>>, new) = Replace(a, <<c>>, new) \o Replace(b, <<c>>, new)

\* One character is replaced on both sides of any seam by itself.
LEMMA ReplaceAnywhere ==
  ASSUME NEW S, NEW a \in Seq(S), NEW b \in Seq(S), NEW c \in S, NEW new \in Seq(S)
  PROVE  ReplacesApart(a, b, c, new)
<1> DEFINE old == <<c>>
<1>1. old \in Seq(S) /\ old # <<>> /\ Len(old) = 1
  OBVIOUS
<1> HIDE DEF old
<1>2. Seamless(old, a, b)
  <2>1. a \o b \in Seq(S) /\ Len(a) \in Nat
    OBVIOUS
  <2>2. \A i \in Occurrences(old, a \o b) : i \in Nat
    BY <1>1, <2>1, OccurrencesAre DEF IsAt
  <2>3. \A i \in Nat : i + 1 - 1 <= Len(a) \/ i > Len(a)
    BY <2>1
  <2> QED BY <1>1, <2>2, <2>3 DEF Seamless
<1>3. Replace(a \o b, old, new) = Replace(a, old, new) \o Replace(b, old, new)
  BY <1>1, <1>2, ReplaceJoins
<1> QED BY <1>3 DEF old, ReplacesApart

\* The last element of two texts.
LEMMA LastOfTwo ==
  ASSUME NEW S, NEW a \in Seq(S), NEW b \in Seq(S), b # <<>>
  PROVE  (a \o b)[Len(a \o b)] = b[Len(b)]
<1>1. Len(a \o b) = Len(a) + Len(b) /\ Len(b) \in 1..Len(b) /\ Len(a) \in Nat /\ Len(b) \in Nat
  OBVIOUS
<1>2. \A i \in 1..Len(b) : (a \o b)[Len(a) + i] = b[i]
  OBVIOUS
<1> QED BY <1>1, <1>2

\* White space is replaced by nothing else.
LEMMA BlanksStay ==
  ASSUME NEW S, NEW c \in S, c # "space", NEW new \in Seq(S)
  PROVE  \A t \in Seq(S) : Blank(t) => Replace(t, <<c>>, new) = t
<1> DEFINE R(s) == Replace(s, <<c>>, new)
           Q == {s \in Seq(S) : Blank(s) => R(s) = s}
<1>1. <<>> \in Q
  <2>1. R(<<>>) = <<>> /\ <<>> \in Seq(S)
    BY ReplaceNothing
  <2> QED BY <2>1
<1>2. ASSUME NEW p \in Seq(S), NEW x \in S, p \in Q PROVE p \o <<x>> \in Q
  <2>1. /\ p \o <<x>> \in Seq(S) /\ Len(p \o <<x>>) = Len(p) + 1 /\ (p \o <<x>>)[Len(p) + 1] = x
        /\ \A i \in 1..Len(p) : (p \o <<x>>)[i] = p[i]
        /\ Len(p) \in Nat
    BY LastOfMore
  <2>2. R(p \o <<x>>) = R(p) \o (IF x = c THEN new ELSE <<x>>)
    <3>1. ReplacesOne(p, x, c, new)
      BY ReplaceOne
    <3> QED BY <3>1 DEF ReplacesOne
  <2> DEFINE u == p \o <<x>>
  <2>3. ASSUME Blank(u) PROVE R(u) = u
    <3>1. x = "space" /\ Blank(p)
      <4> HIDE DEF u
      <4>1. \A i \in 1..Len(u) : u[i] = "space"
        BY <2>3 DEF Blank
      <4>2. Len(p) + 1 \in 1..Len(u) /\ \A i \in 1..Len(p) : i \in 1..Len(u)
        BY <2>1 DEF u
      <4>3. u[Len(p) + 1] = x /\ \A i \in 1..Len(p) : u[i] = p[i]
        BY <2>1 DEF u
      <4> QED BY <4>1, <4>2, <4>3 DEF Blank
    <3>2. R(p) = p
      BY <1>2, <3>1
    <3> HIDE DEF R
    <3> QED BY <2>2, <3>1, <3>2
  <2> HIDE DEF R
  <2> QED BY <2>1, <2>3
<1>3. \A s \in Seq(S) : s \in Q
  <2> HIDE DEF Q
  <2> QED BY <1>1, <1>2, SequencesGrow
<1> QED BY <1>3

\* And no white space comes to the ends of a text that has none there.
LEMMA EdgesStay ==
  ASSUME NEW S, NEW c \in S, NEW new \in Seq(S), new # <<>>, Edged(new), NEW t \in Seq(S), Edged(t)
  PROVE  Edged(Replace(t, <<c>>, new)) /\ Replace(t, <<c>>, new) \in Seq(S)
<1> DEFINE R(s) == Replace(s, <<c>>, new)
<1>1. \A s \in Seq(S) : R(s) \in Seq(S)
  <2>1. <<c>> \in Seq(S)
    OBVIOUS
  <2> QED BY <2>1, PiecesAreTexts
<1>2. CASE t = <<>>
  <2>1. R(t) = t
    BY <1>2, ReplaceNothing
  <2> QED BY <1>2, <2>1
<1>3. CASE t # <<>>
  <2> DEFINE n == Len(t)
             x == t[1]
             y == t[n]
             p == SubSeq(t, 1, n - 1)
             r == SubSeq(t, 2, n)
             put(z) == IF z = c THEN new ELSE <<z>>
  <2>1. n \in Nat /\ n >= 1 /\ x \in S /\ y \in S /\ x # "space" /\ y # "space"
    BY <1>3 DEF Edged
  <2>2. p \in Seq(S) /\ r \in Seq(S) /\ t = p \o <<y>> /\ t = <<x>> \o r
    BY <2>1
  <2>3. \A z \in S : put(z) \in Seq(S) /\ put(z) # <<>> /\ (z # "space" => put(z)[1] # "space" /\ put(z)[Len(put(z))] # "space")
    BY DEF Edged
  <2>4. R(t) = R(p) \o put(y)
    <3>1. R(p \o <<y>>) = R(p) \o put(y)
      <4> HIDE DEF p, y
      <4>1. ReplacesOne(p, y, c, new)
        BY <2>1, <2>2, ReplaceOne
      <4> QED BY <4>1 DEF ReplacesOne
    <3> QED BY <2>2, <3>1
  <2>5. R(t) = put(x) \o R(r)
    <3> DEFINE one == <<x>>
               old == <<c>>
    <3>1. one \in Seq(S) /\ old \in Seq(S) /\ old # <<>> /\ (old = one <=> x = c)
      BY <2>1
    <3>2. R(one) = put(x)
      <4>1. Replace(<<x>>, old, new) = IF old = <<x>> THEN new ELSE <<x>>
        <5> HIDE DEF old
        <5> QED BY <2>1, <3>1, ReplaceInOnePiece
      <4> QED BY <3>1, <4>1
    <3>3. R(one \o r) = R(one) \o R(r)
      <4> HIDE DEF one, r
      <4>1. ReplacesApart(one, r, c, new)
        BY <2>2, <3>1, ReplaceAnywhere
      <4> QED BY <4>1 DEF ReplacesApart
    <3> QED BY <2>2, <3>2, <3>3
  <2>6. R(p) \in Seq(S) /\ R(r) \in Seq(S) /\ R(t) \in Seq(S)
    BY <1>1, <2>2
  <2> DEFINE u == put(x)
             w == put(y)
             rp == R(p)
             rr == R(r)
             rt == R(t)
  <2>7. u \in Seq(S) /\ w \in Seq(S) /\ u # <<>> /\ w # <<>> /\ u[1] # "space" /\ w[Len(w)] # "space"
    BY <2>1, <2>3
  <2> HIDE DEF put, R, u, w, rp, rr, rt
  <2>8. rt = rp \o w /\ rt = u \o rr /\ rp \in Seq(S) /\ rr \in Seq(S) /\ rt \in Seq(S)
    BY <2>4, <2>5, <2>6 DEF u, w, rp, rr, rt
  <2>9. rt[1] = u[1]
    BY <2>7, <2>8
  <2>10. rt[Len(rt)] = w[Len(w)]
    <3>1. (rp \o w)[Len(rp \o w)] = w[Len(w)]
      BY <2>7, <2>8, LastOfTwo
    <3> QED BY <2>8, <3>1
  <2> QED BY <2>7, <2>8, <2>9, <2>10 DEF Edged, rt, R
<1> QED BY <1>1, <1>2, <1>3

\* What is escaped, trimmed and unescaped is what it was, trimmed: escaping
\* brings no white space to the ends of a text and takes none away.
LEMMA TrimmedComesBack ==
  ASSUME NEW t \in Texts
  PROVE  Trim(t) \in Texts /\ Trim(EscapeXml(t)) = EscapeXml(Trim(t)) /\ UnescapeXml(Trim(EscapeXml(t))) = Trim(t)
<1>1. PICK a, b, c \in Texts : t = (a \o b) \o c /\ Blank(a) /\ Edged(b) /\ Blank(c)
  BY TrimSplits DEF Texts
<1>2. Trim(t) = b
  BY <1>1, TrimTakesBlanks DEF Texts
<1>3. /\ "&" \in Signs /\ "<" \in Signs /\ "&" # "space" /\ "<" # "space" /\ Amp \in Texts /\ Lt \in Texts
  BY SignsAre
<1>4. Edged(Amp) /\ Edged(Lt) /\ Amp # <<>> /\ Lt # <<>>
  <2>1. "&" # "space" /\ "amp;" # "space" /\ "lt;" # "space"
    OBVIOUS
  <2>2. \A x, y : x # "space" /\ y # "space" => Edged(<<x, y>>) /\ <<x, y>> # <<>>
    BY DEF Edged
  <2> QED BY <2>1, <2>2 DEF Amp, Lt
<1> DEFINE A(s) == Replace(s, <<"&">>, Amp)
           L(s) == Replace(s, <<"<">>, Lt)
<1>5. \A s \in Texts : A(s) \in Texts /\ L(s) \in Texts
  BY SignsAre, PiecesAreTexts, TextOfTwo DEF Texts
<1>6. \A r, s \in Texts : A(Cat(r, s)) = Cat(A(r), A(s)) /\ L(Cat(r, s)) = Cat(L(r), L(s))
  <2> SUFFICES ASSUME NEW r \in Texts, NEW s \in Texts
               PROVE  A(r \o s) = A(r) \o A(s) /\ L(r \o s) = L(r) \o L(s)
    BY DEF Cat
  <2>1. r \in Seq(Signs) /\ s \in Seq(Signs) /\ Amp \in Seq(Signs) /\ Lt \in Seq(Signs)
    BY <1>3 DEF Texts
  <2>2. ReplacesApart(r, s, "&", Amp) /\ ReplacesApart(r, s, "<", Lt)
    BY <1>3, <2>1, ReplaceAnywhere
  <2>3. A(r \o s) = A(r) \o A(s) /\ L(r \o s) = L(r) \o L(s)
    BY <2>2 DEF ReplacesApart
  <2> HIDE DEF A, L
  <2> QED BY <2>2, <2>3
<1>7. \A s \in Texts : Blank(s) => A(s) = s /\ L(s) = s
  BY <1>3, BlanksStay DEF Texts
<1>8. \A s \in Texts : Edged(s) => Edged(A(s)) /\ Edged(L(s))
  BY <1>3, <1>4, EdgesStay DEF Texts
<1>9. \A s : EscapeXml(s) = L(A(s))
  BY DEF EscapeXml
<1>10. \A r, s \in Texts : Cat(r, s) \in Texts
  BY DEF Texts, Cat
<1> HIDE DEF A, L
<1>11. EscapeXml(t) = (a \o L(A(b))) \o c
  <2>1. A(t) = Cat(Cat(a, A(b)), c)
    <3>1. t = Cat(Cat(a, b), c)
      BY <1>1 DEF Cat
    <3> QED BY <1>1, <1>5, <1>6, <1>7, <1>10, <3>1
  <2>2. A(b) \in Texts /\ Cat(a, A(b)) \in Texts
    BY <1>5, <1>10
  <2>3. L(Cat(Cat(a, A(b)), c)) = Cat(Cat(a, L(A(b))), c)
    BY <1>1, <1>6, <1>7, <2>2
  <2>4. Cat(Cat(a, L(A(b))), c) = (a \o L(A(b))) \o c
    BY DEF Cat
  <2> QED BY <1>9, <2>1, <2>3, <2>4
<1>12. L(A(b)) \in Texts /\ Edged(L(A(b)))
  BY <1>1, <1>5, <1>8
<1>13. Trim(EscapeXml(t)) = L(A(b))
  <2> DEFINE m == L(A(b))
  <2>1. m \in Texts /\ Edged(m) /\ EscapeXml(t) = (a \o m) \o c
    BY <1>11, <1>12
  <2> HIDE DEF m
  <2>2. Trim((a \o m) \o c) = m
    BY <1>1, <2>1, TrimTakesBlanks DEF Texts
  <2> QED BY <2>1, <2>2 DEF m
<1>14. Trim(EscapeXml(t)) = EscapeXml(b)
  BY <1>9, <1>13
<1> QED BY <1>2, <1>14, EscapedComesBack

\* The first occurrence from pos on.
FirstFound(i, sub, text, pos) ==
  \/ i = 0 /\ \A j : IsAt(sub, text, j) => j < pos
  \/ IsAt(sub, text, i) /\ i >= pos /\ \A j : IsAt(sub, text, j) => j < pos \/ i <= j

\* Find gives the first place of the tag.
LEMMA FindIsFirst ==
  ASSUME NEW S, NEW sub \in Seq(S), sub # <<>>, NEW text \in Seq(S), NEW pos \in Nat
  PROVE  FirstFound(Find(sub, text, pos), sub, text, pos)
<1> DEFINE found == {i \in Occurrences(sub, text) : i >= pos}
<1>1. Find(sub, text, pos) = IF found = {} THEN 0 ELSE Min(found)
  BY DEF Find
<1>2. \A i : i \in Occurrences(sub, text) <=> IsAt(sub, text, i)
  BY OccurrencesAre
<1>3. \A i : IsAt(sub, text, i) => i \in Nat
  BY DEF IsAt
<1>4. CASE found = {}
  <2>1. \A j : IsAt(sub, text, j) => j < pos
    BY <1>2, <1>3, <1>4
  <2> QED BY <1>1, <1>4, <2>1 DEF FirstFound
<1>5. CASE found # {}
  <2>1. found \subseteq Nat
    BY <1>2, <1>3
  <2>2. \E x \in found : \A y \in found : x <= y
    <3> HIDE DEF found
    <3> QED BY <1>5, <2>1, LeastOfNaturals
  <2>3. Min(found) \in found /\ \A y \in found : Min(found) <= y
    <3> HIDE DEF found
    <3> QED BY <2>2 DEF Min
  <2>4. PICK i : i = Min(found)
    OBVIOUS
  <2>5. IsAt(sub, text, i) /\ i >= pos
    BY <1>2, <2>3, <2>4
  <2>6. ASSUME NEW j, IsAt(sub, text, j) PROVE j < pos \/ i <= j
    <3>1. j \in Nat /\ j \in Occurrences(sub, text)
      BY <1>2, <1>3, <2>6
    <3>2. j >= pos => j \in found
      BY <3>1
    <3> HIDE DEF found
    <3> QED BY <2>3, <2>4, <3>1, <3>2
  <2> HIDE DEF found
  <2> QED BY <1>1, <1>5, <2>4, <2>5, <2>6 DEF FirstFound
<1> QED BY <1>4, <1>5

\* There is one such place.
LEMMA FirstIsOne ==
  ASSUME NEW sub, NEW text, NEW pos \in Nat, NEW i, NEW j,
         FirstFound(i, sub, text, pos), FirstFound(j, sub, text, pos)
  PROVE  i = j
<1>1. \A k : IsAt(sub, text, k) => k \in Nat
  BY DEF IsAt
<1> QED BY <1>1 DEF FirstFound

\* What is found does not depend on where the search begins, as long as nothing lies between.
LEMMA FindSkips ==
  ASSUME NEW S, NEW sub \in Seq(S), sub # <<>>, NEW text \in Seq(S), NEW pos \in Nat, NEW next \in Nat,
         pos <= next, \A i \in pos..next - 1 : ~IsAt(sub, text, i)
  PROVE  Find(sub, text, pos) = Find(sub, text, next)
<1> DEFINE i == Find(sub, text, next)
<1>1. FirstFound(i, sub, text, next)
  BY FindIsFirst
<1> HIDE DEF i
<1>2. \A k : IsAt(sub, text, k) => k \in Nat
  BY DEF IsAt
<1>3. \A k : IsAt(sub, text, k) => k < pos \/ k >= next
  BY <1>2
<1>4. FirstFound(i, sub, text, pos)
  <2>1. CASE i = 0 /\ \A j : IsAt(sub, text, j) => j < next
    <3>1. \A j : IsAt(sub, text, j) => j < pos
      BY <1>2, <1>3, <2>1
    <3> QED BY <2>1, <3>1 DEF FirstFound
  <2>2. CASE IsAt(sub, text, i) /\ i >= next /\ \A j : IsAt(sub, text, j) => j < next \/ i <= j
    <3>1. i \in Nat /\ i >= pos
      BY <1>2, <2>2
    <3>2. \A j : IsAt(sub, text, j) => j < pos \/ i <= j
      BY <1>2, <1>3, <2>2
    <3> QED BY <2>2, <3>1, <3>2 DEF FirstFound
  <2> QED BY <1>1, <2>1, <2>2 DEF FirstFound
<1>5. FirstFound(Find(sub, text, pos), sub, text, pos)
  BY FindIsFirst
<1> QED BY <1>4, <1>5, FirstIsOne DEF i

\* Where the tag stands, it is found at once.
LEMMA FindsHere ==
  ASSUME NEW S, NEW sub \in Seq(S), sub # <<>>, NEW text \in Seq(S), NEW pos \in Nat, IsAt(sub, text, pos)
  PROVE  Find(sub, text, pos) = pos
<1>1. \A k : IsAt(sub, text, k) => k \in Nat
  BY DEF IsAt
<1>2. FirstFound(pos, sub, text, pos)
  <2>1. \A j : IsAt(sub, text, j) => j < pos \/ pos <= j
    BY <1>1
  <2> QED BY <2>1 DEF FirstFound
<1>3. FirstFound(Find(sub, text, pos), sub, text, pos)
  BY FindIsFirst
<1> QED BY <1>2, <1>3, FirstIsOne

\* The tags.
TagNames == Signs \ {"<", "/"}

\* A tag begins with "<", a closing one goes on with "/", and its name comes last.
LEMMA TagsOf ==
  ASSUME NEW tag \in TagNames
  PROVE  /\ OpenOf(tag) \in Texts /\ OpenOf(tag) # <<>> /\ Len(OpenOf(tag)) = 2
         /\ OpenOf(tag)[1] = "<" /\ OpenOf(tag)[2] = tag
         /\ CloseOf(tag) \in Texts /\ CloseOf(tag) # <<>> /\ Len(CloseOf(tag)) = 3
         /\ CloseOf(tag)[1] = "<" /\ CloseOf(tag)[2] = "/" /\ CloseOf(tag)[3] = tag
<1>1. \A S : \A a, b, c \in S : /\ <<a, b>> \in Seq(S) /\ <<a, b>> # <<>> /\ Len(<<a, b>>) = 2
                               /\ <<a, b>>[1] = a /\ <<a, b>>[2] = b
                               /\ <<a, b, c>> \in Seq(S) /\ <<a, b, c>> # <<>> /\ Len(<<a, b, c>>) = 3
                               /\ <<a, b, c>>[1] = a /\ <<a, b, c>>[2] = b /\ <<a, b, c>>[3] = c
  OBVIOUS
<1>2. "<" \in Signs /\ "/" \in Signs /\ tag \in Signs
  BY SignsAre DEF TagNames
<1> QED BY <1>1, <1>2, Zenon DEF OpenOf, CloseOf, Texts

\* Where the tags stand in a text.
LEMMA TagsStand ==
  ASSUME NEW tag \in TagNames, NEW text, NEW i \in Nat, 1 <= i
  PROVE  /\ IsAt(OpenOf(tag), text, i) <=> i + 1 <= Len(text) /\ text[i] = "<" /\ text[i + 1] = tag
         /\ IsAt(CloseOf(tag), text, i)
              <=> i + 2 <= Len(text) /\ text[i] = "<" /\ text[i + 1] = "/" /\ text[i + 2] = tag
<1>1. i + 2 - 1 = i + 1 /\ i + 3 - 1 = i + 2 /\ i + 1 - 1 = i
  OBVIOUS
<1>2. /\ \A P : (\A k \in 1..2 : text[i + k - 1] = P[k]) <=> text[i] = P[1] /\ text[i + 1] = P[2]
      /\ \A P : (\A k \in 1..3 : text[i + k - 1] = P[k])
                  <=> text[i] = P[1] /\ text[i + 1] = P[2] /\ text[i + 2] = P[3]
  <2>1. \A k \in 1..2 : k = 1 \/ k = 2
    OBVIOUS
  <2>2. \A k \in 1..3 : k = 1 \/ k = 2 \/ k = 3
    OBVIOUS
  <2>3. 1 \in 1..2 /\ 2 \in 1..2 /\ 1 \in 1..3 /\ 2 \in 1..3 /\ 3 \in 1..3
    OBVIOUS
  <2> QED BY <1>1, <2>1, <2>2, <2>3
<1>3. IsAt(OpenOf(tag), text, i) <=> i + 1 <= Len(text) /\ text[i] = "<" /\ text[i + 1] = tag
  <2> DEFINE P == OpenOf(tag)
  <2>1. Len(P) = 2 /\ P[1] = "<" /\ P[2] = tag
    BY TagsOf
  <2> HIDE DEF P
  <2>2. IsAt(P, text, i) <=> i + 2 - 1 <= Len(text) /\ \A k \in 1..2 : text[i + k - 1] = P[k]
    BY <2>1 DEF IsAt
  <2>3. IsAt(P, text, i) <=> i + 1 <= Len(text) /\ text[i] = P[1] /\ text[i + 1] = P[2]
    BY <1>1, <1>2, <2>2, Zenon
  <2> QED BY <2>1, <2>3 DEF P
<1>4. IsAt(CloseOf(tag), text, i)
        <=> i + 2 <= Len(text) /\ text[i] = "<" /\ text[i + 1] = "/" /\ text[i + 2] = tag
  <2> DEFINE P == CloseOf(tag)
  <2>1. Len(P) = 3 /\ P[1] = "<" /\ P[2] = "/" /\ P[3] = tag
    BY TagsOf
  <2> HIDE DEF P
  <2>2. IsAt(P, text, i) <=> i + 3 - 1 <= Len(text) /\ \A k \in 1..3 : text[i + k - 1] = P[k]
    BY <2>1 DEF IsAt
  <2>3. IsAt(P, text, i) <=> i + 2 <= Len(text) /\ text[i] = P[1] /\ text[i + 1] = P[2] /\ text[i + 2] = P[3]
    BY <1>1, <1>2, <2>2, Zenon
  <2> QED BY <2>1, <2>3 DEF P
<1> QED BY <1>3, <1>4

\* The equation of the walk of Between.
ReadsOn(from, tag, text) ==
  \A pos \in 1..Len(text) + 1 :
    LET open == Find(OpenOf(tag), text, pos)
        close == IF open = 0 THEN 0 ELSE Find(CloseOf(tag), text, open + 2)
    IN from[pos] = IF close = 0 THEN <<>> ELSE <<SubSeq(text, open + 2, close - 1)>> \o from[close + 3]
Reads(from, tag, text) == from \in [1..Len(text) + 1 -> Seq(Texts)] /\ ReadsOn(from, tag, text)

\* Between takes its value from a walk through the text (parseMemoryXml, extractAll).
LEMMA BetweenEquation ==
  ASSUME NEW tag \in TagNames, NEW text \in Texts
  PROVE  \E from : Reads(from, tag, text) /\ Between(tag, text) = from[1]
<1> DEFINE D == 1..Len(text) + 1
           open(pos) == Find(OpenOf(tag), text, pos)
           close(pos) == IF open(pos) = 0 THEN 0 ELSE Find(CloseOf(tag), text, open(pos) + 2)
           cut(pos) == SubSeq(text, open(pos) + 2, close(pos) - 1)
           Eq(from) == from = [pos \in D |-> IF close(pos) = 0 THEN <<>> ELSE <<cut(pos)>> \o from[close(pos) + 3]]
           stop == {pos \in D : close(pos) = 0}
           down == [pos \in D |-> IF pos \in stop THEN pos ELSE close(pos) + 3]
           m == [pos \in D |-> Len(text) + 1 - pos]
           start == [pos \in D |-> <<>>]
           step == [p \in D \X Seq(Texts) |-> IF close(p[1]) = 0 THEN <<>> ELSE <<cut(p[1])>> \o p[2]]
<1>1. Len(text) \in Nat /\ text \in Seq(Signs)
  BY DEF Texts
<1>2. ASSUME NEW pos \in D, close(pos) # 0
      PROVE  close(pos) + 3 \in D /\ pos < close(pos) + 3 /\ cut(pos) \in Texts
  <2> DEFINE o == open(pos)
             c == Find(CloseOf(tag), text, o + 2)
  <2>0. close(pos) = c /\ o # 0
    BY <1>2
  <2>1. pos \in Nat /\ FirstFound(o, OpenOf(tag), text, pos)
    <3>1. pos \in Nat /\ OpenOf(tag) \in Seq(Signs) /\ OpenOf(tag) # <<>>
      BY <1>1, TagsOf DEF Texts
    <3> QED BY <1>1, <3>1, FindIsFirst
  <2>2. IsAt(OpenOf(tag), text, o) /\ o >= pos
    BY <2>0, <2>1 DEF FirstFound
  <2>3. o \in Nat
    BY <2>2 DEF IsAt
  <2>4. FirstFound(c, CloseOf(tag), text, o + 2)
    <3>1. o + 2 \in Nat /\ CloseOf(tag) \in Seq(Signs) /\ CloseOf(tag) # <<>>
      BY <2>3, TagsOf DEF Texts
    <3> HIDE DEF o
    <3> QED BY <1>1, <3>1, FindIsFirst
  <2>5. IsAt(CloseOf(tag), text, c) /\ c >= o + 2
    <3> HIDE DEF o, c
    <3> QED BY <1>2, <2>0, <2>4 DEF FirstFound
  <2>6. c \in Nat /\ c + 3 - 1 <= Len(text)
    BY <2>5, TagsOf DEF IsAt
  <2> HIDE DEF o, c
  <2>7. c + 3 \in D /\ pos < c + 3 /\ o + 2 \in 1..Len(text) + 1 /\ c - 1 \in (o + 2) - 1..Len(text)
    BY <1>1, <2>1, <2>2, <2>3, <2>5, <2>6
  <2>8. SubSeq(text, o + 2, c - 1) \in Seq(Signs)
    BY <1>1, <2>7, MembersOfPart
  <2> QED BY <2>0, <2>7, <2>8 DEF o, Texts
<1> HIDE DEF open, close, cut
<1>3. stop \subseteq D /\ down \in [D -> D]
  <2>1. \A pos \in D : (IF pos \in stop THEN pos ELSE close(pos) + 3) \in D
    <3> HIDE DEF D
    <3> QED BY <1>2
  <2> HIDE DEF D, stop
  <2> QED BY <2>1 DEF stop
<1>4. m \in [D -> Nat]
  BY <1>1
<1>5. ASSUME NEW pos \in D \ stop PROVE m[down[pos]] < m[pos]
  <2>1. close(pos) # 0 /\ pos \in D /\ down[pos] = close(pos) + 3
    <3> HIDE DEF D
    <3> QED OBVIOUS
  <2>2. close(pos) + 3 \in D /\ pos < close(pos) + 3
    BY <1>2, <2>1
  <2>3. m[down[pos]] = Len(text) + 1 - (close(pos) + 3) /\ m[pos] = Len(text) + 1 - pos
    <3> HIDE DEF D, down
    <3> QED BY <2>1, <2>2
  <2> HIDE DEF m, down
  <2> QED BY <1>1, <2>1, <2>2, <2>3
<1>6. start \in [D -> Seq(Texts)] /\ step \in [D \X Seq(Texts) -> Seq(Texts)]
  <2>1. ASSUME NEW pos \in D, NEW t \in Seq(Texts), close(pos) # 0 PROVE <<cut(pos)>> \o t \in Seq(Texts)
    <3>1. cut(pos) \in Texts
      BY <1>2, <2>1
    <3> HIDE DEF D
    <3> QED BY <3>1
  <2>2. <<>> \in Seq(Texts)
    OBVIOUS
  <2>3. ASSUME NEW p \in D \X Seq(Texts)
        PROVE  (IF close(p[1]) = 0 THEN <<>> ELSE <<cut(p[1])>> \o p[2]) \in Seq(Texts)
    <3>1. p[1] \in D /\ p[2] \in Seq(Texts)
      OBVIOUS
    <3> HIDE DEF D
    <3> QED BY <2>1, <2>2, <3>1
  <2> HIDE DEF D
  <2> QED BY <2>2, <2>3
<1>7. PICK f \in [D -> Seq(Texts)] : Solves(f, D, stop, down, start, step)
  <2>1. \E f \in [D -> Seq(Texts)] : Solves(f, D, stop, down, start, step)
    <3> HIDE DEF D, stop, down, m, start, step
    <3> QED BY <1>3, <1>4, <1>5, <1>6, RecursionHasSolution
  <2> QED BY <2>1
<1>8. ASSUME NEW pos \in D
      PROVE  f[pos] = IF close(pos) = 0 THEN <<>> ELSE <<cut(pos)>> \o f[close(pos) + 3]
  <2>1. f[pos] = IF pos \in stop THEN start[pos] ELSE step[<<pos, f[down[pos]]>>]
    <3> HIDE DEF D, stop, start, step, down
    <3> QED BY <1>7 DEF Solves
  <2>2. CASE close(pos) = 0
    <3>1. pos \in stop /\ start[pos] = <<>>
      <4> HIDE DEF D
      <4> QED BY <2>2
    <3> HIDE DEF stop, start
    <3> QED BY <2>1, <2>2, <3>1
  <2>3. CASE close(pos) # 0
    <3>1. pos \notin stop /\ down[pos] = close(pos) + 3
      <4> HIDE DEF D
      <4> QED BY <2>3
    <3>2. close(pos) + 3 \in D
      BY <1>2, <2>3
    <3>3. step[<<pos, f[close(pos) + 3]>>] = <<cut(pos)>> \o f[close(pos) + 3]
      <4> DEFINE t == f[close(pos) + 3]
                 p == <<pos, t>>
      <4>1. t \in Seq(Texts)
        BY <1>7, <3>2
      <4> HIDE DEF D, t
      <4>2. p \in D \X Seq(Texts) /\ p[1] = pos /\ p[2] = t
        BY <4>1
      <4> HIDE DEF p
      <4>3. step[p] = <<cut(pos)>> \o t
        BY <2>3, <4>2
      <4> QED BY <4>3 DEF p, t
    <3> HIDE DEF stop, down, step
    <3> QED BY <2>1, <2>3, <3>1, <3>3
  <2> QED BY <2>2, <2>3
<1>9. Eq(f)
  <2>1. f = [pos \in D |-> f[pos]]
    BY <1>7
  <2> HIDE DEF D
  <2> QED BY <1>8, <2>1
<1> DEFINE from == CHOOSE g : Eq(g)
<1>10. Eq(from)
  <2> HIDE DEF Eq
  <2> QED BY <1>9, Zenon
<1>11. Between(tag, text) = from[1]
  BY Zenon DEF Between, D, open, close, cut
<1> HIDE DEF from
<1> DEFINE Missed == {pos \in D : from[pos] \notin Seq(Texts)}
<1>12. \A pos \in D : from[pos] = IF close(pos) = 0 THEN <<>> ELSE <<cut(pos)>> \o from[close(pos) + 3]
  <2> HIDE DEF D
  <2> QED BY <1>10
<1>13. Missed = {}
  <2> SUFFICES ASSUME Missed # {} PROVE FALSE
    OBVIOUS
  <2>1. Missed \subseteq D
    OBVIOUS
  <2>2. PICK pos \in Missed : \A q \in Missed : m[pos] <= m[q]
    <3> HIDE DEF Missed, D, m
    <3> QED BY <1>4, <2>1, LeastMeasured
  <2>3. pos \in D /\ from[pos] \notin Seq(Texts)
    BY <2>2
  <2>4. close(pos) # 0
    <3>1. <<>> \in Seq(Texts)
      OBVIOUS
    <3> HIDE DEF D
    <3> QED BY <1>12, <2>3, <3>1
  <2>5. close(pos) + 3 \in D /\ pos < close(pos) + 3 /\ cut(pos) \in Texts
    BY <1>2, <2>3, <2>4
  <2>6. from[close(pos) + 3] \in Seq(Texts)
    <3>1. m[close(pos) + 3] = Len(text) + 1 - (close(pos) + 3) /\ m[pos] = Len(text) + 1 - pos
      <4> HIDE DEF D
      <4> QED BY <2>3, <2>5
    <3>2. ~(m[pos] <= m[close(pos) + 3])
      <4> HIDE DEF m
      <4> QED BY <1>1, <2>3, <2>5, <3>1
    <3>3. close(pos) + 3 \notin Missed
      <4> HIDE DEF m, Missed
      <4> QED BY <2>2, <3>2
    <3> HIDE DEF D
    <3> QED BY <2>5, <3>3
  <2>7. <<cut(pos)>> \o from[close(pos) + 3] \in Seq(Texts)
    <3> DEFINE t == from[close(pos) + 3]
               s == cut(pos)
    <3>1. t \in Seq(Texts) /\ s \in Texts
      BY <2>5, <2>6
    <3> HIDE DEF t, s
    <3>2. <<s>> \o t \in Seq(Texts)
      BY <3>1
    <3> QED BY <3>2 DEF t, s
  <2>8. from[pos] = <<cut(pos)>> \o from[close(pos) + 3]
    <3> HIDE DEF D
    <3> QED BY <1>12, <2>3, <2>4
  <2> QED BY <2>3, <2>7, <2>8
<1>14. from \in [D -> Seq(Texts)]
  <2>1. from = [pos \in D |-> from[pos]]
    <3>1. from = [pos \in D |-> IF close(pos) = 0 THEN <<>> ELSE <<cut(pos)>> \o from[close(pos) + 3]]
      BY <1>10
    <3> HIDE DEF D
    <3> QED BY <1>12, <3>1
  <2>2. \A pos \in D : from[pos] \in Seq(Texts)
    BY <1>13
  <2> HIDE DEF D
  <2> QED BY <2>1, <2>2
<1>15. ReadsOn(from, tag, text)
  BY <1>12, Zenon DEF ReadsOn, open, close, cut
<1> QED BY <1>11, <1>14, <1>15 DEF Reads

\* Nothing in a text reads as the tag or its end, or begins to, whatever follows the text.
Quiet(a, tag) ==
  \A i \in 1..Len(a) : a[i] = "<" =>
    /\ i + 1 <= Len(a) /\ a[i + 1] # tag
    /\ a[i + 1] = "/" => i + 2 <= Len(a) /\ a[i + 2] # tag

\* The laws of concatenation.
LEMMA TextsJoin ==
  /\ <<>> \in Texts
  /\ \A a, b \in Texts : Cat(a, b) \in Texts /\ Len(Cat(a, b)) = Len(a) + Len(b) /\ Len(a) \in Nat
  /\ \A a, b, c \in Texts : Cat(Cat(a, b), c) = Cat(a, Cat(b, c))
<1>1. <<>> \in Texts /\ \A a, b \in Texts : a \o b \in Texts /\ Len(a \o b) = Len(a) + Len(b) /\ Len(a) \in Nat
  BY DEF Texts
<1>2. \A a, b, c \in Texts : (a \o b) \o c = a \o (b \o c)
  BY ConcatAssociative DEF Texts
<1> QED BY <1>1, <1>2 DEF Cat

\* The text t has a in it, behind u and before r.
Middle(t, u, a, r) ==
  /\ t \in Texts /\ Len(u) \in Nat /\ Len(a) \in Nat /\ Len(r) \in Nat
  /\ Len(t) = Len(u) + Len(a) + Len(r)
  /\ \A i \in 1..Len(a) : t[Len(u) + i] = a[i]

\* The middle of three texts stands in the middle.
LEMMA InTheMiddle ==
  ASSUME NEW u \in Texts, NEW a \in Texts, NEW r \in Texts
  PROVE  Middle((u \o a) \o r, u, a, r)
<1> DEFINE n == Len(u)
           k == Len(a)
           v == u \o a
           t == v \o r
<1>1. v \in Seq(Signs) /\ Len(v) = n + k /\ n \in Nat /\ k \in Nat /\ Len(r) \in Nat /\ r \in Seq(Signs)
      /\ \A i \in 1..k : v[n + i] = a[i]
  BY DEF Texts
<1> HIDE DEF v
<1>2. t \in Seq(Signs) /\ Len(t) = Len(v) + Len(r) /\ \A i \in 1..Len(v) : t[i] = v[i]
  <2>1. v \in Seq(Signs) /\ r \in Seq(Signs)
    BY <1>1
  <2> QED BY <2>1
<1> HIDE DEF n, k, t
<1>3. \A i \in 1..k : n + i \in 1..Len(v)
  BY <1>1
<1>4. \A i \in 1..k : t[n + i] = a[i]
  BY <1>1, <1>2, <1>3
<1>5. Middle(t, u, a, r)
  BY <1>1, <1>2, <1>4 DEF Middle, n, k, Texts
<1> QED BY <1>5 DEF t, v

\* No tag stands in a quiet text, nor begins in it.
LEMMA QuietInTheMiddle ==
  ASSUME NEW tag \in TagNames, NEW a, Quiet(a, tag), NEW u, NEW r, NEW t, Middle(t, u, a, r),
         NEW i \in Len(u) + 1..Len(u) + Len(a)
  PROVE  ~IsAt(OpenOf(tag), t, i) /\ ~IsAt(CloseOf(tag), t, i)
<1> DEFINE n == Len(u)
           k == Len(a)
           j == i - n
<1>1. n \in Nat /\ k \in Nat /\ \A x \in 1..k : t[n + x] = a[x]
  BY DEF Middle
<1> HIDE DEF n, k
<1>2. j \in 1..k /\ i = n + j /\ i \in Nat /\ 1 <= i
  BY <1>1 DEF n, k
<1> HIDE DEF j
<1>3. t[i] = a[j]
  BY <1>1, <1>2
<1>4. CASE a[j] # "<"
  BY <1>2, <1>3, <1>4, TagsStand
<1>5. CASE a[j] = "<"
  <2>1. j + 1 <= k /\ a[j + 1] # tag /\ (a[j + 1] = "/" => j + 2 <= k /\ a[j + 2] # tag)
    BY <1>2, <1>5 DEF Quiet, k
  <2>2. t[i + 1] = a[j + 1]
    <3>1. j + 1 \in 1..k /\ i + 1 = n + (j + 1)
      BY <1>1, <1>2, <2>1
    <3> QED BY <1>1, <3>1
  <2>3. a[j + 1] = "/" => t[i + 2] = a[j + 2]
    <3>1. a[j + 1] = "/" => j + 2 \in 1..k /\ i + 2 = n + (j + 2)
      BY <1>1, <1>2, <2>1
    <3> QED BY <1>1, <3>1
  <2> QED BY <1>2, <2>1, <2>2, <2>3, TagsStand
<1> QED BY <1>4, <1>5

\* Whatever stands around it, the walk takes found from the text a.
Yields(tag, a, found) ==
  /\ a \in Texts /\ found \in Seq(Texts)
  /\ \A u, r \in Texts : \A from : Reads(from, tag, (u \o a) \o r)
       => from[Len(u) + 1] = found \o from[Len(u) + Len(a) + 1]

\* From a quiet text the walk takes nothing.
LEMMA YieldsNothing ==
  ASSUME NEW tag \in TagNames, NEW a \in Texts, Quiet(a, tag)
  PROVE  Yields(tag, a, <<>>)
<1> SUFFICES ASSUME NEW u \in Texts, NEW r \in Texts, NEW from, Reads(from, tag, (u \o a) \o r)
             PROVE  from[Len(u) + 1] = <<>> \o from[Len(u) + Len(a) + 1]
  BY DEF Yields
<1> DEFINE n == Len(u)
           k == Len(a)
           t == (u \o a) \o r
           open == Find(OpenOf(tag), t, n + 1)
           close == IF open = 0 THEN 0 ELSE Find(CloseOf(tag), t, open + 2)
<1>0. Middle(t, u, a, r)
  BY InTheMiddle
<1>1. t \in Texts /\ n \in Nat /\ k \in Nat /\ Len(t) = n + k + Len(r) /\ Len(r) \in Nat
  BY <1>0 DEF Middle
<1>2. \A i \in n + 1..(n + k + 1) - 1 : ~IsAt(OpenOf(tag), t, i)
  <2>1. (n + k + 1) - 1 = n + k
    BY <1>1
  <2> HIDE DEF t
  <2> QED BY <1>0, <2>1, QuietInTheMiddle
<1> HIDE DEF n, k, t
<1>3. n + 1 \in 1..Len(t) + 1 /\ n + k + 1 \in 1..Len(t) + 1 /\ n + 1 \in Nat /\ n + k + 1 \in Nat /\ n + 1 <= n + k + 1
  BY <1>1
<1>4. Find(OpenOf(tag), t, n + k + 1) = open
  <2> DEFINE sub == OpenOf(tag)
  <2>1. sub \in Seq(Signs) /\ sub # <<>> /\ t \in Seq(Signs)
    BY <1>1, TagsOf DEF Texts
  <2>2. \A i \in n + 1..(n + k + 1) - 1 : ~IsAt(sub, t, i)
    BY <1>2
  <2> HIDE DEF sub
  <2>3. Find(sub, t, n + 1) = Find(sub, t, n + k + 1)
    BY <1>3, <2>1, <2>2, FindSkips
  <2> QED BY <2>3 DEF sub
<1> HIDE DEF open
<1>5. ReadsOn(from, tag, t) /\ from \in [1..Len(t) + 1 -> Seq(Texts)]
  BY DEF Reads, t
<1>6. from[n + 1] = IF close = 0 THEN <<>> ELSE <<SubSeq(t, open + 2, close - 1)>> \o from[close + 3]
  BY <1>3, <1>5 DEF ReadsOn, open
<1>7. from[n + k + 1] = IF close = 0 THEN <<>> ELSE <<SubSeq(t, open + 2, close - 1)>> \o from[close + 3]
  BY <1>3, <1>4, <1>5 DEF ReadsOn
<1>8. from[n + k + 1] \in Seq(Texts)
  BY <1>3, <1>5
<1>9. <<>> \o from[n + k + 1] = from[n + k + 1]
  <2> DEFINE s == from[n + k + 1]
  <2>1. s \in Seq(Texts)
    BY <1>8
  <2> HIDE DEF s
  <2>2. <<>> \o s = s
    BY <2>1
  <2> QED BY <2>2 DEF s
<1> HIDE DEF close
<1> QED BY <1>6, <1>7, <1>9 DEF n, k

\* Ways to put parentheses.
LEMMA FiveTexts ==
  ASSUME NEW u \in Texts, NEW o \in Texts, NEW i \in Texts, NEW c \in Texts, NEW r \in Texts
  PROVE  LET t == Cat(Cat(u, Cat(Cat(o, i), c)), r)
         IN /\ t = Cat(Cat(u, o), Cat(Cat(i, c), r))
            /\ t = Cat(Cat(Cat(u, o), i), Cat(c, r))
            /\ t = Cat(Cat(Cat(Cat(u, o), i), c), r)
<1> DEFINE t == Cat(Cat(u, Cat(Cat(o, i), c)), r)
<1>1. \A a, b \in Texts : Cat(a, b) \in Texts
  BY TextsJoin
<1>2. \A a, b, d \in Texts : Cat(Cat(a, b), d) = Cat(a, Cat(b, d))
  BY TextsJoin
<1>3. t = Cat(Cat(Cat(u, o), Cat(i, c)), r)
  BY <1>1, <1>2
<1>4. t = Cat(Cat(u, o), Cat(Cat(i, c), r))
  BY <1>1, <1>2, <1>3
<1>5. t = Cat(Cat(Cat(Cat(u, o), i), c), r)
  BY <1>1, <1>2, <1>3
<1>6. t = Cat(Cat(Cat(u, o), i), Cat(c, r))
  BY <1>1, <1>2, <1>5
<1> QED BY <1>4, <1>5, <1>6

\* From a frame around a quiet text it takes that text.
LEMMA YieldsOne ==
  ASSUME NEW tag \in TagNames, NEW inner \in Texts, Quiet(inner, tag)
  PROVE  Yields(tag, (OpenOf(tag) \o inner) \o CloseOf(tag), <<inner>>)
<1> DEFINE O == OpenOf(tag)
           C == CloseOf(tag)
           a == (O \o inner) \o C
           m == Len(inner)
<1>1. /\ O \in Texts /\ Len(O) = 2 /\ O[1] = "<" /\ O[2] = tag /\ O # <<>>
      /\ C \in Texts /\ Len(C) = 3 /\ C[1] = "<" /\ C[2] = "/" /\ C[3] = tag /\ C # <<>>
  BY TagsOf
<1>2. m \in Nat /\ a \in Texts /\ Len(a) = m + 5
  <2> HIDE DEF O, C
  <2>1. Middle(a, O, inner, C)
    BY <1>1, InTheMiddle
  <2> HIDE DEF a
  <2> QED BY <1>1, <2>1 DEF Middle
<1>3. <<inner>> \in Seq(Texts)
  OBVIOUS
<1> SUFFICES ASSUME NEW u \in Texts, NEW r \in Texts, NEW from, Reads(from, tag, (u \o a) \o r)
             PROVE  from[Len(u) + 1] = <<inner>> \o from[Len(u) + Len(a) + 1]
  <2> HIDE DEF a
  <2> QED BY <1>2, <1>3 DEF Yields, a, O, C
<1> DEFINE n == Len(u)
           t == (u \o a) \o r
           uO == u \o O
           Cr == C \o r
<1> HIDE DEF O, C, a, m
<1>4. t \in Texts /\ n \in Nat /\ Len(r) \in Nat /\ Len(t) = n + (m + 5) + Len(r)
  <2>1. Middle(t, u, a, r)
    BY <1>2, InTheMiddle
  <2> HIDE DEF t
  <2> QED BY <1>2, <2>1 DEF Middle
<1>5. uO \in Texts /\ Len(uO) = n + 2 /\ Cr \in Texts /\ inner \o C \in Texts
  <2>0. O \in Texts /\ C \in Texts /\ Len(O) = 2
    BY <1>1
  <2>1. Cat(u, O) \in Texts /\ Cat(C, r) \in Texts /\ Cat(inner, C) \in Texts
    <3>1. \A x, y \in Texts : Cat(x, y) \in Texts
      BY TextsJoin
    <3> QED BY <2>0, <3>1
  <2>2. Len(Cat(u, O)) = n + 2
    <3>1. \A x, y \in Texts : Len(Cat(x, y)) = Len(x) + Len(y)
      BY TextsJoin
    <3>2. Len(Cat(u, O)) = Len(u) + Len(O)
      BY <2>0, <3>1
    <3> QED BY <2>0, <3>2
  <2> QED BY <2>1, <2>2 DEF Cat
<1>6. t = (u \o O) \o ((inner \o C) \o r) /\ t = (uO \o inner) \o Cr /\ t = ((uO \o inner) \o C) \o r
  <2>1. LET s == Cat(Cat(u, Cat(Cat(O, inner), C)), r)
        IN /\ s = Cat(Cat(u, O), Cat(Cat(inner, C), r))
           /\ s = Cat(Cat(Cat(u, O), inner), Cat(C, r))
           /\ s = Cat(Cat(Cat(Cat(u, O), inner), C), r)
    <3>1. O \in Texts /\ C \in Texts
      BY <1>1
    <3> QED BY <3>1, FiveTexts
  <2> QED BY <2>1 DEF Cat, a
<1> DEFINE uOi == uO \o inner
           iCr == (inner \o C) \o r
<1>7. uOi \in Texts /\ Len(uOi) = n + 2 + m /\ iCr \in Texts
  <2> HIDE DEF uO
  <2>1. Cat(uO, inner) \in Texts /\ Len(Cat(uO, inner)) = n + 2 + m /\ Cat(Cat(inner, C), r) \in Texts
    BY <1>1, <1>5, TextsJoin DEF m
  <2> QED BY <2>1 DEF Cat
<1>8. Middle(t, u, O, iCr) /\ Middle(t, uO, inner, Cr) /\ Middle(t, uOi, C, r)
  <2>1. Middle((u \o O) \o iCr, u, O, iCr)
    <3> HIDE DEF iCr
    <3> QED BY <1>1, <1>7, InTheMiddle
  <2>2. Middle((uO \o inner) \o Cr, uO, inner, Cr)
    <3> HIDE DEF uO, Cr
    <3> QED BY <1>5, InTheMiddle
  <2>3. Middle((uOi \o C) \o r, uOi, C, r)
    <3> HIDE DEF uOi
    <3> QED BY <1>1, <1>7, InTheMiddle
  <2> QED BY <1>6, <2>1, <2>2, <2>3, Zenon
<1> HIDE DEF t, n, uO, Cr, uOi, iCr
<1>81. t[n + 1] = "<" /\ t[n + 2] = tag
  <2>1. 1 \in 1..Len(O) /\ 2 \in 1..Len(O)
    BY <1>1
  <2> QED BY <1>1, <1>8, <2>1 DEF Middle, n
<1>9. t[n + 2 + m + 1] = "<" /\ t[n + 2 + m + 2] = "/" /\ t[n + 2 + m + 3] = tag
  <2>1. 1 \in 1..Len(C) /\ 2 \in 1..Len(C) /\ 3 \in 1..Len(C)
    BY <1>1
  <2> QED BY <1>1, <1>7, <1>8, <2>1 DEF Middle
<1>10. \A i \in n + 2 + 1..n + 2 + m : ~IsAt(C, t, i)
  BY <1>5, <1>8, QuietInTheMiddle DEF m, C
<1>11. \A i \in 1..m : t[n + 2 + i] = inner[i]
  BY <1>5, <1>8 DEF Middle, m
<1> DEFINE c == n + 2 + m + 1
<1>12. n + 1 \in Nat /\ n + 1 \in 1..Len(t) + 1 /\ n + 3 \in Nat /\ c \in Nat /\ n + 3 <= c
       /\ n + 3 \in 1..Len(t) + 1 /\ c - 1 \in (n + 3) - 1..Len(t) /\ (c - 1) - (n + 3) + 1 = m
  BY <1>2, <1>4
<1>13. Find(O, t, n + 1) = n + 1
  <2>1. IsAt(O, t, n + 1)
    <3>1. (n + 1) + 1 = n + 2 /\ 1 <= n + 1 /\ (n + 1) + 1 <= Len(t)
      BY <1>2, <1>4
    <3> QED BY <1>81, <1>12, <3>1, TagsStand DEF O
  <2> QED BY <1>1, <1>4, <1>12, <2>1, FindsHere DEF Texts
<1>14. Find(C, t, n + 3) = c
  <2>1. IsAt(C, t, c)
    <3>1. c + 1 = n + 2 + m + 2 /\ c + 2 = n + 2 + m + 3 /\ 1 <= c /\ c + 2 <= Len(t)
      BY <1>2, <1>4
    <3>2. t[c] = "<" /\ t[c + 1] = "/" /\ t[c + 2] = tag
      <4> HIDE DEF c
      <4> QED BY <1>9, <3>1 DEF c
    <3> HIDE DEF c
    <3> QED BY <1>12, <3>1, <3>2, TagsStand DEF C
  <2>2. \A i \in n + 3..c - 1 : ~IsAt(C, t, i)
    <3>1. n + 3 = n + 2 + 1 /\ c - 1 = n + 2 + m
      BY <1>2, <1>4
    <3> HIDE DEF c
    <3> QED BY <1>10, <3>1
  <2> HIDE DEF c
  <2>3. t \in Seq(Signs) /\ C \in Seq(Signs)
    BY <1>1, <1>4 DEF Texts
  <2>4. Find(C, t, n + 3) = Find(C, t, c)
    BY <1>1, <1>12, <2>2, <2>3, FindSkips
  <2>5. Find(C, t, c) = c
    BY <1>1, <1>12, <2>1, <2>3, FindsHere
  <2> QED BY <2>4, <2>5
<1>15. SubSeq(t, n + 3, c - 1) = inner
  <2>0. \A i \in 1..m : n + 3 + i - 1 = n + 2 + i
    BY <1>4
  <2> HIDE DEF c
  <2> DEFINE s == SubSeq(t, n + 3, c - 1)
  <2>1. s \in Seq(Signs) /\ Len(s) = m /\ \A i \in 1..m : s[i] = t[n + 3 + i - 1]
    BY <1>4, <1>12, MembersOfPart, SMTT(60) DEF Texts
  <2> HIDE DEF s
  <2>2. \A i \in 1..m : s[i] = inner[i]
    BY <1>11, <2>0, <2>1
  <2>3. inner \in Seq(Signs) /\ Len(inner) = m
    BY DEF m, Texts
  <2>4. s = inner
    BY <2>1, <2>2, <2>3, SeqEqual
  <2> QED BY <2>4 DEF s
<1>16. ReadsOn(from, tag, t)
  BY DEF Reads, t
<1>17. from[n + 1] = <<inner>> \o from[c + 3]
  <2>1. n + 1 # 0 /\ (n + 1) + 2 = n + 3 /\ c # 0
    BY <1>4, <1>2
  <2> HIDE DEF c
  <2>2. Find(OpenOf(tag), t, n + 1) = n + 1 /\ Find(CloseOf(tag), t, (n + 1) + 2) = c
    BY <1>13, <1>14, <2>1 DEF O, C
  <2>3. from[n + 1] = <<SubSeq(t, (n + 1) + 2, c - 1)>> \o from[c + 3]
    BY <1>12, <1>16, <2>1, <2>2 DEF ReadsOn
  <2> QED BY <1>15, <2>1, <2>3
<1>18. c + 3 = n + Len(a) + 1
  BY <1>2, <1>4
<1> HIDE DEF c
<1> QED BY <1>17, <1>18 DEF n

\* From two texts it takes what it takes from each.
LEMMA YieldsBoth ==
  ASSUME NEW tag, NEW a, NEW b, NEW found, NEW more, Yields(tag, a, found), Yields(tag, b, more)
  PROVE  Yields(tag, a \o b, found \o more)
<1>1. a \in Texts /\ b \in Texts /\ found \in Seq(Texts) /\ more \in Seq(Texts)
  BY DEF Yields
<1>2. a \o b \in Texts /\ found \o more \in Seq(Texts) /\ Len(a \o b) = Len(a) + Len(b)
      /\ Len(a) \in Nat /\ Len(b) \in Nat
  <2>1. found \o more \in Seq(Texts)
    BY <1>1
  <2>2. Cat(a, b) \in Texts /\ Len(Cat(a, b)) = Len(a) + Len(b) /\ Len(a) \in Nat /\ Len(b) \in Nat
    BY <1>1, TextsJoin
  <2> QED BY <2>1, <2>2 DEF Cat
<1> SUFFICES ASSUME NEW u \in Texts, NEW r \in Texts, NEW from, Reads(from, tag, (u \o (a \o b)) \o r)
             PROVE  from[Len(u) + 1] = (found \o more) \o from[Len(u) + Len(a \o b) + 1]
  BY <1>2 DEF Yields
<1> DEFINE t == (u \o (a \o b)) \o r
<1>3. t = (u \o a) \o (b \o r) /\ t = ((u \o a) \o b) \o r /\ b \o r \in Texts /\ u \o a \in Texts
      /\ Len(u \o a) = Len(u) + Len(a) /\ Len(u) \in Nat
  <2>1. LET s == Cat(Cat(u, Cat(a, b)), r)
        IN s = Cat(Cat(u, a), Cat(b, r)) /\ s = Cat(Cat(Cat(u, a), b), r)
    BY <1>1, TextsJoin, SMTT(60)
  <2>2. Cat(b, r) \in Texts /\ Cat(u, a) \in Texts /\ Len(Cat(u, a)) = Len(u) + Len(a) /\ Len(u) \in Nat
    BY <1>1, TextsJoin
  <2> QED BY <2>1, <2>2 DEF Cat
<1> HIDE DEF t
<1>4. Reads(from, tag, t)
  BY DEF t
<1>5. from[Len(u) + 1] = found \o from[Len(u) + Len(a) + 1]
  <2>1. Reads(from, tag, (u \o a) \o (b \o r))
    BY <1>3, <1>4
  <2> QED BY <1>3, <2>1 DEF Yields
<1>6. from[Len(u \o a) + 1] = more \o from[Len(u \o a) + Len(b) + 1]
  <2>1. Reads(from, tag, ((u \o a) \o b) \o r)
    BY <1>3, <1>4
  <2> QED BY <1>3, <2>1 DEF Yields
<1>7. Len(u) + Len(a \o b) + 1 \in 1..Len(t) + 1 /\ Len(u) + Len(a \o b) + 1 = Len(u \o a) + Len(b) + 1
  <2>0. Middle(t, u, a \o b, r)
    <3> DEFINE x == a \o b
    <3>1. x \in Texts
      BY <1>2
    <3> HIDE DEF x
    <3>2. Middle((u \o x) \o r, u, x, r)
      BY <3>1, InTheMiddle
    <3> QED BY <3>2 DEF x, t
  <2>1. Len(t) = Len(u) + Len(a \o b) + Len(r) /\ Len(r) \in Nat
    BY <2>0 DEF Middle
  <2> QED BY <1>2, <1>3, <2>1
<1> DEFINE s == from[Len(u) + Len(a \o b) + 1]
<1>8. s \in Seq(Texts)
  BY <1>4, <1>7 DEF Reads
<1>9. from[Len(u) + 1] = found \o (more \o s)
  BY <1>3, <1>5, <1>6, <1>7
<1> HIDE DEF s
<1>10. found \o (more \o s) = (found \o more) \o s
  <2>1. \A x, y, z \in Seq(Texts) : (x \o y) \o z = x \o (y \o z)
    BY ConcatAssociative
  <2> QED BY <1>1, <1>8, <2>1, Zenon
<1> QED BY <1>9, <1>10 DEF s

\* So this is what Between finds.
LEMMA YieldsBetween ==
  ASSUME NEW tag \in TagNames, NEW a, NEW found, Yields(tag, a, found)
  PROVE  Between(tag, a) = found
<1>1. a \in Texts /\ found \in Seq(Texts) /\ <<>> \in Texts
  BY TextsJoin DEF Yields
<1>2. PICK from : Reads(from, tag, a) /\ Between(tag, a) = from[1]
  BY <1>1, BetweenEquation
<1>3. (<<>> \o a) \o <<>> = a /\ Len(<<>>) = 0 /\ Len(a) \in Nat
  BY <1>1, ConcatEmptySeq DEF Texts
<1>4. from[1] = found \o from[Len(a) + 1]
  <2>1. Reads(from, tag, (<<>> \o a) \o <<>>)
    BY <1>2, <1>3
  <2>2. from[Len(<<>>) + 1] = found \o from[Len(<<>>) + Len(a) + 1]
    BY <1>1, <2>1 DEF Yields
  <2>3. Len(<<>>) + 1 = 1 /\ Len(<<>>) + Len(a) + 1 = Len(a) + 1
    BY <1>3
  <2> QED BY <2>2, <2>3
<1>5. from[Len(a) + 1] = <<>>
  <2> DEFINE pos == Len(a) + 1
             O == OpenOf(tag)
             i == Find(O, a, pos)
  <2>1. pos \in Nat /\ pos \in 1..Len(a) + 1
    BY <1>3
  <2>2. O \in Seq(Signs) /\ O # <<>> /\ Len(O) = 2
    BY TagsOf DEF Texts
  <2> HIDE DEF O
  <2>3. FirstFound(i, O, a, pos)
    BY <1>1, <2>1, <2>2, FindIsFirst DEF Texts
  <2> HIDE DEF i
  <2>4. i = 0
    <3>1. ~(IsAt(O, a, i) /\ i >= pos)
      BY <1>3, <2>2 DEF IsAt
    <3> QED BY <2>3, <3>1 DEF FirstFound
  <2> HIDE DEF pos
  <2>5. ReadsOn(from, tag, a)
    BY <1>2 DEF Reads
  <2>6. from[pos] = <<>>
    BY <2>1, <2>4, <2>5 DEF ReadsOn, i, O, pos
  <2> QED BY <2>6 DEF pos
<1> QED BY <1>1, <1>2, <1>4, <1>5, ConcatEmptySeq

\* The walk takes from texts that follow each other what it takes from each.
LEMMA YieldsEach ==
  ASSUME NEW tag \in TagNames, NEW seqs \in Seq(Texts), NEW g \in Seq(Texts), Len(g) = Len(seqs),
         \A i \in 1..Len(seqs) : Yields(tag, seqs[i], <<g[i]>>)
  PROVE  Yields(tag, FlattenSeq(seqs), g)
<1> DEFINE n == Len(seqs)
           Part(i) == SubSeq(g, 1, i)
<1>1. PICK F : AddsUp(F, seqs, Signs) /\ FlattenSeq(seqs) = F[n]
  BY FlattenJoins DEF Texts
<1>2. n \in Nat /\ F[0] = <<>> /\ \A i \in 1..n : F[i] = F[i - 1] \o seqs[i]
  BY <1>1 DEF AddsUp
<1>3. Part(0) = <<>> /\ Part(n) = g
  OBVIOUS
<1>4. \A i \in 1..n : Part(i) = Part(i - 1) \o <<g[i]>>
  BY PartGrows
<1> HIDE DEF n, Part
<1> DEFINE Good(i) == Yields(tag, F[i], Part(i))
           T == {i \in 0..n : ~Good(i)}
<1>5. Good(0)
  <2>1. <<>> \in Texts /\ Quiet(<<>>, tag)
    BY TextsJoin DEF Quiet
  <2> QED BY <1>2, <1>3, <2>1, YieldsNothing
<1>6. ASSUME NEW i \in 1..n, Good(i - 1) PROVE Good(i)
  <2>1. Yields(tag, seqs[i], <<g[i]>>)
    BY DEF n
  <2>2. Yields(tag, F[i - 1] \o seqs[i], Part(i - 1) \o <<g[i]>>)
    <3> DEFINE one == <<g[i]>>
    <3>1. Yields(tag, seqs[i], one) /\ Yields(tag, F[i - 1], Part(i - 1))
      BY <1>6, <2>1
    <3> HIDE DEF one
    <3>2. Yields(tag, F[i - 1] \o seqs[i], Part(i - 1) \o one)
      BY <3>1, YieldsBoth
    <3> QED BY <3>2 DEF one
  <2> QED BY <1>2, <1>4, <2>2, Zenon
<1> HIDE DEF Good
<1>7. T = {}
  <2> SUFFICES ASSUME T # {} PROVE FALSE
    OBVIOUS
  <2>1. T \subseteq Nat
    BY <1>2
  <2>2. PICK i \in T : \A j \in T : i <= j
    <3> HIDE DEF T
    <3> QED BY <2>1, LeastOfNaturals
  <2>3. i \in 0..n /\ ~Good(i)
    BY <2>2
  <2>4. i \in 1..n /\ i - 1 \in 0..n /\ ~(i <= i - 1)
    <3>1. i # 0
      BY <1>5, <2>3
    <3> QED BY <1>2, <2>3, <3>1
  <2>5. Good(i - 1)
    BY <2>2, <2>4
  <2> QED BY <1>6, <2>3, <2>4, <2>5
<1>8. n \in 0..n
  BY <1>2
<1>9. Good(n)
  BY <1>7, <1>8
<1> QED BY <1>1, <1>3, <1>9 DEF Good

\* Two quiet texts are quiet together.
LEMMA QuietBoth ==
  ASSUME NEW tag, NEW a \in Texts, NEW b \in Texts, Quiet(a, tag), Quiet(b, tag)
  PROVE  Cat(a, b) \in Texts /\ Quiet(Cat(a, b), tag)
<1> DEFINE n == Len(a)
           k == Len(b)
           t == Cat(a, b)
<1>1. /\ n \in Nat /\ k \in Nat /\ Len(t) = n + k
      /\ (\A i \in 1..n : t[i] = a[i]) /\ (\A i \in 1..k : t[n + i] = b[i])
  BY DEF Texts, Cat
<1>2. t \in Texts
  BY TextsJoin
<1>3. /\ \A i \in 1..n : a[i] = "<" => /\ i + 1 <= n /\ a[i + 1] # tag
                                       /\ a[i + 1] = "/" => i + 2 <= n /\ a[i + 2] # tag
      /\ \A i \in 1..k : b[i] = "<" => /\ i + 1 <= k /\ b[i + 1] # tag
                                       /\ b[i + 1] = "/" => i + 2 <= k /\ b[i + 2] # tag
  BY DEF Quiet
<1> HIDE DEF n, k, t
<1>4. ASSUME NEW i \in 1..n + k, t[i] = "<"
      PROVE  /\ i + 1 <= n + k /\ t[i + 1] # tag
             /\ t[i + 1] = "/" => i + 2 <= n + k /\ t[i + 2] # tag
  <2>1. CASE i <= n
    <3>1. i \in 1..n
      BY <1>1, <2>1
    <3>2. a[i] = "<"
      BY <1>1, <1>4, <3>1
    <3>3. i + 1 <= n /\ a[i + 1] # tag /\ (a[i + 1] = "/" => i + 2 <= n /\ a[i + 2] # tag)
      BY <1>3, <3>1, <3>2
    <3>4. i + 1 \in 1..n /\ (i + 2 <= n => i + 2 \in 1..n) /\ i + 1 <= n + k /\ (i + 2 <= n => i + 2 <= n + k)
      BY <1>1, <3>1, <3>3
    <3> QED BY <1>1, <3>3, <3>4
  <2>2. CASE i > n
    <3> DEFINE j == i - n
    <3>1. j \in 1..k /\ i = n + j
      BY <1>1, <2>2
    <3> HIDE DEF j
    <3>2. b[j] = "<"
      BY <1>1, <1>4, <3>1
    <3>3. j + 1 <= k /\ b[j + 1] # tag /\ (b[j + 1] = "/" => j + 2 <= k /\ b[j + 2] # tag)
      BY <1>3, <3>1, <3>2
    <3>4. /\ j + 1 \in 1..k /\ (j + 2 <= k => j + 2 \in 1..k) /\ i + 1 <= n + k
          /\ (j + 2 <= k => i + 2 <= n + k) /\ i + 1 = n + (j + 1) /\ i + 2 = n + (j + 2)
      BY <1>1, <3>1, <3>3
    <3> QED BY <1>1, <3>3, <3>4
  <2>3. i <= n \/ i > n
    BY <1>1
  <2> QED BY <2>1, <2>2, <2>3
<1>5. Quiet(t, tag)
  BY <1>1, <1>4 DEF Quiet
<1> QED BY <1>2, <1>5 DEF t

QuietTexts(tag) == {t \in Texts : Quiet(t, tag)}

\* And so is any number of them.
LEMMA QuietsJoin ==
  ASSUME NEW tag
  PROVE  /\ <<>> \in QuietTexts(tag)
         /\ \A a, b \in QuietTexts(tag) : Cat(a, b) \in QuietTexts(tag)
         /\ \A seqs \in Seq(QuietTexts(tag)) : FlattenSeq(seqs) \in QuietTexts(tag)
<1>1. <<>> \in QuietTexts(tag)
  BY TextsJoin DEF QuietTexts, Quiet
<1>2. \A a, b \in QuietTexts(tag) : Cat(a, b) \in QuietTexts(tag)
  BY QuietBoth DEF QuietTexts
<1>3. ASSUME NEW seqs \in Seq(QuietTexts(tag)) PROVE FlattenSeq(seqs) \in QuietTexts(tag)
  <2> DEFINE Q == QuietTexts(tag)
  <2>1. Q \subseteq Seq(Signs)
    BY DEF QuietTexts, Texts
  <2>2. \A a, b \in Q : a \o b \in Q
    BY <1>2 DEF Cat
  <2>3. <<>> \in Q /\ seqs \in Seq(Q)
    BY <1>1
  <2> HIDE DEF Q
  <2>4. FlattenSeq(seqs) \in Q
    BY <2>1, <2>2, <2>3, FlattenKeeps
  <2> QED BY <2>4 DEF Q
<1> QED BY <1>1, <1>2, <1>3

\* Other tags and what is escaped.
LEMMA QuietParts ==
  ASSUME NEW tag \in TagNames
  PROVE  /\ \A other \in TagNames \ {tag} :
              OpenOf(other) \in QuietTexts(tag) /\ CloseOf(other) \in QuietTexts(tag)
         /\ \A t \in Texts : EscapeXml(t) \in QuietTexts(tag)
         /\ \A x \in Signs \ {"<"} : <<x>> \in QuietTexts(tag)
<1>1. ASSUME NEW other \in TagNames \ {tag}
      PROVE  OpenOf(other) \in QuietTexts(tag) /\ CloseOf(other) \in QuietTexts(tag)
  <2>1. other # "<" /\ other # "/" /\ other # tag /\ tag # "/" /\ "/" # "<"
    BY DEF TagNames
  <2> DEFINE O == OpenOf(other)
             C == CloseOf(other)
  <2>2. /\ O \in Texts /\ Len(O) = 2 /\ O[1] = "<" /\ O[2] = other
        /\ C \in Texts /\ Len(C) = 3 /\ C[1] = "<" /\ C[2] = "/" /\ C[3] = other
    BY TagsOf
  <2> HIDE DEF O, C
  <2>3. Quiet(O, tag)
    <3>1. \A i \in 1..2 : O[i] = "<" => i = 1
      <4>1. \A i \in 1..2 : i = 1 \/ i = 2
        OBVIOUS
      <4> QED BY <2>1, <2>2, <4>1
    <3>2. 1 + 1 = 2 /\ 2 <= 2
      OBVIOUS
    <3>3. \A i \in 1..2 : O[i] = "<" => i + 1 <= 2 /\ O[i + 1] # tag /\ O[i + 1] # "/"
      BY <2>1, <2>2, <3>1, <3>2
    <3> QED BY <2>2, <3>3 DEF Quiet
  <2>4. Quiet(C, tag)
    <3>1. \A i \in 1..3 : C[i] = "<" => i = 1
      <4>1. \A i \in 1..3 : i = 1 \/ i = 2 \/ i = 3
        OBVIOUS
      <4> QED BY <2>1, <2>2, <4>1
    <3>2. 1 + 1 = 2 /\ 1 + 2 = 3 /\ 2 <= 3 /\ 3 <= 3
      OBVIOUS
    <3>3. \A i \in 1..3 : C[i] = "<" => i + 1 <= 3 /\ C[i + 1] # tag /\ i + 2 <= 3 /\ C[i + 2] # tag
      BY <2>1, <2>2, <3>1, <3>2
    <3> QED BY <2>2, <3>3 DEF Quiet
  <2> QED BY <2>2, <2>3, <2>4 DEF QuietTexts, O, C
<1>2. ASSUME NEW t \in Texts PROVE EscapeXml(t) \in QuietTexts(tag)
  <2>1. EscapeXml(t) \in Texts /\ Lacks(EscapeXml(t), "<")
    BY EscapedComesBack, EscapedIsPlain
  <2> QED BY <2>1 DEF QuietTexts, Quiet, Lacks
<1>3. ASSUME NEW x \in Signs \ {"<"} PROVE <<x>> \in QuietTexts(tag)
  <2>1. <<x>> \in Seq(Signs) /\ \A i \in 1..Len(<<x>>) : <<x>>[i] = x
    OBVIOUS
  <2> QED BY <2>1 DEF QuietTexts, Quiet, Texts
<1> QED BY <1>1, <1>2, <1>3

\* Elements, in terms of Cat.
LEMMA ElementsAre ==
  /\ \A tag, t : Element(tag, t) = Cat(Cat(OpenOf(tag), EscapeXml(t)), CloseOf(tag))
  /\ \A tag, texts : Elements(tag, texts) = FlattenSeq([i \in DOMAIN texts |-> Element(tag, texts[i])])
BY DEF Element, Elements, Cat

\* An element gives back what it was made of, still escaped (frameEvent, renderStringList).
LEMMA ElementYields ==
  ASSUME NEW tag \in TagNames, NEW t \in Texts
  PROVE  Yields(tag, Element(tag, t), <<EscapeXml(t)>>)
<1> DEFINE e == EscapeXml(t)
<1>1. e \in Texts /\ Quiet(e, tag)
  BY QuietParts DEF QuietTexts
<1> HIDE DEF e
<1>2. Yields(tag, (OpenOf(tag) \o e) \o CloseOf(tag), <<e>>)
  BY <1>1, YieldsOne
<1> QED BY <1>2 DEF Element, e

\* No other tag is found in it, whatever it says.
LEMMA ElementIsQuiet ==
  ASSUME NEW tag \in TagNames, NEW other \in TagNames \ {tag}
  PROVE  /\ \A t \in Texts : Element(other, t) \in QuietTexts(tag)
         /\ \A texts \in Seq(Texts) : Elements(other, texts) \in QuietTexts(tag)
<1>1. ASSUME NEW t \in Texts PROVE Element(other, t) \in QuietTexts(tag)
  <2>1. OpenOf(other) \in QuietTexts(tag) /\ CloseOf(other) \in QuietTexts(tag) /\ EscapeXml(t) \in QuietTexts(tag)
    BY QuietParts
  <2> QED BY <2>1, QuietsJoin, ElementsAre
<1>2. ASSUME NEW texts \in Seq(Texts) PROVE Elements(other, texts) \in QuietTexts(tag)
  <2> DEFINE Q == QuietTexts(tag)
             f == [i \in DOMAIN texts |-> Element(other, texts[i])]
  <2>1. DOMAIN texts = 1..Len(texts) /\ Len(texts) \in Nat /\ \A i \in 1..Len(texts) : texts[i] \in Texts
    OBVIOUS
  <2>2. f \in [1..Len(texts) -> Q]
    <3> HIDE DEF Q
    <3> QED BY <1>1, <2>1 DEF Q
  <2> HIDE DEF f, Q
  <2>3. f \in Seq(Q)
    BY <2>1, <2>2
  <2>4. FlattenSeq(f) \in Q
    BY <2>3, QuietsJoin DEF Q
  <2> QED BY <2>4, ElementsAre DEF f, Q
<1> QED BY <1>1, <1>2

Escaped(texts) == [i \in DOMAIN texts |-> EscapeXml(texts[i])]

\* Nor is any of several elements lost.
LEMMA ElementsYield ==
  ASSUME NEW tag \in TagNames, NEW texts \in Seq(Texts)
  PROVE  Yields(tag, Elements(tag, texts), Escaped(texts)) /\ Elements(tag, texts) \in Texts
         /\ Escaped(texts) \in Seq(Texts) /\ DOMAIN Escaped(texts) = DOMAIN texts
<1> DEFINE n == Len(texts)
           f == [i \in DOMAIN texts |-> Element(tag, texts[i])]
           g == Escaped(texts)
<1>1. DOMAIN texts = 1..n /\ n \in Nat /\ \A i \in 1..n : texts[i] \in Texts
  OBVIOUS
<1>2. \A i \in 1..n : Yields(tag, Element(tag, texts[i]), <<EscapeXml(texts[i])>>)
  BY <1>1, ElementYields
<1>3. f = [i \in 1..n |-> Element(tag, texts[i])] /\ \A i \in 1..n : Element(tag, texts[i]) \in Texts
  BY <1>1, <1>2 DEF Yields
<1>4. g = [i \in 1..n |-> EscapeXml(texts[i])] /\ \A i \in 1..n : EscapeXml(texts[i]) \in Texts
  BY <1>1, EscapedComesBack DEF Escaped
<1> HIDE DEF f, g, n
<1>5. f \in Seq(Texts) /\ Len(f) = n /\ \A i \in 1..n : f[i] = Element(tag, texts[i])
  BY <1>1, <1>3
<1>6. g \in Seq(Texts) /\ Len(g) = n /\ \A i \in 1..n : g[i] = EscapeXml(texts[i])
  BY <1>1, <1>4
<1>7. \A i \in 1..n : Yields(tag, f[i], <<g[i]>>)
  BY <1>2, <1>5, <1>6
<1>8. Yields(tag, FlattenSeq(f), g)
  BY <1>5, <1>6, <1>7, YieldsEach
<1>9. Yields(tag, Elements(tag, texts), g)
  BY <1>8, ElementsAre DEF f
<1>10. DOMAIN g = DOMAIN texts
  BY DEF g, Escaped
<1> QED BY <1>6, <1>9, <1>10 DEF Yields, g

\* A text that is quiet in a tag changes nothing of what the walk takes, before or after.
LEMMA YieldsBeside ==
  ASSUME NEW tag \in TagNames, NEW q \in QuietTexts(tag), NEW b, NEW g, Yields(tag, b, g)
  PROVE  Yields(tag, Cat(q, b), g) /\ Yields(tag, Cat(b, q), g)
<1> DEFINE none == <<>>
<1>1. g \in Seq(Texts) /\ q \in Texts /\ Quiet(q, tag)
  BY DEF Yields, QuietTexts
<1>2. none \o g = g /\ g \o none = g
  BY <1>1, ConcatEmptySeq
<1>3. Yields(tag, q, none)
  BY <1>1, YieldsNothing
<1> HIDE DEF none
<1>4. Yields(tag, q \o b, none \o g)
  BY <1>3, YieldsBoth
<1>5. Yields(tag, b \o q, g \o none)
  BY <1>3, YieldsBoth
<1> QED BY <1>2, <1>4, <1>5 DEF Cat

Frame(tag, inner) == Cat(Cat(OpenOf(tag), inner), CloseOf(tag))

\* A frame gives back its inside, and shows no tag but its own.
LEMMA FrameYields ==
  ASSUME NEW tag \in TagNames
  PROVE  /\ \A inner \in QuietTexts(tag) : Yields(tag, Frame(tag, inner), <<inner>>)
         /\ \A other \in TagNames \ {tag} : \A inner \in QuietTexts(tag) : Frame(other, inner) \in QuietTexts(tag)
<1>1. ASSUME NEW inner \in QuietTexts(tag) PROVE Yields(tag, Frame(tag, inner), <<inner>>)
  <2>1. inner \in Texts /\ Quiet(inner, tag)
    BY DEF QuietTexts
  <2>2. Yields(tag, (OpenOf(tag) \o inner) \o CloseOf(tag), <<inner>>)
    BY <2>1, YieldsOne
  <2> QED BY <2>2 DEF Frame, Cat
<1>2. ASSUME NEW other \in TagNames \ {tag}, NEW inner \in QuietTexts(tag) PROVE Frame(other, inner) \in QuietTexts(tag)
  <2>1. OpenOf(other) \in QuietTexts(tag) /\ CloseOf(other) \in QuietTexts(tag)
    BY QuietParts
  <2> QED BY <2>1, QuietsJoin DEF Frame
<1> QED BY <1>1, <1>2

\* Frames that follow each other give back what was put into them.
LEMMA FramesYield ==
  ASSUME NEW tag \in TagNames, NEW n \in Nat, NEW f, NEW g,
         f = [i \in 1..n |-> Frame(tag, g[i])], g \in [1..n -> QuietTexts(tag)]
  PROVE  /\ Yields(tag, FlattenSeq(f), g)
         /\ \A other \in TagNames \ {tag} : g \in [1..n -> QuietTexts(other)] => FlattenSeq(f) \in QuietTexts(other)
<1>1. \A i \in 1..n : g[i] \in QuietTexts(tag) /\ g[i] \in Texts /\ f[i] = Frame(tag, g[i])
  BY DEF QuietTexts
<1>2. \A i \in 1..n : Yields(tag, f[i], <<g[i]>>)
  BY <1>1, FrameYields
<1>3. g \in Seq(Texts) /\ Len(g) = n
  <2>1. g \in [1..n -> Texts]
    BY <1>1
  <2> QED BY <2>1
<1>4. f \in Seq(Texts) /\ Len(f) = n
  <2>1. \A i \in 1..n : f[i] \in Texts
    BY <1>2 DEF Yields
  <2>2. f \in [1..n -> Texts]
    BY <2>1
  <2> QED BY <2>2
<1>5. Yields(tag, FlattenSeq(f), g)
  BY <1>2, <1>3, <1>4, YieldsEach
<1>6. ASSUME NEW other \in TagNames \ {tag}, g \in [1..n -> QuietTexts(other)] PROVE FlattenSeq(f) \in QuietTexts(other)
  <2> DEFINE Q == QuietTexts(other)
  <2>1. other \in TagNames /\ tag \in TagNames \ {other}
    OBVIOUS
  <2>2. \A inner \in Q : Frame(tag, inner) \in Q
    BY <2>1, FrameYields
  <2>3. g \in [1..n -> Q]
    BY <1>6
  <2> HIDE DEF Q
  <2>4. f \in [1..n -> Q]
    BY <1>1, <2>2, <2>3
  <2>5. f \in Seq(Q)
    BY <2>4
  <2>6. FlattenSeq(f) \in Q
    BY <2>5, QuietsJoin DEF Q
  <2> QED BY <2>6 DEF Q
<1> QED BY <1>5, <1>6

\* What the readers find in a text that holds one element: the text of it, and
\* what is left of that when it is trimmed.
LEMMA ReadsOne ==
  ASSUME NEW tag \in TagNames, NEW a, NEW t \in Texts, Yields(tag, a, <<EscapeXml(t)>>)
  PROVE  TextIn(a, tag) = t /\ ExtractOne(a, tag) = Trim(t)
<1> DEFINE e == EscapeXml(t)
           found == Between(tag, a)
<1>1. UnescapeXml(e) = t /\ UnescapeXml(Trim(e)) = Trim(t)
  BY EscapedComesBack, TrimmedComesBack
<1> HIDE DEF e
<1>2. found = <<e>>
  <2> DEFINE one == <<e>>
  <2>1. Yields(tag, a, one)
    BY DEF e
  <2> HIDE DEF one
  <2>2. found = one
    BY <2>1, YieldsBetween
  <2> QED BY <2>2 DEF one
<1>3. found # <<>> /\ found[1] = e
  BY <1>2
<1> QED BY <1>1, <1>3 DEF TextIn, ExtractOne

\* Nothing is found where there is no such tag.
LEMMA ReadsNone ==
  ASSUME NEW tag \in TagNames, NEW a \in QuietTexts(tag)
  PROVE  TextIn(a, tag) = <<>>
<1>1. Yields(tag, a, <<>>)
  BY YieldsNothing DEF QuietTexts
<1>2. Between(tag, a) = <<>>
  <2> DEFINE none == <<>>
  <2>1. Yields(tag, a, none)
    BY <1>1
  <2> HIDE DEF none
  <2>2. Between(tag, a) = none
    BY <2>1, YieldsBetween
  <2> QED BY <2>2 DEF none
<1> QED BY <1>2 DEF TextIn

\* What stands at some places of a sequence.
LEMMA AtPlaces ==
  ASSUME NEW n \in Nat, NEW places \in SUBSET (1..n)
  PROVE  LET order == Ascending(places)
         IN /\ Len(order) \in Nat /\ \A i \in 1..Len(order) : order[i] \in places
            /\ \A s : Chosen(s, places) = [i \in 1..Len(order) |-> s[order[i]]]
<1> DEFINE order == Ascending(places)
           k == Cardinality(places)
<1>1. places \subseteq Nat /\ IsFiniteSet(places)
  <2> DEFINE all == 1..n
  <2>1. IsFiniteSet(all)
    BY FS_Interval
  <2>2. places \in SUBSET all /\ places \subseteq Nat
    OBVIOUS
  <2> HIDE DEF all
  <2>3. IsFiniteSet(places)
    BY <2>1, <2>2, FS_Subset
  <2> QED BY <2>2, <2>3
<1>2. AscendsOver(order, places)
  BY <1>1, AscendingAscends
<1>3. k \in Nat /\ order \in [1..k -> places] /\ DOMAIN order = 1..k /\ Len(order) = k
  BY <1>2 DEF AscendsOver
<1>4. \A s : Chosen(s, places) = [i \in DOMAIN order |-> s[order[i]]]
  BY DEF Chosen
<1> QED BY <1>3, <1>4

\* Where there are several elements, a reader finds the text of each of them.
LEMMA ReadsEach ==
  ASSUME NEW tag \in TagNames, NEW a, NEW texts \in Seq(Texts), Yields(tag, a, Escaped(texts))
  PROVE  TextsIn(a, tag) = texts
<1> DEFINE n == Len(texts)
           g == Escaped(texts)
<1>1. n \in Nat /\ DOMAIN texts = 1..n /\ texts = [i \in 1..n |-> texts[i]] /\ \A i \in 1..n : texts[i] \in Texts
  OBVIOUS
<1>2. DOMAIN g = 1..n /\ \A i \in 1..n : g[i] = EscapeXml(texts[i])
  BY <1>1 DEF Escaped
<1>3. Between(tag, a) = g
  BY YieldsBetween
<1> HIDE DEF g, n
<1>4. TextsIn(a, tag) = [i \in 1..n |-> UnescapeXml(g[i])]
  BY <1>2, <1>3 DEF TextsIn
<1>5. \A i \in 1..n : UnescapeXml(g[i]) = texts[i]
  BY <1>1, <1>2, EscapedComesBack
<1> QED BY <1>1, <1>4, <1>5

\* And all that are not blank are extracted, trimmed (extractAll).
LEMMA ExtractsAll ==
  ASSUME NEW tag \in TagNames, NEW a, NEW texts \in Seq(Texts), Yields(tag, a, Escaped(texts))
  PROVE  ExtractAll(a, tag) = NotEmpty(Trimmed(texts))
<1> DEFINE n == Len(texts)
           kept == Trimmed(texts)
           g == Trimmed(Escaped(texts))
           places == {i \in 1..n : kept[i] # <<>>}
<1>1. n \in Nat /\ DOMAIN kept = 1..n /\ \A i \in 1..n : kept[i] \in Texts
  <2>1. n \in Nat /\ DOMAIN texts = 1..n /\ \A i \in 1..n : texts[i] \in Texts
    OBVIOUS
  <2> HIDE DEF n
  <2>2. \A i \in 1..n : Trim(texts[i]) \in Texts
    BY <2>1, TrimmedComesBack
  <2>3. kept = [i \in 1..n |-> Trim(texts[i])]
    BY <2>1 DEF Trimmed
  <2> HIDE DEF kept
  <2> QED BY <2>1, <2>2, <2>3
<1>2. DOMAIN g = 1..n /\ \A i \in 1..n : g[i] = EscapeXml(kept[i])
  <2>1. DOMAIN texts = 1..n /\ \A i \in 1..n : texts[i] \in Texts
    OBVIOUS
  <2> HIDE DEF n
  <2>2. Escaped(texts) = [i \in 1..n |-> EscapeXml(texts[i])]
    BY <2>1 DEF Escaped
  <2>3. g = [i \in 1..n |-> Trim(EscapeXml(texts[i]))]
    BY <2>2 DEF Trimmed
  <2>4. \A i \in 1..n : kept[i] = Trim(texts[i])
    BY <2>1 DEF Trimmed
  <2> HIDE DEF g, kept
  <2>5. \A i \in 1..n : Trim(EscapeXml(texts[i])) = EscapeXml(Trim(texts[i]))
    BY <2>1, TrimmedComesBack
  <2> QED BY <2>3, <2>4, <2>5
<1>3. Trimmed(Between(tag, a)) = g
  BY YieldsBetween
<1> HIDE DEF g, kept, n
<1>5. {i \in DOMAIN g : g[i] # <<>>} = places
  BY <1>1, <1>2, EscapedIsEmpty
<1>6. {i \in DOMAIN kept : kept[i] # <<>>} = places
  BY <1>1
<1>7. places \in SUBSET (1..n)
  OBVIOUS
<1> HIDE DEF places
<1> DEFINE order == Ascending(places)
           k == Len(order)
           full == NotEmpty(g)
<1>8. /\ k \in Nat /\ \A i \in 1..k : order[i] \in places
      /\ \A s : Chosen(s, places) = [i \in 1..k |-> s[order[i]]]
  BY <1>1, <1>7, AtPlaces
<1> HIDE DEF order, k
<1>11. NotEmpty(kept) = [i \in 1..k |-> kept[order[i]]]
  BY <1>6, <1>8 DEF NotEmpty
<1>12. full = [i \in 1..k |-> g[order[i]]]
  BY <1>5, <1>8 DEF NotEmpty
<1>13. ExtractAll(a, tag) = [i \in DOMAIN full |-> UnescapeXml(full[i])]
  BY <1>3 DEF ExtractAll
<1> HIDE DEF full
<1>14. DOMAIN full = 1..k /\ \A i \in 1..k : full[i] = g[order[i]]
  BY <1>12
<1>15. \A i \in 1..k : UnescapeXml(full[i]) = kept[order[i]]
  <2> SUFFICES ASSUME NEW i \in 1..k PROVE UnescapeXml(full[i]) = kept[order[i]]
    OBVIOUS
  <2>1. order[i] \in 1..n
    BY <1>7, <1>8
  <2>2. full[i] = EscapeXml(kept[order[i]])
    BY <1>2, <1>14, <2>1
  <2> QED BY <1>1, <2>1, <2>2, EscapedComesBack
<1>16. ExtractAll(a, tag) = NotEmpty(kept)
  BY <1>11, <1>13, <1>14, <1>15
<1> QED BY <1>16 DEF kept

\* Ways to put parentheses.
LEMMA FourTexts ==
  ASSUME NEW o \in Texts, NEW a \in Texts, NEW b \in Texts, NEW c \in Texts
  PROVE  Cat(Cat(Cat(o, a), b), c) = Cat(Cat(o, Cat(a, b)), c)
<1>1. Cat(Cat(o, a), b) = Cat(o, Cat(a, b))
  BY TextsJoin
<1> QED BY <1>1

\* And more of them.
LEMMA SixTexts ==
  ASSUME NEW o \in Texts, NEW a \in Texts, NEW b \in Texts, NEW c \in Texts, NEW d \in Texts, NEW e \in Texts
  PROVE  /\ Cat(Cat(Cat(Cat(o, a), b), c), e) = Cat(Cat(o, Cat(Cat(a, b), c)), e)
         /\ Cat(Cat(Cat(Cat(Cat(o, a), b), c), d), e) = Cat(Cat(o, Cat(Cat(Cat(a, b), c), d)), e)
         /\ Cat(Cat(Cat(Cat(Cat(o, a), b), c), d), e) = Cat(Cat(Cat(o, a), b), Cat(Cat(c, d), e))
<1> DEFINE ab == Cat(a, b)
           abc == Cat(ab, c)
<1>1. ab \in Texts /\ abc \in Texts /\ Cat(o, a) \in Texts /\ Cat(c, d) \in Texts /\ Cat(Cat(o, a), b) \in Texts
  BY TextsJoin
<1>2. Cat(Cat(o, a), b) = Cat(o, ab)
  BY TextsJoin
<1> HIDE DEF ab
<1>3. Cat(Cat(o, ab), c) = Cat(o, abc)
  BY <1>1, TextsJoin
<1> HIDE DEF abc
<1>4. Cat(Cat(o, abc), d) = Cat(o, Cat(abc, d))
  BY <1>1, TextsJoin
<1>5. Cat(Cat(Cat(Cat(Cat(o, a), b), c), d), e) = Cat(Cat(Cat(o, a), b), Cat(Cat(c, d), e))
  <2> DEFINE x == Cat(Cat(o, a), b)
  <2>1. x \in Texts
    BY <1>1
  <2> HIDE DEF x
  <2>2. Cat(Cat(x, c), d) = Cat(x, Cat(c, d))
    BY <2>1, TextsJoin
  <2>3. Cat(Cat(x, Cat(c, d)), e) = Cat(x, Cat(Cat(c, d), e))
    BY <1>1, <2>1, TextsJoin
  <2>4. Cat(Cat(Cat(x, c), d), e) = Cat(x, Cat(Cat(c, d), e))
    BY <2>2, <2>3
  <2> QED BY <2>4 DEF x
<1> QED BY <1>2, <1>3, <1>4, <1>5 DEF ab, abc

\* The tags of the framers.
LEMMA NamesAreTags ==
  {"observation", "input", "output", "record", "title", "summary", "cluster", "candidate", "pool", "neighbor",
   "fact", "merge", "id", "keep_separate"} \subseteq TagNames
BY DEF TagNames, Signs

\* ------------------------------------------------------------------- events ---
EventBody(event) ==
  Cat(Element("input", event.input), IF event.output = <<>> THEN <<>> ELSE Element("output", event.output))

\* The observation of an event, and what is read in it (frameEvent).
LEMMA EventBodies ==
  ASSUME NEW event, event.input \in Texts, event.output \in Texts
  PROVE  /\ FrameEvent(event) = Frame("observation", EventBody(event))
         /\ EventBody(event) \in QuietTexts("observation")
         /\ TextIn(EventBody(event), "input") = event.input
         /\ TextIn(EventBody(event), "output") = event.output
<1> DEFINE in == event.input
           out == event.output
           I == Element("input", in)
           O == Element("output", out)
           last == IF out = <<>> THEN <<>> ELSE O
<1>0. /\ "observation" \in TagNames /\ "input" \in TagNames /\ "output" \in TagNames
      /\ "input" \in TagNames \ {"observation"} /\ "output" \in TagNames \ {"observation"}
      /\ "input" \in TagNames \ {"output"} /\ "output" \in TagNames \ {"input"}
  BY NamesAreTags
<1>1. I \in QuietTexts("observation") /\ O \in QuietTexts("observation")
  BY <1>0, ElementIsQuiet
<1>2. I \in QuietTexts("output") /\ O \in QuietTexts("input")
  BY <1>0, ElementIsQuiet
<1>3. Yields("input", I, <<EscapeXml(in)>>) /\ Yields("output", O, <<EscapeXml(out)>>)
  BY <1>0, ElementYields
<1>4. \A tag : <<>> \in QuietTexts(tag)
  BY QuietsJoin
<1>5. EventBody(event) = Cat(I, last)
  BY DEF EventBody
<1>6. FrameEvent(event) = Cat(Cat(Cat(OpenOf("observation"), I), last), CloseOf("observation"))
  BY DEF FrameEvent, Cat
<1> HIDE DEF in, out, I, O
<1>7. last \in QuietTexts("observation") /\ last \in QuietTexts("input") /\ I \in Texts /\ last \in Texts
  BY <1>1, <1>2, <1>4 DEF QuietTexts
<1>8. FrameEvent(event) = Frame("observation", EventBody(event))
  <2>1. OpenOf("observation") \in Texts /\ CloseOf("observation") \in Texts
    BY <1>0, TagsOf
  <2> HIDE DEF last
  <2> QED BY <1>5, <1>6, <1>7, <2>1, FourTexts DEF Frame
<1>9. EventBody(event) \in QuietTexts("observation")
  BY <1>1, <1>5, <1>7, QuietsJoin
<1>10. TextIn(EventBody(event), "input") = in
  <2> HIDE DEF last
  <2> DEFINE found == <<EscapeXml(in)>>
  <2>1. Yields("input", I, found)
    BY <1>3
  <2> HIDE DEF found
  <2>2. Yields("input", Cat(I, last), found)
    BY <1>0, <1>7, <2>1, YieldsBeside
  <2>3. in \in Texts
    BY DEF in
  <2> QED BY <1>0, <1>5, <2>2, <2>3, ReadsOne DEF found
<1>11. TextIn(EventBody(event), "output") = out
  <2>0. out \in Texts
    BY DEF out
  <2>1. CASE out = <<>>
    <3>1. last \in QuietTexts("output")
      BY <1>4, <2>1
    <3> HIDE DEF last
    <3>2. Cat(I, last) \in QuietTexts("output")
      BY <1>2, <3>1, QuietsJoin
    <3> QED BY <1>0, <1>5, <2>1, <3>2, ReadsNone
  <2>2. CASE out # <<>>
    <3> DEFINE found == <<EscapeXml(out)>>
    <3>1. Yields("output", last, found)
      BY <1>3, <2>2
    <3> HIDE DEF found, last
    <3>2. Yields("output", Cat(I, last), found)
      BY <1>0, <1>2, <3>1, YieldsBeside
    <3> QED BY <1>0, <1>5, <2>0, <3>2, ReadsOne DEF found
  <2> QED BY <2>1, <2>2
<1> QED BY <1>8, <1>9, <1>10, <1>11 DEF in, out

\* One observation for each event of the batch, each with its own input and output (frameBatch).
LEMMA EventsComeThrough ==
  ASSUME NEW entries \in Seq([input : Texts, output : Texts])
  PROVE  EventsStaySeparate(entries, FrameBatch(entries))
<1> DEFINE n == Len(entries)
           f == [i \in DOMAIN entries |-> FrameEvent(entries[i])]
           g == [i \in 1..n |-> EventBody(entries[i])]
<1>1. n \in Nat /\ DOMAIN entries = 1..n /\ \A i \in 1..n : entries[i].input \in Texts /\ entries[i].output \in Texts
  <2> DEFINE E == [input : Texts, output : Texts]
  <2>1. \A e \in E : e.input \in Texts /\ e.output \in Texts
    OBVIOUS
  <2>2. entries \in Seq(E)
    OBVIOUS
  <2> HIDE DEF E
  <2>3. n \in Nat /\ DOMAIN entries = 1..n /\ \A i \in 1..n : entries[i] \in E
    BY <2>2
  <2> QED BY <2>1, <2>3
<1>2. \A i \in 1..n : /\ FrameEvent(entries[i]) = Frame("observation", EventBody(entries[i]))
                      /\ EventBody(entries[i]) \in QuietTexts("observation")
                      /\ TextIn(EventBody(entries[i]), "input") = entries[i].input
                      /\ TextIn(EventBody(entries[i]), "output") = entries[i].output
  BY <1>1, EventBodies
<1>3. /\ f = [i \in 1..n |-> Frame("observation", g[i])]
      /\ g \in [1..n -> QuietTexts("observation")]
      /\ \A i \in 1..n : g[i] = EventBody(entries[i])
  BY <1>1, <1>2
<1>4. FrameBatch(entries) = FlattenSeq(f)
  BY DEF FrameBatch
<1>5. "observation" \in TagNames
  BY NamesAreTags
<1> HIDE DEF f, g, n
<1>6. Yields("observation", FlattenSeq(f), g)
  BY <1>1, <1>3, <1>5, FramesYield
<1>7. Between("observation", FrameBatch(entries)) = g
  BY <1>4, <1>5, <1>6, YieldsBetween
<1>8. Len(g) = n
  <2>1. DOMAIN g = 1..n /\ g \in Seq(Texts)
    BY <1>3, <1>6 DEF Yields
  <2> QED BY <1>1, <2>1
<1>9. \A i \in 1..n : TextIn(g[i], "input") = entries[i].input /\ TextIn(g[i], "output") = entries[i].output
  BY <1>2, <1>3
<1>10. n = Len(entries)
  BY DEF n
<1> QED BY <1>1, <1>7, <1>8, <1>9, <1>10 DEF EventsStaySeparate

\* ---------------------------------------------------------------- the judge ---
\* A frame shows the tags of what it holds, whatever its own tag.
LEMMA FrameShows ==
  ASSUME NEW tag \in TagNames, NEW other \in TagNames \ {tag}, NEW a, NEW g, Yields(tag, a, g)
  PROVE  Yields(tag, Frame(other, a), g)
<1>1. OpenOf(other) \in QuietTexts(tag) /\ CloseOf(other) \in QuietTexts(tag)
  BY QuietParts
<1>2. Yields(tag, Cat(OpenOf(other), a), g)
  BY <1>1, YieldsBeside
<1>3. Yields(tag, Cat(Cat(OpenOf(other), a), CloseOf(other)), g)
  BY <1>1, <1>2, YieldsBeside
<1> QED BY <1>3 DEF Frame

CandidateBody(c) == Cat(Element("title", c.title), Elements("fact", c.facts))

\* The element of a candidate or a neighbour, and what is read in it (frameJudgePrompt).
LEMMA CandidateBodies ==
  ASSUME NEW c, c.title \in Texts, c.facts \in Seq(Texts)
  PROVE  /\ \A tag \in TagNames \ {"title", "fact"} : CandidateBody(c) \in QuietTexts(tag)
         /\ TextIn(CandidateBody(c), "title") = c.title
         /\ TextsIn(CandidateBody(c), "fact") = c.facts
<1> DEFINE title == c.title
           facts == c.facts
           T == Element("title", title)
           F == Elements("fact", facts)
<1>0. /\ "title" \in TagNames /\ "fact" \in TagNames
      /\ "title" \in TagNames \ {"fact"} /\ "fact" \in TagNames \ {"title"}
      /\ title \in Texts /\ facts \in Seq(Texts)
  BY NamesAreTags
<1>1. CandidateBody(c) = Cat(T, F)
  BY DEF CandidateBody
<1> HIDE DEF title, facts
<1>2. ASSUME NEW tag \in TagNames \ {"title", "fact"} PROVE T \in QuietTexts(tag) /\ F \in QuietTexts(tag)
  <2>1. tag \in TagNames /\ "title" \in TagNames \ {tag} /\ "fact" \in TagNames \ {tag}
    BY <1>0
  <2> QED BY <1>0, <2>1, ElementIsQuiet
<1>3. T \in QuietTexts("fact") /\ F \in QuietTexts("title")
  BY <1>0, ElementIsQuiet
<1>4. Yields("title", T, <<EscapeXml(title)>>) /\ Yields("fact", F, Escaped(facts))
  BY <1>0, ElementYields, ElementsYield
<1> HIDE DEF T, F
<1>5. \A tag \in TagNames \ {"title", "fact"} : Cat(T, F) \in QuietTexts(tag)
  BY <1>2, QuietsJoin
<1>6. TextIn(Cat(T, F), "title") = title
  <2> DEFINE found == <<EscapeXml(title)>>
  <2>1. Yields("title", T, found)
    BY <1>4
  <2> HIDE DEF found
  <2>2. Yields("title", Cat(T, F), found)
    BY <1>0, <1>3, <2>1, YieldsBeside
  <2> QED BY <1>0, <2>2, ReadsOne DEF found
<1>7. TextsIn(Cat(T, F), "fact") = facts
  <2>1. Yields("fact", Cat(T, F), Escaped(facts))
    BY <1>0, <1>3, <1>4, YieldsBeside
  <2> QED BY <1>0, <2>1, ReadsEach
<1> QED BY <1>1, <1>5, <1>6, <1>7 DEF title, facts

\* The candidates or the neighbours of a prompt.
Listed(tag, cs) ==
  FlattenSeq([i \in DOMAIN cs |-> Cat(Cat(Cat(OpenOf(tag), Element("title", cs[i].title)), Elements("fact", cs[i].facts)),
                                      CloseOf(tag))])

\* Each of them is found, with its own title and facts.
LEMMA ListedYields ==
  ASSUME NEW tag \in TagNames \ {"title", "fact"}, NEW cs \in Seq([title : Texts, facts : Seq(Texts)])
  PROVE  /\ Yields(tag, Listed(tag, cs), [i \in 1..Len(cs) |-> CandidateBody(cs[i])])
         /\ \A other \in TagNames \ {"title", "fact", tag} : Listed(tag, cs) \in QuietTexts(other)
         /\ Len(cs) \in Nat /\ DOMAIN cs = 1..Len(cs)
         /\ \A i \in 1..Len(cs) : /\ TextIn(CandidateBody(cs[i]), "title") = cs[i].title
                                  /\ TextsIn(CandidateBody(cs[i]), "fact") = cs[i].facts
<1> DEFINE n == Len(cs)
           f == [i \in DOMAIN cs |-> Cat(Cat(Cat(OpenOf(tag), Element("title", cs[i].title)), Elements("fact", cs[i].facts)),
                                      CloseOf(tag))]
           g == [i \in 1..n |-> CandidateBody(cs[i])]
<1>0. tag \in TagNames
  OBVIOUS
<1>1. n \in Nat /\ DOMAIN cs = 1..n /\ \A i \in 1..n : cs[i].title \in Texts /\ cs[i].facts \in Seq(Texts)
  <2> DEFINE E == [title : Texts, facts : Seq(Texts)]
  <2>1. \A e \in E : e.title \in Texts /\ e.facts \in Seq(Texts)
    OBVIOUS
  <2>2. cs \in Seq(E)
    OBVIOUS
  <2> HIDE DEF E
  <2>3. n \in Nat /\ DOMAIN cs = 1..n /\ \A i \in 1..n : cs[i] \in E
    BY <2>2
  <2> QED BY <2>1, <2>3
<1>2. \A i \in 1..n : /\ \A other \in TagNames \ {"title", "fact"} : CandidateBody(cs[i]) \in QuietTexts(other)
                      /\ TextIn(CandidateBody(cs[i]), "title") = cs[i].title
                      /\ TextsIn(CandidateBody(cs[i]), "fact") = cs[i].facts
  BY <1>1, CandidateBodies
<1>3. \A i \in 1..n : f[i] = Frame(tag, CandidateBody(cs[i]))
  <2> SUFFICES ASSUME NEW i \in 1..n PROVE f[i] = Frame(tag, CandidateBody(cs[i]))
    OBVIOUS
  <2> DEFINE T == Element("title", cs[i].title)
             F == Elements("fact", cs[i].facts)
  <2>1. f[i] = Cat(Cat(Cat(OpenOf(tag), T), F), CloseOf(tag)) /\ CandidateBody(cs[i]) = Cat(T, F)
    BY <1>1 DEF CandidateBody
  <2>2. T \in Texts /\ F \in Texts
    BY <1>1, NamesAreTags, ElementYields, ElementsYield DEF Yields
  <2> HIDE DEF T, F, f
  <2>3. OpenOf(tag) \in Texts /\ CloseOf(tag) \in Texts
    BY <1>0, TagsOf
  <2> QED BY <2>1, <2>2, <2>3, FourTexts DEF Frame
<1>4. f = [i \in 1..n |-> Frame(tag, g[i])]
  <2>1. f = [i \in 1..n |-> f[i]]
    BY <1>1
  <2>2. \A i \in 1..n : g[i] = CandidateBody(cs[i])
    OBVIOUS
  <2> HIDE DEF f, g
  <2> QED BY <1>3, <2>1, <2>2
<1>5. \A other \in TagNames \ {"title", "fact"} : g \in [1..n -> QuietTexts(other)]
  BY <1>2
<1>6. Listed(tag, cs) = FlattenSeq(f)
  BY DEF Listed
<1> HIDE DEF f, g, n
<1>7. Yields(tag, FlattenSeq(f), g)
  BY <1>0, <1>1, <1>4, <1>5, FramesYield
<1>8. \A other \in TagNames \ {"title", "fact", tag} : FlattenSeq(f) \in QuietTexts(other)
  <2> SUFFICES ASSUME NEW other \in TagNames \ {"title", "fact", tag} PROVE FlattenSeq(f) \in QuietTexts(other)
    OBVIOUS
  <2>1. g \in [1..n -> QuietTexts(tag)] /\ g \in [1..n -> QuietTexts(other)] /\ other \in TagNames \ {tag}
    BY <1>5
  <2> QED BY <1>0, <1>1, <1>4, <2>1, FramesYield, ZenonT(60)
<1> QED BY <1>1, <1>2, <1>6, <1>7, <1>8 DEF n, g

\* The prompt shows the judge all candidates and all neighbours, and takes none for the other.
LEMMA PromptsComeThrough ==
  ASSUME NEW members \in Seq([title : Texts, facts : Seq(Texts)]), NEW neighbors \in Seq([title : Texts, facts : Seq(Texts)])
  PROVE  PromptIsComplete(members, neighbors, FrameJudgePrompt(members, neighbors))
<1> DEFINE M == Listed("candidate", members)
           N == Listed("neighbor", neighbors)
           xml == FrameJudgePrompt(members, neighbors)
           g == [i \in 1..Len(members) |-> CandidateBody(members[i])]
           h == [i \in 1..Len(neighbors) |-> CandidateBody(neighbors[i])]
<1>0. /\ "candidate" \in TagNames \ {"title", "fact"} /\ "neighbor" \in TagNames \ {"title", "fact"}
      /\ "candidate" \in TagNames /\ "neighbor" \in TagNames
      /\ "neighbor" \in TagNames \ {"title", "fact", "candidate"} /\ "candidate" \in TagNames \ {"title", "fact", "neighbor"}
      /\ "cluster" \in TagNames /\ "pool" \in TagNames
      /\ "cluster" \in TagNames \ {"candidate"} /\ "cluster" \in TagNames \ {"neighbor"}
      /\ "pool" \in TagNames \ {"candidate"} /\ "pool" \in TagNames \ {"neighbor"}
  BY NamesAreTags
<1>1. Yields("candidate", M, g) /\ M \in QuietTexts("neighbor")
  BY <1>0, ListedYields
<1>2. Yields("neighbor", N, h) /\ N \in QuietTexts("candidate")
  BY <1>0, ListedYields
<1>3. xml = Cat(Cat(Cat(Cat(Cat(OpenOf("cluster"), M), CloseOf("cluster")), OpenOf("pool")), N), CloseOf("pool"))
  BY DEF FrameJudgePrompt, Listed, Cat
<1> HIDE DEF M, N, xml
<1>4. xml = Cat(Frame("cluster", M), Frame("pool", N))
  <2>1. /\ OpenOf("cluster") \in Texts /\ CloseOf("cluster") \in Texts /\ OpenOf("pool") \in Texts
        /\ CloseOf("pool") \in Texts /\ M \in Texts /\ N \in Texts
    BY <1>0, <1>1, <1>2, TagsOf DEF QuietTexts
  <2> QED BY <1>3, <2>1, SixTexts, SMTT(60) DEF Frame
<1> HIDE DEF g, h
<1>5. Yields("candidate", xml, g)
  <2>1. Yields("candidate", Frame("cluster", M), g)
    BY <1>0, <1>1, FrameShows
  <2>2. Frame("pool", N) \in QuietTexts("candidate")
    BY <1>0, <1>2, FrameYields
  <2> QED BY <1>0, <1>4, <2>1, <2>2, YieldsBeside
<1>6. Yields("neighbor", xml, h)
  <2>1. Yields("neighbor", Frame("pool", N), h)
    BY <1>0, <1>2, FrameShows
  <2>2. Frame("cluster", M) \in QuietTexts("neighbor")
    BY <1>0, <1>1, FrameYields
  <2> QED BY <1>0, <1>4, <2>1, <2>2, YieldsBeside
<1>7. Between("candidate", xml) = g /\ Between("neighbor", xml) = h
  BY <1>0, <1>5, <1>6, YieldsBetween
<1>8. /\ [i \in DOMAIN g |-> TextIn(g[i], "title")] = [i \in DOMAIN members |-> members[i].title]
      /\ [i \in DOMAIN g |-> TextsIn(g[i], "fact")] = [i \in DOMAIN members |-> members[i].facts]
  <2> DEFINE n == Len(members)
  <2>1. /\ DOMAIN members = 1..n
        /\ \A i \in 1..n : /\ TextIn(CandidateBody(members[i]), "title") = members[i].title
                            /\ TextsIn(CandidateBody(members[i]), "fact") = members[i].facts
    BY <1>0, ListedYields
  <2>2. DOMAIN g = 1..n /\ \A i \in 1..n : g[i] = CandidateBody(members[i])
    BY DEF g
  <2> HIDE DEF n
  <2> QED BY <2>1, <2>2
<1>9. /\ [i \in DOMAIN h |-> TextIn(h[i], "title")] = [i \in DOMAIN neighbors |-> neighbors[i].title]
      /\ [i \in DOMAIN h |-> TextsIn(h[i], "fact")] = [i \in DOMAIN neighbors |-> neighbors[i].facts]
  <2> DEFINE n == Len(neighbors)
  <2>1. /\ DOMAIN neighbors = 1..n
        /\ \A i \in 1..n : /\ TextIn(CandidateBody(neighbors[i]), "title") = neighbors[i].title
                            /\ TextsIn(CandidateBody(neighbors[i]), "fact") = neighbors[i].facts
    BY <1>0, ListedYields
  <2>2. DOMAIN h = 1..n /\ \A i \in 1..n : h[i] = CandidateBody(neighbors[i])
    BY DEF h
  <2> HIDE DEF n
  <2> QED BY <2>1, <2>2
<1>10. PromptIsComplete(members, neighbors, xml)
  BY <1>7, <1>8, <1>9 DEF PromptIsComplete
<1> QED BY <1>10 DEF xml

\* ----------------------------------------------------------------- records ---
RecordBody(record) ==
  Cat(Cat(<<record.type>>, Element("title", record.title)), Element("summary", record.summary))

\* The first element of three texts.
LEMMA FirstOfThree ==
  ASSUME NEW x \in Signs, NEW a \in Texts, NEW b \in Texts
  PROVE  Cat(Cat(<<x>>, a), b) # <<>> /\ Cat(Cat(<<x>>, a), b)[1] = x
<1> DEFINE one == <<x>>
           u == Cat(one, a)
           w == Cat(u, b)
<1>1. one \in Texts /\ Len(one) = 1 /\ one[1] = x
  BY DEF Texts
<1>2. ASSUME NEW s \in Texts, NEW t \in Texts PROVE \A i \in 1..Len(s) : Cat(s, t)[i] = s[i]
  BY DEF Cat, Texts
<1> HIDE DEF one
<1>3. u \in Texts /\ Len(u) = 1 + Len(a) /\ Len(a) \in Nat /\ u[1] = x
  <2>1. 1 \in 1..Len(one)
    BY <1>1
  <2>2. u[1] = one[1]
    BY <1>1, <1>2, <2>1
  <2> HIDE DEF u
  <2>3. u \in Texts /\ Len(u) = Len(one) + Len(a) /\ Len(a) \in Nat
    BY <1>1, TextsJoin DEF u
  <2> QED BY <1>1, <2>2, <2>3
<1> HIDE DEF u
<1>4. w \in Texts /\ Len(w) = Len(u) + Len(b) /\ Len(b) \in Nat
  BY <1>3, TextsJoin
<1>5. 1 \in 1..Len(u)
  BY <1>3
<1>6. w[1] = x
  BY <1>2, <1>3, <1>5
<1> HIDE DEF w
<1>7. w # <<>>
  BY <1>3, <1>4
<1> QED BY <1>6, <1>7 DEF w, u, one

\* The block of a record, and what is read in it (parseMemoryXml).
LEMMA RecordBodies ==
  ASSUME NEW r, r.type \in Signs \ {"<"}, r.title \in Texts, r.summary \in Texts
  PROVE  /\ RecordXml(r) = Frame("record", RecordBody(r))
         /\ RecordBody(r) \in QuietTexts("record")
         /\ ExtractOne(RecordBody(r), "title") = Trim(r.title)
         /\ ExtractOne(RecordBody(r), "summary") = Trim(r.summary)
         /\ RecordBody(r) # <<>> /\ RecordBody(r)[1] = r.type
<1> DEFINE type == r.type
           title == r.title
           summary == r.summary
           Y == <<type>>
           T == Element("title", title)
           S == Element("summary", summary)
<1>0. /\ "record" \in TagNames /\ "title" \in TagNames /\ "summary" \in TagNames
      /\ "title" \in TagNames \ {"record"} /\ "summary" \in TagNames \ {"record"}
      /\ "title" \in TagNames \ {"summary"} /\ "summary" \in TagNames \ {"title"}
      /\ type \in Signs \ {"<"} /\ title \in Texts /\ summary \in Texts
  BY NamesAreTags
<1>1. RecordBody(r) = Cat(Cat(Y, T), S)
  BY DEF RecordBody
<1>2. RecordXml(r) = Cat(Cat(Cat(Cat(OpenOf("record"), Y), T), S), CloseOf("record"))
  BY DEF RecordXml, Cat
<1> HIDE DEF type, title, summary
<1>3. T \in QuietTexts("record") /\ S \in QuietTexts("record") /\ T \in QuietTexts("summary") /\ S \in QuietTexts("title")
  BY <1>0, ElementIsQuiet
<1>4. \A tag \in TagNames : Y \in QuietTexts(tag)
  BY <1>0, QuietParts
<1>5. Yields("title", T, <<EscapeXml(title)>>) /\ Yields("summary", S, <<EscapeXml(summary)>>)
  BY <1>0, ElementYields
<1>6. T \in Texts /\ S \in Texts /\ Y \in Texts
  BY <1>0, <1>3, <1>4 DEF QuietTexts
<1>7. Cat(Cat(Y, T), S) # <<>> /\ Cat(Cat(Y, T), S)[1] = type
  <2> HIDE DEF T, S
  <2> QED BY <1>0, <1>6, FirstOfThree
<1> HIDE DEF T, S, Y
<1>8. Cat(Cat(Y, T), S) \in QuietTexts("record")
  BY <1>0, <1>3, <1>4, QuietsJoin
<1>9. RecordXml(r) = Frame("record", RecordBody(r))
  <2>1. OpenOf("record") \in Texts /\ CloseOf("record") \in Texts
    BY <1>0, TagsOf
  <2> QED BY <1>1, <1>2, <1>6, <2>1, SixTexts DEF Frame
<1>10. ExtractOne(Cat(Cat(Y, T), S), "title") = Trim(title)
  <2> DEFINE found == <<EscapeXml(title)>>
  <2>1. Yields("title", T, found)
    BY <1>5
  <2> HIDE DEF found
  <2>2. Yields("title", Cat(Y, T), found)
    BY <1>0, <1>4, <2>1, YieldsBeside
  <2>3. Yields("title", Cat(Cat(Y, T), S), found)
    BY <1>0, <1>3, <2>2, YieldsBeside
  <2> QED BY <1>0, <2>3, ReadsOne DEF found
<1>11. ExtractOne(Cat(Cat(Y, T), S), "summary") = Trim(summary)
  <2> DEFINE found == <<EscapeXml(summary)>>
  <2>1. Yields("summary", S, found)
    BY <1>5
  <2> HIDE DEF found
  <2>2. Cat(Y, T) \in QuietTexts("summary")
    BY <1>0, <1>3, <1>4, QuietsJoin
  <2>3. Yields("summary", Cat(Cat(Y, T), S), found)
    BY <1>0, <2>1, <2>2, YieldsBeside
  <2> QED BY <1>0, <2>3, ReadsOne DEF found
<1> QED BY <1>1, <1>7, <1>8, <1>9, <1>10, <1>11 DEF title, summary, type

\* Of the records answered just the complete ones of a known type are taken, trimmed and cut.
LEMMA RecordsAreTaken ==
  ASSUME NEW records \in Seq([type : Signs \ {"<"}, title : Texts, summary : Texts])
  PROVE  RecordsComeThrough(records, ParseMemoryXml(FlattenSeq([i \in DOMAIN records |-> RecordXml(records[i])])))
<1> DEFINE n == Len(records)
           R == [type : Signs \ {"<"}, title : Texts, summary : Texts]
           f == [i \in DOMAIN records |-> RecordXml(records[i])]
           g == [i \in 1..n |-> RecordBody(records[i])]
           xml == FlattenSeq(f)
           places == {i \in 1..n : /\ records[i].type \in RecordTypes
                                   /\ Trim(records[i].title) # <<>> /\ Trim(records[i].summary) # <<>>}
<1>0. \A r \in R : /\ r.type \in Signs \ {"<"} /\ r.title \in Texts /\ r.summary \in Texts
  OBVIOUS
<1>1. n \in Nat /\ DOMAIN records = 1..n /\ \A i \in 1..n : records[i] \in R
  <2>1. records \in Seq(R)
    OBVIOUS
  <2> HIDE DEF R
  <2> QED BY <2>1
<1> HIDE DEF R
<1>2. \A i \in 1..n : /\ RecordXml(records[i]) = Frame("record", RecordBody(records[i]))
                      /\ RecordBody(records[i]) \in QuietTexts("record")
                      /\ ExtractOne(RecordBody(records[i]), "title") = Trim(records[i].title)
                      /\ ExtractOne(RecordBody(records[i]), "summary") = Trim(records[i].summary)
                      /\ RecordBody(records[i]) # <<>> /\ RecordBody(records[i])[1] = records[i].type
  BY <1>0, <1>1, RecordBodies
<1>3. /\ f = [i \in 1..n |-> Frame("record", g[i])]
      /\ g \in [1..n -> QuietTexts("record")]
      /\ \A i \in 1..n : g[i] = RecordBody(records[i])
  BY <1>1, <1>2
<1>4. "record" \in TagNames
  BY NamesAreTags
<1> HIDE DEF f, g, n
<1>5. Yields("record", xml, g)
  BY <1>1, <1>3, <1>4, FramesYield
<1>6. Between("record", xml) = g
  <2> HIDE DEF xml
  <2> QED BY <1>4, <1>5, YieldsBetween
<1> HIDE DEF xml
<1>7. {i \in DOMAIN g : /\ g[i] # <<>> /\ g[i][1] \in RecordTypes
                        /\ ExtractOne(g[i], "title") # <<>> /\ ExtractOne(g[i], "summary") # <<>>} = places
  <2>1. DOMAIN g = 1..n
    BY <1>3
  <2>2. \A i \in 1..n : (/\ g[i] # <<>> /\ g[i][1] \in RecordTypes
                         /\ ExtractOne(g[i], "title") # <<>> /\ ExtractOne(g[i], "summary") # <<>>)
                        <=> /\ records[i].type \in RecordTypes
                            /\ Trim(records[i].title) # <<>> /\ Trim(records[i].summary) # <<>>
    BY <1>2, <1>3
  <2> QED BY <2>1, <2>2
<1>8. {i \in DOMAIN records : /\ records[i].type \in RecordTypes
                              /\ Trim(records[i].title) # <<>> /\ Trim(records[i].summary) # <<>>} = places
  BY <1>1
<1>9. places \in SUBSET (1..n)
  OBVIOUS
<1> HIDE DEF places
<1> DEFINE order == Ascending(places)
           k == Len(order)
           blocks == Chosen(g, places)
           good == Chosen(records, places)
<1>10. /\ k \in Nat /\ \A i \in 1..k : order[i] \in places
       /\ blocks = [i \in 1..k |-> g[order[i]]]
       /\ good = [i \in 1..k |-> records[order[i]]]
  BY <1>1, <1>9, AtPlaces
<1>11. ParseMemoryXml(xml) = [i \in DOMAIN blocks |-> [type |-> blocks[i][1],
                               title |-> CutTo(ExtractOne(blocks[i], "title"), MaxTitle),
                               summary |-> CutTo(ExtractOne(blocks[i], "summary"), MaxSummary)]]
  BY <1>6, <1>7 DEF ParseMemoryXml
<1>12. RecordsComeThrough(records, ParseMemoryXml(xml))
         <=> ParseMemoryXml(xml) = [i \in DOMAIN good |-> [type |-> good[i].type, title |-> CutTo(Trim(good[i].title), MaxTitle),
                          summary |-> CutTo(Trim(good[i].summary), MaxSummary)]]
  BY <1>8 DEF RecordsComeThrough
<1> HIDE DEF order, k, blocks, good
<1>13. DOMAIN blocks = 1..k /\ DOMAIN good = 1..k
       /\ \A i \in 1..k : blocks[i] = g[order[i]] /\ good[i] = records[order[i]]
  BY <1>10
<1>14. \A i \in 1..k : [type |-> blocks[i][1], title |-> CutTo(ExtractOne(blocks[i], "title"), MaxTitle),
                        summary |-> CutTo(ExtractOne(blocks[i], "summary"), MaxSummary)]
                       = [type |-> good[i].type, title |-> CutTo(Trim(good[i].title), MaxTitle),
                          summary |-> CutTo(Trim(good[i].summary), MaxSummary)]
  <2> SUFFICES ASSUME NEW i \in 1..k
               PROVE  [type |-> blocks[i][1], title |-> CutTo(ExtractOne(blocks[i], "title"), MaxTitle),
                        summary |-> CutTo(ExtractOne(blocks[i], "summary"), MaxSummary)]
                       = [type |-> good[i].type, title |-> CutTo(Trim(good[i].title), MaxTitle),
                          summary |-> CutTo(Trim(good[i].summary), MaxSummary)]
    OBVIOUS
  <2> DEFINE j == order[i]
             r == records[j]
  <2>1. j \in 1..n
    BY <1>9, <1>10
  <2>2. r \in R /\ blocks[i] = RecordBody(r) /\ good[i] = r
    BY <1>1, <1>3, <1>13, <2>1
  <2>3. blocks[i][1] = r.type /\ ExtractOne(blocks[i], "title") = Trim(r.title)
        /\ ExtractOne(blocks[i], "summary") = Trim(r.summary)
    BY <1>2, <2>1, <2>2
  <2> HIDE DEF r
  <2> QED BY <2>2, <2>3
<1>15. RecordsComeThrough(records, ParseMemoryXml(xml))
  BY <1>11, <1>12, <1>13, <1>14
<1> QED BY <1>15 DEF xml, f

\* ------------------------------------------------------------------ merges ---
LEMMA FindsNothing ==
  ASSUME NEW tag \in TagNames, NEW a \in QuietTexts(tag)
  PROVE  Find(OpenOf(tag), a, 1) = 0
<1> DEFINE O == OpenOf(tag)
           i == Find(O, a, 1)
<1>1. a \in Texts /\ Quiet(a, tag) /\ <<>> \in Texts
  BY TextsJoin DEF QuietTexts
<1>2. Middle(a, <<>>, a, <<>>)
  <2>1. Middle((<<>> \o a) \o <<>>, <<>>, a, <<>>)
    BY <1>1, InTheMiddle
  <2>2. (<<>> \o a) \o <<>> = a
    BY <1>1, ConcatEmptySeq DEF Texts
  <2> QED BY <2>1, <2>2
<1>3. \A k \in 1..Len(a) : ~IsAt(O, a, k)
  <2>1. Len(a) \in Nat /\ Len(<<>>) = 0
    BY <1>1 DEF Texts
  <2> DEFINE e == <<>>
  <2>2. Middle(a, e, a, e) /\ Len(e) = 0
    BY <1>2, <2>1
  <2> HIDE DEF e
  <2>3. \A k \in Len(e) + 1..Len(e) + Len(a) : ~IsAt(O, a, k)
    BY <1>1, <2>2, QuietInTheMiddle
  <2> QED BY <2>1, <2>2, <2>3
<1>4. O \in Seq(Signs) /\ O # <<>> /\ Len(O) = 2
  BY TagsOf DEF Texts
<1> HIDE DEF O
<1>5. FirstFound(i, O, a, 1)
  BY <1>1, <1>4, FindIsFirst DEF Texts
<1> HIDE DEF i
<1>6. ~(IsAt(O, a, i) /\ i >= 1)
  <2>1. IsAt(O, a, i) /\ i >= 1 /\ i \in Nat => i \in 1..Len(a)
    BY <1>1, <1>4 DEF IsAt, Texts
  <2> QED BY <1>3, <2>1, <1>5 DEF FirstFound, IsAt
<1> QED BY <1>5, <1>6 DEF FirstFound, i, O

MergeBody(answer) ==
  Cat(Cat(Cat(Elements("id", answer.ids), Element("title", answer.title)), Element("summary", answer.summary)),
      Elements("fact", answer.facts))

\* The body of a merge, and what is read in it (parseJudgeResponse).
LEMMA MergeBodies ==
  ASSUME NEW a, a.ids \in Seq(Texts), a.title \in Texts, a.summary \in Texts, a.facts \in Seq(Texts)
  PROVE  /\ MergeXml(a) = Frame("merge", MergeBody(a))
         /\ MergeBody(a) \in QuietTexts("merge") /\ MergeBody(a) \in QuietTexts("keep_separate")
         /\ ExtractAll(MergeBody(a), "id") = NotEmpty(Trimmed(a.ids))
         /\ ExtractOne(MergeBody(a), "title") = Trim(a.title)
         /\ ExtractOne(MergeBody(a), "summary") = Trim(a.summary)
         /\ ExtractAll(MergeBody(a), "fact") = NotEmpty(Trimmed(a.facts))
<1> DEFINE ids == a.ids
           title == a.title
           summary == a.summary
           facts == a.facts
           I == Elements("id", ids)
           T == Element("title", title)
           S == Element("summary", summary)
           F == Elements("fact", facts)
           IT == Cat(I, T)
           ITS == Cat(IT, S)
           B == Cat(ITS, F)
<1>0. /\ "merge" \in TagNames /\ "id" \in TagNames /\ "title" \in TagNames /\ "summary" \in TagNames /\ "fact" \in TagNames
      /\ "keep_separate" \in TagNames
      /\ ids \in Seq(Texts) /\ title \in Texts /\ summary \in Texts /\ facts \in Seq(Texts)
  BY NamesAreTags
<1>1. MergeBody(a) = B
  BY DEF MergeBody
<1>2. MergeXml(a) = Cat(Cat(Cat(Cat(Cat(OpenOf("merge"), I), T), S), F), CloseOf("merge"))
  BY DEF MergeXml, Cat
<1> HIDE DEF ids, title, summary, facts
<1>3. ASSUME NEW tag \in TagNames
      PROVE  /\ tag # "id" => I \in QuietTexts(tag)
             /\ tag # "title" => T \in QuietTexts(tag)
             /\ tag # "summary" => S \in QuietTexts(tag)
             /\ tag # "fact" => F \in QuietTexts(tag)
  <2>1. ASSUME tag # "id" PROVE I \in QuietTexts(tag)
    <3>1. "id" \in TagNames \ {tag}
      BY <1>0, <2>1
    <3> QED BY <1>0, <3>1, ElementIsQuiet
  <2>2. ASSUME tag # "title" PROVE T \in QuietTexts(tag)
    <3>1. "title" \in TagNames \ {tag}
      BY <1>0, <2>2
    <3> QED BY <1>0, <3>1, ElementIsQuiet
  <2>3. ASSUME tag # "summary" PROVE S \in QuietTexts(tag)
    <3>1. "summary" \in TagNames \ {tag}
      BY <1>0, <2>3
    <3> QED BY <1>0, <3>1, ElementIsQuiet
  <2>4. ASSUME tag # "fact" PROVE F \in QuietTexts(tag)
    <3>1. "fact" \in TagNames \ {tag}
      BY <1>0, <2>4
    <3> QED BY <1>0, <3>1, ElementIsQuiet
  <2> QED BY <2>1, <2>2, <2>3, <2>4
<1>4. /\ Yields("id", I, Escaped(ids)) /\ Yields("title", T, <<EscapeXml(title)>>)
      /\ Yields("summary", S, <<EscapeXml(summary)>>) /\ Yields("fact", F, Escaped(facts))
  BY <1>0, ElementYields, ElementsYield
<1> HIDE DEF I, T, S, F
<1>5. ASSUME NEW tag \in TagNames
      PROVE  /\ tag \notin {"id", "title"} => IT \in QuietTexts(tag)
             /\ tag \notin {"id", "title", "summary"} => ITS \in QuietTexts(tag)
             /\ tag \notin {"id", "title", "summary", "fact"} => B \in QuietTexts(tag)
  BY <1>3, QuietsJoin
<1>6. I \in Texts /\ T \in Texts /\ S \in Texts /\ F \in Texts
  BY <1>4 DEF Yields
<1>7. MergeXml(a) = Frame("merge", B)
  <2>1. OpenOf("merge") \in Texts /\ CloseOf("merge") \in Texts
    BY <1>0, TagsOf
  <2> QED BY <1>2, <1>6, <2>1, SixTexts, SMTT(60) DEF Frame
<1>8. B \in QuietTexts("merge") /\ B \in QuietTexts("keep_separate")
  BY <1>0, <1>5
<1>9. IT \in QuietTexts("summary") /\ IT \in QuietTexts("fact") /\ ITS \in QuietTexts("fact")
  BY <1>0, <1>5
<1>10. /\ T \in QuietTexts("id") /\ S \in QuietTexts("id") /\ F \in QuietTexts("id")
       /\ I \in QuietTexts("title") /\ S \in QuietTexts("title") /\ F \in QuietTexts("title")
       /\ F \in QuietTexts("summary")
  BY <1>0, <1>3
<1> HIDE DEF IT, ITS, B
<1>11. ExtractAll(B, "id") = NotEmpty(Trimmed(ids))
  <2>1. Yields("id", IT, Escaped(ids))
    BY <1>0, <1>4, <1>10, YieldsBeside DEF IT
  <2>2. Yields("id", ITS, Escaped(ids))
    BY <1>0, <1>10, <2>1, YieldsBeside DEF ITS
  <2>3. Yields("id", B, Escaped(ids))
    BY <1>0, <1>10, <2>2, YieldsBeside DEF B
  <2> QED BY <1>0, <2>3, ExtractsAll
<1>12. ExtractOne(B, "title") = Trim(title)
  <2> DEFINE found == <<EscapeXml(title)>>
  <2>0. Yields("title", T, found)
    BY <1>4
  <2> HIDE DEF found
  <2>1. Yields("title", IT, found)
    BY <1>0, <1>10, <2>0, YieldsBeside DEF IT
  <2>2. Yields("title", ITS, found)
    BY <1>0, <1>10, <2>1, YieldsBeside DEF ITS
  <2>3. Yields("title", B, found)
    BY <1>0, <1>10, <2>2, YieldsBeside DEF B
  <2> QED BY <1>0, <2>3, ReadsOne DEF found
<1>13. ExtractOne(B, "summary") = Trim(summary)
  <2> DEFINE found == <<EscapeXml(summary)>>
  <2>0. Yields("summary", S, found)
    BY <1>4
  <2> HIDE DEF found
  <2>1. Yields("summary", ITS, found)
    BY <1>0, <1>9, <2>0, YieldsBeside DEF ITS
  <2>2. Yields("summary", B, found)
    BY <1>0, <1>10, <2>1, YieldsBeside DEF B
  <2> QED BY <1>0, <2>2, ReadsOne DEF found
<1>14. ExtractAll(B, "fact") = NotEmpty(Trimmed(facts))
  <2>1. Yields("fact", B, Escaped(facts))
    BY <1>0, <1>4, <1>9, YieldsBeside DEF B
  <2> QED BY <1>0, <2>1, ExtractsAll
<1> QED BY <1>1, <1>7, <1>8, <1>11, <1>12, <1>13, <1>14 DEF ids, title, summary, facts

\* A merge is read as that merge, also when its text quotes the tag of the opposite.
LEMMA MergesComeThrough ==
  ASSUME NEW a \in [ids : Seq(Texts), title : Texts, summary : Texts, facts : Seq(Texts)]
  PROVE  MergesAreUnderstood(a, ParseJudgeResponse(MergeXml(a)))
<1> DEFINE B == MergeBody(a)
           xml == MergeXml(a)
           merge == Between("merge", xml)
<1>0. /\ "merge" \in TagNames /\ "keep_separate" \in TagNames
      /\ "merge" \in TagNames \ {"keep_separate"}
  BY NamesAreTags
<1>1. /\ xml = Frame("merge", B)
      /\ B \in QuietTexts("merge") /\ B \in QuietTexts("keep_separate")
      /\ ExtractAll(B, "id") = NotEmpty(Trimmed(a.ids))
      /\ ExtractOne(B, "title") = Trim(a.title)
      /\ ExtractOne(B, "summary") = Trim(a.summary)
      /\ ExtractAll(B, "fact") = NotEmpty(Trimmed(a.facts))
  BY MergeBodies
<1> HIDE DEF B, xml
<1>2. merge = <<B>>
  <2> DEFINE one == <<B>>
  <2>1. Yields("merge", xml, one)
    BY <1>0, <1>1, FrameYields
  <2> HIDE DEF one
  <2>2. merge = one
    BY <1>0, <2>1, YieldsBetween
  <2> QED BY <2>2 DEF one
<1> HIDE DEF merge
<1>3. merge # <<>> /\ merge[1] = B
  BY <1>2
<1>4. Find(OpenOf("keep_separate"), xml, 1) = 0
  <2>1. xml \in QuietTexts("keep_separate")
    BY <1>0, <1>1, FrameYields
  <2> QED BY <1>0, <2>1, FindsNothing
<1>5. ParseJudgeResponse(xml) =
        IF NotEmpty(Trimmed(a.ids)) = <<>> THEN NoAnswer
        ELSE IF Trim(a.title) = <<>> \/ Trim(a.summary) = <<>> THEN NoAnswer
        ELSE [kind |-> "merge", ids |-> NotEmpty(Trimmed(a.ids)), title |-> Trim(a.title),
              summary |-> Trim(a.summary), facts |-> NotEmpty(Trimmed(a.facts))]
  BY <1>1, <1>3, <1>4 DEF ParseJudgeResponse, merge
<1>6. MergesAreUnderstood(a, ParseJudgeResponse(xml))
  BY <1>5 DEF MergesAreUnderstood
<1> QED BY <1>6 DEF xml
==============================================================================
