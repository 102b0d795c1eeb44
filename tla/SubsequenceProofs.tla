------------------------- MODULE SubsequenceProofs -------------------------
(***************************************************************************)
(* Facts about Picked and Without, for every sequence.                     *)
(*                                                                         *)
(* Picked is computed by a recursive function, and an induction on its     *)
(* argument is made by hand: of the numbers where a claim fails there is a *)
(* least one (LeastNumber), and it fails at no number.                     *)
(***************************************************************************)
EXTENDS Subsequence, SequencesExt, FiniteSetTheorems, WellFoundedInduction, TLAPS

\* Every set of numbers that is not empty has a least element.
LEMMA LeastNumber ==
    ASSUME NEW T, T \subseteq Nat, T # {}
    PROVE  \E x \in T : \A y \in T : x <= y
<1>1. PICK x \in T : \A y \in T : ~(<<y, x>> \in OpToRel(<, Nat))
  BY NatLessThanWellFounded, WFMin
<1>2. \A y \in T : y < x => <<y, x>> \in OpToRel(<, Nat)
  BY DEF OpToRel
<1>3. \A y \in T : ~(y < x)
  BY <1>1, <1>2, Zenon
<1>4. QED
  BY <1>3

\* The value of upTo at n, given the one at n - 1.
Next1(s, places, n, before) ==
    IF n = 0 THEN <<>> ELSE IF n \in places THEN Append(before, s[n]) ELSE before

UpTo(s, places, m) == CHOOSE f : f = [n \in 0..m |-> Next1(s, places, n, f[n - 1])]

LEMMA UpToIsDefined ==
    ASSUME NEW S, NEW s \in Seq(S), NEW places, NEW m \in Nat
    PROVE  UpTo(s, places, m) = [n \in 0..m |-> Next1(s, places, n, UpTo(s, places, m)[n - 1])]
<1> DEFINE Is(k, f) == f = [n \in 0..k |-> Next1(s, places, n, f[n - 1])]
           Bad == {k \in Nat : ~ \E f : Is(k, f)}
<1>1. \E f : Is(0, f)
  <2> WITNESS [n \in 0..0 |-> <<>>]
  <2>1. QED
    BY DEF Next1
<1>2. ASSUME NEW k \in Nat, NEW f, Is(k, f) PROVE \E g : Is(k + 1, g)
  <2> DEFINE g == [n \in 0..(k + 1) |-> IF n <= k THEN f[n] ELSE Next1(s, places, n, f[k])]
  <2>1. ASSUME NEW n \in 0..(k + 1) PROVE g[n] = Next1(s, places, n, g[n - 1])
    <3>1. CASE n = 0
      BY <1>2, <3>1 DEF Next1
    <3>2. CASE n \in 1..k
      <4>1. f[n] = Next1(s, places, n, f[n - 1])
        BY <1>2, <3>2
      <4>2. g[n] = f[n] /\ g[n - 1] = f[n - 1]
        BY <3>2
      <4>3. QED
        BY <4>1, <4>2
    <3>3. CASE n = k + 1
      <4>1. n - 1 = k
        BY <3>3
      <4>2. g[k] = f[k]
        OBVIOUS
      <4>3. g[n] = Next1(s, places, n, f[k])
        BY <3>3
      <4>4. QED
        BY <4>1, <4>2, <4>3
    <3>4. QED
      BY <3>1, <3>2, <3>3
  <2>2. Is(k + 1, g)
    <3> HIDE DEF g
    <3>1. g = [n \in 0..(k + 1) |-> g[n]]
      BY DEF g
    <3>2. QED
      BY <2>1, <3>1
  <2>3. QED
    BY <2>2
<1>3. Bad = {}
  <2> SUFFICES ASSUME Bad # {} PROVE FALSE
    OBVIOUS
  <2>1. Bad \subseteq Nat
    OBVIOUS
  <2>2. PICK k \in Bad : \A j \in Bad : k <= j
    <3> HIDE DEF Bad
    <3> QED BY <2>1, LeastNumber
  <2>3. k \in Nat /\ k # 0
    BY <1>1
  <2>4. k - 1 \in Nat /\ k - 1 \notin Bad
    BY <2>2, <2>3
  <2>5. PICK f : Is(k - 1, f)
    BY <2>4
  <2>6. \E g : Is((k - 1) + 1, g)
    <3> HIDE DEF Is, Bad
    <3> QED BY <1>2, <2>4, <2>5
  <2>7. QED
    BY <2>3, <2>6
<1>4. QED
  <2>1. \E f : Is(m, f)
    BY <1>3
  <2>2. QED
    BY <2>1 DEF UpTo

LEMMA PickedIsUpTo ==
    ASSUME NEW s, NEW places PROVE Picked(s, places) = UpTo(s, places, Len(s))[Len(s)]
BY DEF Picked, UpTo, Next1

-----------------------------------------------------------------------------
\* p is what s has at those of the places that are at most n, in order, and
\* at[j] is the place p[j] comes from.
InOrder(s, places, n, p, at) ==
    /\ at \in [1..Len(p) -> places \cap (1..n)]
    /\ \A i, j \in 1..Len(p) : i < j => at[i] < at[j]
    /\ \A i \in places \cap (1..n) : \E j \in 1..Len(p) : at[j] = i
    /\ \A j \in 1..Len(p) : p[j] = s[at[j]]

LEMMA InOrderStart ==
    ASSUME NEW s, NEW places PROVE \E at : InOrder(s, places, 0, <<>>, at)
<1> WITNESS [j \in {} |-> j]
<1> QED
  BY DEF InOrder

\* One step of upTo.
LEMMA InOrderStep ==
    ASSUME NEW S, NEW s \in Seq(S), NEW places, NEW n \in 1..Len(s),
           NEW p \in Seq(S), \E at : InOrder(s, places, n - 1, p, at)
    PROVE  LET q == Next1(s, places, n, p)
           IN  q \in Seq(S) /\ \E at : InOrder(s, places, n, q, at)
<1>1. PICK at : InOrder(s, places, n - 1, p, at)
  OBVIOUS
<1>2. CASE n \notin places
  <2>1. Next1(s, places, n, p) = p
    BY <1>2 DEF Next1
  <2>2. InOrder(s, places, n, p, at)
    <3>1. places \cap (1..n) = places \cap (1..(n - 1))
      BY <1>2
    <3>2. QED
      BY <1>1, <3>1 DEF InOrder
  <2>3. QED
    BY <2>1, <2>2
<1>3. CASE n \in places
  <2> DEFINE q == Append(p, s[n])
             to == [j \in 1..Len(q) |-> IF j <= Len(p) THEN at[j] ELSE n]
  <2>1. Next1(s, places, n, p) = q /\ q \in Seq(S)
    BY <1>3 DEF Next1
  <2>2. Len(q) = Len(p) + 1 /\ Len(p) \in Nat /\ q[Len(p) + 1] = s[n]
        /\ \A j \in 1..Len(p) : q[j] = p[j]
    OBVIOUS
  <2>3. \A j \in 1..Len(p) : to[j] = at[j] /\ at[j] \in places /\ at[j] \in 1..(n - 1)
    BY <1>1, <2>2 DEF InOrder
  <2>4. to[Len(p) + 1] = n
    BY <2>2
  <2>5. to \in [1..Len(q) -> places \cap (1..n)]
    BY <1>3, <2>2, <2>3, <2>4
  <2>6. \A i, j \in 1..Len(q) : i < j => to[i] < to[j]
    <3> SUFFICES ASSUME NEW i \in 1..Len(q), NEW j \in 1..Len(q), i < j PROVE to[i] < to[j]
      OBVIOUS
    <3>1. i \in 1..Len(p)
      BY <2>2
    <3>2. CASE j \in 1..Len(p)
      BY <1>1, <2>3, <3>1, <3>2 DEF InOrder
    <3>3. CASE j = Len(p) + 1
      <4>1. to[i] \in 1..(n - 1)
        BY <2>3, <3>1
      <4>2. to[j] = n
        BY <2>4, <3>3
      <4> HIDE DEF to
      <4>3. QED
        BY <4>1, <4>2
    <3>4. QED
      BY <2>2, <3>2, <3>3
  <2>7. \A i \in places \cap (1..n) : \E j \in 1..Len(q) : to[j] = i
    <3> SUFFICES ASSUME NEW i \in places \cap (1..n) PROVE \E j \in 1..Len(q) : to[j] = i
      OBVIOUS
    <3>1. CASE i = n
      BY <2>2, <2>4, <3>1
    <3>2. CASE i # n
      <4>1. PICK j \in 1..Len(p) : at[j] = i
        BY <1>1, <3>2 DEF InOrder
      <4>2. QED
        BY <2>2, <2>3, <4>1
    <3>3. QED
      BY <3>1, <3>2
  <2>8. \A j \in 1..Len(q) : q[j] = s[to[j]]
    BY <1>1, <2>2, <2>3, <2>4 DEF InOrder
  <2>9. InOrder(s, places, n, q, to)
    <3> HIDE DEF q, to
    <3> QED BY <2>5, <2>6, <2>7, <2>8 DEF InOrder
  <2>10. QED
    BY <2>1, <2>9
<1>4. QED
  BY <1>2, <1>3

\* Picked gives the elements of s at the places, each once and in order.
LEMMA PickedIsInOrder ==
    ASSUME NEW S, NEW s \in Seq(S), NEW places
    PROVE  /\ Picked(s, places) \in Seq(S)
           /\ \E at : InOrder(s, places, Len(s), Picked(s, places), at)
<1> DEFINE f == UpTo(s, places, Len(s))
           Good(n) == f[n] \in Seq(S) /\ \E at : InOrder(s, places, n, f[n], at)
           Bad == {n \in 0..Len(s) : ~Good(n)}
<1>1. \A n \in 0..Len(s) : f[n] = Next1(s, places, n, f[n - 1])
  <2>1. f = [n \in 0..Len(s) |-> Next1(s, places, n, f[n - 1])]
    BY UpToIsDefined
  <2> HIDE DEF f
  <2>2. QED
    BY <2>1
<1> HIDE DEF f
<1>2. Good(0)
  <2>1. f[0] = <<>>
    BY <1>1 DEF Next1
  <2>2. QED
    BY <2>1, InOrderStart
<1>3. ASSUME NEW n \in 1..Len(s), Good(n - 1) PROVE Good(n)
  <2>1. f[n] = Next1(s, places, n, f[n - 1])
    BY <1>1
  <2>2. QED
    BY <1>3, <2>1, InOrderStep
<1>4. Bad = {}
  <2> SUFFICES ASSUME Bad # {} PROVE FALSE
    OBVIOUS
  <2>1. PICK n \in Bad : \A j \in Bad : n <= j
    <3>1. Bad \subseteq Nat
      OBVIOUS
    <3> HIDE DEF Bad
    <3>2. QED
      BY <3>1, LeastNumber
  <2>2. n \in 1..Len(s)
    BY <1>2
  <2>3. Good(n - 1)
    <3>1. n - 1 \in 0..Len(s) /\ ~(n <= n - 1)
      BY <2>2
    <3> HIDE DEF Good
    <3>2. QED
      BY <2>1, <3>1
  <2> HIDE DEF Good
  <2>4. Good(n)
    BY <1>3, <2>2, <2>3
  <2>5. QED
    BY <2>4
<1>5. Good(Len(s))
  BY <1>4
<1>6. QED
  BY <1>5, PickedIsUpTo DEF f

\* Without(s, e) has the elements of s but e.
LEMMA WithoutIs ==
    ASSUME NEW S, NEW s \in Seq(S), NEW e
    PROVE  /\ Without(s, e) \in Seq(S)
           /\ ToSet(Without(s, e)) = ToSet(s) \ {e}
<1> DEFINE places == {i \in DOMAIN s : s[i] # e}
           p == Picked(s, places)
<1>1. p \in Seq(S) /\ Without(s, e) = p
  BY PickedIsInOrder DEF Without
<1>2. PICK at : InOrder(s, places, Len(s), p, at)
  BY PickedIsInOrder
<1>3. ASSUME NEW j \in 1..Len(p) PROVE p[j] \in ToSet(s) \ {e}
  <2>1. at[j] \in places /\ p[j] = s[at[j]]
    BY <1>2 DEF InOrder
  <2>2. QED
    BY <2>1 DEF ToSet
<1>4. ASSUME NEW i \in DOMAIN s, s[i] # e PROVE \E j \in 1..Len(p) : p[j] = s[i]
  <2>1. i \in places \cap (1..Len(s))
    BY <1>4
  <2>2. QED
    BY <1>2, <2>1 DEF InOrder
<1>5. DOMAIN p = 1..Len(p)
  BY <1>1
<1> HIDE DEF p
<1>6. ToSet(p) \subseteq ToSet(s) \ {e}
  BY <1>3, <1>5 DEF ToSet
<1>7. ToSet(s) \ {e} \subseteq ToSet(p)
  BY <1>4, <1>5 DEF ToSet
<1>8. QED
  BY <1>1, <1>6, <1>7

\* What occurs once in s occurs once in Without(s, e).
LEMMA WithoutKeepsInjective ==
    ASSUME NEW S, NEW s \in Seq(S), NEW e, IsInjective(s)
    PROVE  IsInjective(Without(s, e))
<1> DEFINE places == {i \in DOMAIN s : s[i] # e}
           p == Picked(s, places)
<1>1. p \in Seq(S) /\ Without(s, e) = p
  BY PickedIsInOrder DEF Without
<1>2. PICK at : InOrder(s, places, Len(s), p, at)
  BY PickedIsInOrder
<1>3. DOMAIN p = 1..Len(p) /\ Len(p) \in Nat /\ DOMAIN s = 1..Len(s) /\ Len(s) \in Nat
  BY <1>1
<1> HIDE DEF p
<1>4. ASSUME NEW i \in DOMAIN p, NEW j \in DOMAIN p, p[i] = p[j] PROVE i = j
  <2>1. s[at[i]] = s[at[j]] /\ at[i] \in DOMAIN s /\ at[j] \in DOMAIN s
    BY <1>2, <1>3, <1>4 DEF InOrder
  <2>2. at[i] = at[j] /\ at[i] \in Nat
    BY <1>3, <2>1 DEF IsInjective
  <2>3. QED
    BY <1>2, <1>3, <2>2 DEF InOrder
<1>5. QED
  BY <1>1, <1>4 DEF IsInjective

LEMMA EmptySequence == ASSUME NEW S, NEW s \in Seq(S) PROVE Len(s) = 0 <=> s = <<>>
OBVIOUS

\* What ToSet says of the sequences the steps build.
LEMMA ToSetOfParts ==
    ASSUME NEW S, NEW s \in Seq(S), NEW t \in Seq(S), NEW e \in S
    PROVE  /\ ToSet(s \o t) = ToSet(s) \cup ToSet(t)
           /\ ToSet(Append(s, e)) = ToSet(s) \cup {e}
           /\ s # <<>> => ToSet(s) = {Head(s)} \cup ToSet(Tail(s))
           /\ ToSet(<<>>) = {}
<1>1. ASSUME NEW x PROVE x \in ToSet(s) <=> \E i \in 1..Len(s) : s[i] = x
  BY DEF ToSet
<1>2. ToSet(s \o t) = ToSet(s) \cup ToSet(t)
  <2>1. s \o t \in Seq(S) /\ Len(s \o t) = Len(s) + Len(t)
    OBVIOUS
  <2>2. \A i \in 1..Len(s) : (s \o t)[i] = s[i]
    OBVIOUS
  <2>3. \A i \in 1..Len(t) : (s \o t)[Len(s) + i] = t[i]
    OBVIOUS
  <2>4. \A i \in 1..Len(s \o t) : i \in 1..Len(s) \/ \E j \in 1..Len(t) : i = Len(s) + j
    <3> SUFFICES ASSUME NEW i \in 1..Len(s \o t), i \notin 1..Len(s)
                 PROVE \E j \in 1..Len(t) : i = Len(s) + j
      OBVIOUS
    <3> WITNESS i - Len(s) \in 1..Len(t)
    <3> QED OBVIOUS
  <2>5. \A i \in 1..Len(t) : Len(s) + i \in 1..Len(s \o t)
    BY <2>1
  <2>6. \A i \in 1..Len(s) : i \in 1..Len(s \o t)
    BY <2>1
  <2>7. DOMAIN s = 1..Len(s) /\ DOMAIN t = 1..Len(t) /\ DOMAIN (s \o t) = 1..Len(s \o t)
    OBVIOUS
  <2>8. ToSet(s \o t) \subseteq ToSet(s) \cup ToSet(t)
    BY <2>2, <2>3, <2>4, <2>7 DEF ToSet
  <2>9. ToSet(s) \cup ToSet(t) \subseteq ToSet(s \o t)
    BY <2>2, <2>3, <2>5, <2>6, <2>7, Zenon DEF ToSet
  <2>10. QED
    BY <2>8, <2>9
<1>3. ToSet(Append(s, e)) = ToSet(s) \cup {e}
  <2>1. /\ DOMAIN Append(s, e) = 1..(Len(s) + 1)
        /\ DOMAIN s = 1..Len(s)
        /\ \A i \in 1..Len(s) : Append(s, e)[i] = s[i]
        /\ Append(s, e)[Len(s) + 1] = e
        /\ Len(s) \in Nat
    OBVIOUS
  <2>2. \A i \in 1..(Len(s) + 1) : i \in 1..Len(s) \/ i = Len(s) + 1
    BY <2>1
  <2>3. Len(s) + 1 \in 1..(Len(s) + 1) /\ 1..Len(s) \subseteq 1..(Len(s) + 1)
    BY <2>1
  <2>4. QED
    BY <2>1, <2>2, <2>3, Zenon DEF ToSet
<1>4. ASSUME s # <<>> PROVE ToSet(s) = {Head(s)} \cup ToSet(Tail(s))
  <2>1. /\ Len(s) \in Nat \ {0} /\ DOMAIN s = 1..Len(s)
        /\ DOMAIN Tail(s) = 1..(Len(s) - 1)
        /\ \A i \in 1..(Len(s) - 1) : Tail(s)[i] = s[i + 1]
        /\ Head(s) = s[1]
    BY <1>4
  <2>2. \A i \in 1..Len(s) : i = 1 \/ \E j \in 1..(Len(s) - 1) : i = j + 1
    <3> SUFFICES ASSUME NEW i \in 1..Len(s), i # 1 PROVE \E j \in 1..(Len(s) - 1) : i = j + 1
      OBVIOUS
    <3> WITNESS i - 1 \in 1..(Len(s) - 1)
    <3> QED OBVIOUS
  <2>3. 1 \in 1..Len(s) /\ \A j \in 1..(Len(s) - 1) : j + 1 \in 1..Len(s)
    BY <2>1
  <2>4. ToSet(s) \subseteq {Head(s)} \cup ToSet(Tail(s))
    <3> SUFFICES ASSUME NEW i \in 1..Len(s) PROVE s[i] \in {Head(s)} \cup ToSet(Tail(s))
      BY <2>1 DEF ToSet
    <3>1. CASE i = 1
      BY <2>1, <3>1
    <3>2. CASE i # 1
      <4>1. PICK j \in 1..(Len(s) - 1) : i = j + 1
        BY <2>2, <3>2
      <4>2. s[i] = Tail(s)[j] /\ j \in DOMAIN Tail(s)
        BY <2>1, <4>1
      <4>3. QED
        BY <4>2 DEF ToSet
    <3>3. QED
      BY <3>1, <3>2
  <2>5. {Head(s)} \cup ToSet(Tail(s)) \subseteq ToSet(s)
    BY <2>1, <2>3 DEF ToSet
  <2>6. QED
    BY <2>4, <2>5
<1>5. ToSet(<<>>) = {}
  BY DEF ToSet
<1>6. QED
  BY <1>2, <1>3, <1>4, <1>5

\* An arrangement of some elements of a finite set.
LEMMA PermutationIs ==
    ASSUME NEW S, IsFiniteSet(S), NEW s \in UNION {SetToSeqs(T) : T \in SUBSET S}
    PROVE  s \in Seq(S) /\ Len(s) <= Cardinality(S) /\ IsInjective(s)
<1>1. PICK T \in SUBSET S : s \in SetToSeqs(T)
  OBVIOUS
<1>2. Cardinality(T) \in Nat /\ Cardinality(T) <= Cardinality(S)
  BY FS_Subset, FS_CardinalityType
<1>3. s \in [1..Cardinality(T) -> T] /\ \A i, j \in 1..Cardinality(T) : i # j => s[i] # s[j]
  BY <1>1 DEF SetToSeqs
<1>4. s \in Seq(S) /\ Len(s) = Cardinality(T)
  BY <1>2, <1>3
<1>5. QED
  BY <1>2, <1>3, <1>4 DEF IsInjective
=============================================================================
