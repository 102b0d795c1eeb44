--------------------------- MODULE GameListProofs --------------------------
(***************************************************************************)
(* Theorems about GameList, for any libraries, names and searches.         *)
(*                                                                         *)
(* The invariant (GameListInv) says that the tree is what the library      *)
(* makes it and that the list is what the filters leave of the tree: no    *)
(* order of loading and filtering matters. The properties then follow from *)
(* what the loops of addApp, LoadApps and AddChild compute, which is shown *)
(* upwards, from one pass of the loop to the next: the rows of the tree    *)
(* are those of the apps (IsTree), and the children that are added in turn *)
(* come each from a row of its own (ComeFrom), leave no row out unless     *)
(* texts collide (AllThere) and are in order but for one (OrderedButOne).  *)
(***************************************************************************)
EXTENDS GameList, SubsequenceProofs

-----------------------------------------------------------------------------
(* Induction up to a bound, and what it gives for the loops of the model *)

\* Induction up to a bound: otherwise there were a least number that is not Good.
LEMMA Upward ==
    ASSUME NEW m \in Nat, NEW Good, 0 \in Good, \A n \in 1..m : n - 1 \in Good => n \in Good
    PROVE  0..m \subseteq Good
<1> DEFINE Bad == {n \in 0..m : n \notin Good}
<1> SUFFICES ASSUME Bad # {} PROVE FALSE
  OBVIOUS
<1>1. PICK n \in Bad : \A j \in Bad : n <= j
  <2>1. Bad \subseteq Nat
    OBVIOUS
  <2> HIDE DEF Bad
  <2>2. QED
    BY <2>1, LeastNumber
<1>2. n \in 1..m
  OBVIOUS
<1>3. n - 1 \in 0..m /\ ~(n <= n - 1)
  BY <1>2
<1>4. n - 1 \in Good
  BY <1>1, <1>3
<1>5. QED
  BY <1>2, <1>4

\* g[n] is what base has become after n steps.
Steps(base, m, step, g) == g[0] = base /\ \A n \in 1..m : g[n] = step[n][g[n - 1]]

\* A loop of m passes has a value after each of them.
LEMMA LoopExists ==
    ASSUME NEW V, NEW base \in V, NEW m \in Nat, NEW step \in [1..m -> [V -> V]]
    PROVE  \E g \in [0..m -> V] : Steps(base, m, step, g)
<1> DEFINE Is(k, g) == /\ g \in [0..k -> V] /\ g[0] = base
                       /\ \A n \in 1..k : g[n] = step[n][g[n - 1]]
           Good == {k \in 0..m : \E g : Is(k, g)}
<1>1. 0 \in Good
  <2>1. Is(0, [n \in 0..0 |-> base])
    OBVIOUS
  <2> HIDE DEF Is
  <2>2. QED
    BY <2>1
<1>2. ASSUME NEW k \in 1..m, k - 1 \in Good PROVE k \in Good
  <2>1. PICK f : Is(k - 1, f)
    BY <1>2
  <2> DEFINE g == [n \in 0..k |-> IF n = k THEN step[k][f[k - 1]] ELSE f[n]]
  <2>2. f[k - 1] \in V
    BY <2>1
  <2>3. step[k][f[k - 1]] \in V
    BY <2>2
  <2>4. \A n \in 0..(k - 1) : g[n] = f[n] /\ f[n] \in V
    BY <2>1
  <2>5. g[k] = step[k][f[k - 1]]
    OBVIOUS
  <2>6. g \in [0..k -> V]
    BY <2>1, <2>3
  <2> HIDE DEF g
  <2>7. ASSUME NEW n \in 1..k PROVE g[n] = step[n][g[n - 1]]
    <3>1. CASE n = k
      BY <2>4, <2>5, <3>1
    <3>2. CASE n # k
      <4>1. n \in 1..(k - 1) /\ n \in 0..(k - 1) /\ n - 1 \in 0..(k - 1)
        BY <3>2
      <4>2. f[n] = step[n][f[n - 1]]
        BY <2>1, <4>1
      <4>3. QED
        BY <2>4, <4>1, <4>2
    <3>3. QED
      BY <3>1, <3>2
  <2>8. g[0] = base
    BY <2>1, <2>4
  <2>9. Is(k, g)
    BY <2>6, <2>7, <2>8
  <2> HIDE DEF Is
  <2>10. QED
    BY <2>9
<1>3. 0..m \subseteq Good
  <2> HIDE DEF Good
  <2>1. QED
    BY <1>1, <1>2, Upward
<1>4. QED
  BY <1>3 DEF Steps

\* A set of numbers up to n that is not empty has a greatest.
LEMMA GreatestNumber ==
    ASSUME NEW n \in Nat, NEW S \in SUBSET (1..n), S # {}
    PROVE  Max(S) \in S /\ \A x \in S : x <= Max(S)
<1> DEFINE T == {n - x : x \in S}
<1>1. T \subseteq Nat /\ T # {}
  <2>1. \A x \in S : n - x \in Nat
    OBVIOUS
  <2>2. PICK x \in S : TRUE
    OBVIOUS
  <2>3. n - x \in T
    OBVIOUS
  <2>4. T \subseteq Nat
    BY <2>1
  <2> HIDE DEF T
  <2>5. QED
    BY <2>3, <2>4
<1>2. PICK y \in T : \A z \in T : y <= z
  <2> HIDE DEF T
  <2> QED BY <1>1, LeastNumber
<1>3. PICK x \in S : y = n - x
  OBVIOUS
<1>4. ASSUME NEW z \in S PROVE x >= z
  <2>1. n - z \in T
    OBVIOUS
  <2>2. n - x <= n - z
    BY <1>2, <1>3, <2>1
  <2>3. QED
    BY <2>2
<1>5. QED
  BY <1>4 DEF Max

-----------------------------------------------------------------------------
(* AddChild *)

\* No two items have the same text.
Distinct(items) == \A c, d \in items : c.text = d.text => c = d

\* A std::map in the order of its keys: ByText gives each item once.
LEMMA ByTextIs ==
    ASSUME NEW items \in SUBSET Child, IsFiniteSet(items), Distinct(items)
    PROVE  /\ ByText(items) \in Seq(items)
           /\ \A i, j \in DOMAIN ByText(items) :
                 i < j => ByText(items)[i].text < ByText(items)[j].text
           /\ \A c \in items : \E i \in DOMAIN ByText(items) : ByText(items)[i] = c
<1> DEFINE m == Cardinality(items)
           Below(c) == {d \in items : d.text < c.text}
           rank == [c \in items |-> Cardinality(Below(c))]
           pick(n) == CHOOSE c \in items : Cardinality(Below(c)) = n - 1
           s == ByText(items)
<1>1. m \in Nat
  BY FS_CardinalityType
<1>2. \A c \in items : c.text \in Nat
  BY DEF Child
<1>3. ASSUME NEW c \in items PROVE IsFiniteSet(Below(c)) /\ rank[c] \in 0..(m - 1)
  <2>1. Below(c) \in SUBSET (items \ {c})
    BY <1>2
  <2>2. IsFiniteSet(items \ {c}) /\ Cardinality(items \ {c}) = m - 1
    BY FS_RemoveElement
  <2>3. IsFiniteSet(Below(c)) /\ Cardinality(Below(c)) <= m - 1
    <3> HIDE DEF Below
    <3> QED BY <2>1, <2>2, FS_Subset
  <2>4. Cardinality(Below(c)) \in Nat
    <3> HIDE DEF Below
    <3> QED BY <2>3, FS_CardinalityType
  <2>5. rank[c] = Cardinality(Below(c))
    OBVIOUS
  <2> HIDE DEF rank, Below, m
  <2>6. QED
    BY <1>1, <2>3, <2>4, <2>5
<1>4. ASSUME NEW c \in items, NEW d \in items, c.text < d.text PROVE rank[c] < rank[d]
  <2>1. Below(c) \in SUBSET Below(d)
    BY <1>2, <1>4
  <2>2. Below(c) # Below(d)
    <3>1. c \in Below(d)
      BY <1>4
    <3>2. c \notin Below(c)
      BY <1>2
    <3>3. QED
      BY <3>1, <3>2
  <2>3. IsFiniteSet(Below(d)) /\ IsFiniteSet(Below(c))
    BY <1>3
  <2>4. Cardinality(Below(c)) <= Cardinality(Below(d)) /\ Cardinality(Below(c)) # Cardinality(Below(d))
    <3> HIDE DEF Below
    <3> QED BY <2>1, <2>2, <2>3, FS_Subset
  <2>5. Cardinality(Below(c)) \in Nat /\ Cardinality(Below(d)) \in Nat
    <3> HIDE DEF Below
    <3> QED BY <2>3, FS_CardinalityType
  <2>6. rank[c] = Cardinality(Below(c)) /\ rank[d] = Cardinality(Below(d))
    OBVIOUS
  <2> HIDE DEF rank, Below
  <2>7. QED
    BY <2>4, <2>5, <2>6
<1>5. DOMAIN rank = items
  OBVIOUS
<1>6. ASSUME NEW c \in items, NEW d \in items, rank[c] = rank[d] PROVE c = d
  <2> HIDE DEF rank, m, Below
  <2>1. rank[c] \in Nat
    BY <1>1, <1>3
  <2>2. ~(c.text < d.text) /\ ~(d.text < c.text)
    BY <1>4, <1>6, <2>1
  <2>3. c.text = d.text
    BY <1>2, <2>2
  <2>4. QED
    BY <2>3 DEF Distinct
<1>7. \A n \in 0..(m - 1) : \E c \in items : rank[c] = n
  <2>1. rank \in Injection(items, 0..(m - 1))
    <3>1. rank \in [items -> 0..(m - 1)]
      BY <1>3
    <3> HIDE DEF rank
    <3>2. QED
      BY <1>6, <3>1 DEF Injection, IsInjective
  <2>2. IsFiniteSet(0..(m - 1)) /\ Cardinality(0..(m - 1)) = m
    <3> HIDE DEF m
    <3> QED BY <1>1, FS_Interval
  <2>3. rank \in Surjection(items, 0..(m - 1))
    <3> HIDE DEF rank
    <3>1. QED
      BY <2>1, <2>2, FS_Injection
  <2> HIDE DEF rank
  <2>4. QED
    BY <2>3 DEF Surjection
<1>8. s = [n \in 1..m |-> pick(n)]
  BY DEF ByText
<1>9. ASSUME NEW n \in 1..m PROVE s[n] \in items /\ rank[s[n]] = n - 1
  <2>1. s[n] = pick(n)
    <3> HIDE DEF pick, s
    <3> QED BY <1>8
  <2>2. \E c \in items : rank[c] = n - 1
    <3> HIDE DEF rank, m
    <3> QED BY <1>1, <1>7
  <2>3. \E c \in items : Cardinality(Below(c)) = n - 1
    BY <2>2
  <2>4. s[n] \in items /\ Cardinality(Below(s[n])) = n - 1
    <3> HIDE DEF Below, s
    <3> QED BY <2>1, <2>3 DEF pick
  <2> HIDE DEF s
  <2>5. QED
    BY <2>4
<1> HIDE DEF rank, m
<1> HIDE DEF s, pick
<1>10. s \in Seq(items) /\ DOMAIN s = 1..m
  <2>1. s \in [1..m -> items]
    BY <1>8, <1>9
  <2>2. QED
    BY <1>1, <2>1
<1>11. ASSUME NEW i \in DOMAIN s, NEW j \in DOMAIN s, i < j PROVE s[i].text < s[j].text
  <2>1. s[i] \in items /\ s[j] \in items /\ rank[s[i]] = i - 1 /\ rank[s[j]] = j - 1
    BY <1>9, <1>10
  <2>2. i \in Int /\ j \in Int
    BY <1>1, <1>10
  <2>3. ~(s[j].text < s[i].text)
    BY <1>4, <1>11, <2>1, <2>2
  <2>4. s[j].text # s[i].text
    BY <1>11, <2>1, <2>2 DEF Distinct
  <2>5. QED
    BY <1>2, <2>1, <2>3, <2>4
<1>12. ASSUME NEW c \in items PROVE \E i \in DOMAIN s : s[i] = c
  <2>1. rank[c] \in 0..(m - 1)
    BY <1>3
  <2>2. rank[c] + 1 \in 1..m /\ (rank[c] + 1) - 1 = rank[c]
    BY <1>1, <2>1
  <2>3. s[rank[c] + 1] \in items /\ rank[s[rank[c] + 1]] = rank[c]
    BY <1>9, <2>2
  <2>4. s[rank[c] + 1] = c
    BY <1>6, <2>3
  <2>5. QED
    BY <1>10, <2>2, <2>4
<1>13. QED
  BY <1>10, <1>11, <1>12 DEF s

\* FAVORITES comes first, the others are in the order of their texts.
InTextOrder(s) ==
    \A i, j \in DOMAIN s : i < j =>
        /\ s[j].text # FAVORITES
        /\ s[i].text # FAVORITES => s[i].text < s[j].text

\* added are the children and a new one, but for namesakes, in order.
IsAdded(children, new, added) ==
    /\ added \in Seq(Child)
    /\ \A i \in DOMAIN added : added[i] = new \/ \E j \in DOMAIN children : added[i] = children[j]
    /\ \A j \in DOMAIN children : \E i \in DOMAIN added : added[i].text = children[j].text
    /\ \E i \in DOMAIN added : added[i].text = EMPTY
    /\ InTextOrder(added)

\* The std::map by text: of items that differ in their texts there is one for
\* every text but FAVORITES.
IsMap(children, new, items) ==
    /\ items \in SUBSET Child /\ IsFiniteSet(items) /\ Distinct(items)
    /\ \A c \in items : c = new \/ \E j \in DOMAIN children : c = children[j]
    /\ \A c \in items : c.text # FAVORITES
    /\ \A j \in DOMAIN children :
          children[j].text # FAVORITES => \E c \in items : c.text = children[j].text
    /\ \E c \in items : c.text = EMPTY

\* What AddChild puts into its map: the first of each text, the new one if no child
\* is without a text.
LEMMA MapByText ==
    ASSUME NEW children \in Seq(Child), NEW item \in Nat
    PROVE  LET new == [text |-> EMPTY, item |-> item]
               favorites == {i \in DOMAIN children : children[i].text = FAVORITES}
               first == {i \in DOMAIN children \ favorites :
                           \A j \in 1 .. i-1 : children[j].text # children[i].text}
           IN  IsMap(children, new, {children[i] : i \in first}
                                    \cup {c \in {new} : \A i \in first : children[i].text # EMPTY})
<1> DEFINE new == [text |-> EMPTY, item |-> item]
           favorites == {i \in DOMAIN children : children[i].text = FAVORITES}
           first == {i \in DOMAIN children \ favorites :
                       \A j \in 1 .. i-1 : children[j].text # children[i].text}
           old == {children[i] : i \in first}
           fresh == {c \in {new} : \A i \in first : children[i].text # EMPTY}
           items == old \cup fresh
<1>1. DOMAIN children = 1..Len(children) /\ Len(children) \in Nat
  OBVIOUS
<1>2. \A i \in DOMAIN children : children[i] \in Child /\ children[i].text \in Nat
  <2>1. \A i \in DOMAIN children : children[i] \in Child
    BY <1>1
  <2>2. QED
    BY <2>1 DEF Child
<1>3. new \in Child /\ new.text = EMPTY /\ EMPTY # FAVORITES
  BY DEF Child, EMPTY, FAVORITES
<1>4. items \in SUBSET Child
  BY <1>2, <1>3
<1>5. first \in SUBSET (1..Len(children))
  BY <1>1
<1>6. IsFiniteSet(items)
  <2>1. IsFiniteSet(first)
    <3>1. IsFiniteSet(1..Len(children))
      BY <1>1, FS_Interval
    <3> HIDE DEF first
    <3>2. QED
      BY <1>5, <3>1, FS_Subset
  <2>2. IsFiniteSet(old)
    <3> DEFINE f == [i \in first |-> children[i]]
    <3>1. f \in Surjection(first, old)
      BY DEF Surjection
    <3> HIDE DEF f, old, first
    <3>2. QED
      BY <2>1, <3>1, FS_Surjection
  <2>3. IsFiniteSet(fresh)
    <3>1. fresh = {} \/ fresh = {new}
      OBVIOUS
    <3>2. IsFiniteSet({} \cup {new}) /\ IsFiniteSet({})
      BY FS_EmptySet, FS_AddElement
    <3>3. {} \cup {new} = {new}
      OBVIOUS
    <3> HIDE DEF fresh, new
    <3>4. QED
      BY <3>1, <3>2, <3>3
  <2> HIDE DEF old, fresh
  <2>4. QED
    BY <2>2, <2>3, FS_Union
<1>7. Distinct(items)
  <2>1. ASSUME NEW i \in first, NEW j \in first, children[i].text = children[j].text PROVE i = j
    <3>1. ~(i < j) /\ ~(j < i)
      BY <1>1, <2>1
    <3>2. i \in Int /\ j \in Int
      BY <1>1
    <3> HIDE DEF first
    <3>3. QED
      BY <3>1, <3>2
  <2>2. ASSUME NEW c \in items, NEW d \in items, c.text = d.text PROVE c = d
    <3>1. CASE c \in old /\ d \in old
      <4>1. PICK i \in first : c = children[i]
        BY <3>1
      <4>2. PICK j \in first : d = children[j]
        BY <3>1
      <4> HIDE DEF first
      <4>3. QED
        BY <2>1, <2>2, <4>1, <4>2
    <3>2. CASE c \in fresh /\ d \in fresh
      BY <3>2
    <3>3. CASE c \in old /\ d \in fresh
      BY <1>3, <2>2, <3>3
    <3>4. CASE c \in fresh /\ d \in old
      BY <1>3, <2>2, <3>4
    <3>5. QED
      BY <3>1, <3>2, <3>3, <3>4
  <2>3. QED
    BY <2>2, Zenon DEF Distinct
<1>8. ASSUME NEW c \in items
      PROVE  /\ c = new \/ \E j \in DOMAIN children : c = children[j]
             /\ c.text # FAVORITES
  BY <1>3
<1>9. ASSUME NEW j \in DOMAIN children, children[j].text # FAVORITES
      PROVE  \E c \in old : c.text = children[j].text
  <2> DEFINE T == {i \in DOMAIN children : children[i].text = children[j].text}
  <2>1. T \subseteq Nat /\ T # {}
    BY <1>1
  <2>2. PICK i \in T : \A k \in T : i <= k
    <3> HIDE DEF T
    <3> QED BY <2>1, LeastNumber
  <2>3. ASSUME NEW k \in 1 .. i-1 PROVE children[k].text # children[i].text
    <3>1. k \in DOMAIN children /\ ~(i <= k)
      BY <1>1
    <3>2. QED
      BY <2>2, <3>1
  <2>4. i \in first
    BY <1>9, <2>3
  <2>5. QED
    BY <2>4
<1>10. \E c \in items : c.text = EMPTY
  <2>1. CASE \E i \in first : children[i].text = EMPTY
    BY <2>1
  <2>2. CASE \A i \in first : children[i].text # EMPTY
    <3>1. new \in fresh
      BY <2>2
    <3>2. QED
      BY <1>3, <3>1
  <2>3. QED
    BY <2>1, <2>2
<1>11. \A j \in DOMAIN children :
          children[j].text # FAVORITES => \E c \in items : c.text = children[j].text
  BY <1>9
<1>12. IsMap(children, new, items)
  <2> HIDE DEF items, new
  <2> QED BY <1>4, <1>6, <1>7, <1>8, <1>10, <1>11 DEF IsMap
<1>13. QED
  BY <1>12

\* AddChild keeps a child for each text, adds one and sorts.
LEMMA AddChildIs ==
    ASSUME NEW children \in Seq(Child), NEW item \in Nat
    PROVE  IsAdded(children, [text |-> EMPTY, item |-> item], AddChild(children, item))
<1> DEFINE new == [text |-> EMPTY, item |-> item]
           favorites == {i \in DOMAIN children : children[i].text = FAVORITES}
           first == {i \in DOMAIN children \ favorites :
                       \A j \in 1 .. i-1 : children[j].text # children[i].text}
           items == {children[i] : i \in first}
                    \cup {c \in {new} : \A i \in first : children[i].text # EMPTY}
           b == ByText(items)
           added == AddChild(children, item)
<1>1. IsMap(children, new, items)
  BY MapByText
<1>2. added = (IF favorites = {} THEN <<>> ELSE <<children[Max(favorites)]>>) \o b
  BY DEF AddChild
<1>3. DOMAIN children = 1..Len(children) /\ Len(children) \in Nat
  OBVIOUS
<1>4. favorites \in SUBSET (1..Len(children))
      /\ \A i \in DOMAIN children : i \notin favorites => children[i].text # FAVORITES
  BY <1>3
<1>5. \A i \in favorites : children[i] \in Child /\ children[i].text = FAVORITES
  BY <1>3
<1>6. /\ b \in Seq(items)
      /\ \A i, j \in DOMAIN b : i < j => b[i].text < b[j].text
      /\ \A c \in items : \E i \in DOMAIN b : b[i] = c
  <2> HIDE DEF items, new
  <2> QED BY <1>1, ByTextIs DEF IsMap
<1> HIDE DEF new, items, b, added, favorites
<1>7. /\ DOMAIN b = 1..Len(b) /\ Len(b) \in Nat /\ b \in Seq(Child)
      /\ \A i \in DOMAIN b : b[i] \in items /\ b[i].text # FAVORITES
      /\ \A i, j \in DOMAIN b : i < j => b[i].text < b[j].text
  <2>1. b \in Seq(items) /\ items \in SUBSET Child
    BY <1>1, <1>6 DEF IsMap
  <2>2. DOMAIN b = 1..Len(b) /\ Len(b) \in Nat /\ b \in Seq(Child) /\ \A i \in DOMAIN b : b[i] \in items
    BY <2>1
  <2>3. QED
    BY <1>1, <1>6, <2>2 DEF IsMap
<1>8. \A i \in DOMAIN b : b[i] = new \/ \E j \in DOMAIN children : b[i] = children[j]
  BY <1>1, <1>7 DEF IsMap
<1>9. \A j \in DOMAIN children :
         children[j].text # FAVORITES => \E i \in DOMAIN b : b[i].text = children[j].text
  <2> SUFFICES ASSUME NEW j \in DOMAIN children, children[j].text # FAVORITES
               PROVE  \E i \in DOMAIN b : b[i].text = children[j].text
    OBVIOUS
  <2>1. PICK c \in items : c.text = children[j].text
    BY <1>1 DEF IsMap
  <2>2. PICK i \in DOMAIN b : b[i] = c
    BY <1>6
  <2>3. QED
    BY <2>1, <2>2
<1>10. \E i \in DOMAIN b : b[i].text = EMPTY
  <2>1. PICK c \in items : c.text = EMPTY
    BY <1>1 DEF IsMap
  <2>2. PICK i \in DOMAIN b : b[i] = c
    BY <1>6
  <2>3. QED
    BY <2>1, <2>2
<1>11. CASE favorites = {}
  <2>1. added = b
    BY <1>2, <1>7, <1>11
  <2>2. \A j \in DOMAIN children : \E i \in DOMAIN b : b[i].text = children[j].text
    BY <1>4, <1>9, <1>11
  <2>3. InTextOrder(b)
    BY <1>7 DEF InTextOrder
  <2>4. IsAdded(children, new, added)
    BY <1>7, <1>8, <1>10, <2>1, <2>2, <2>3 DEF IsAdded
  <2>5. QED
    BY <2>4 DEF new, added
<1>12. CASE favorites # {}
  <2> DEFINE f == children[Max(favorites)]
  <2>1. Max(favorites) \in favorites
    BY <1>3, <1>4, <1>12, GreatestNumber
  <2>2. f \in Child /\ f.text = FAVORITES /\ Max(favorites) \in DOMAIN children
    BY <1>3, <1>4, <1>5, <2>1
  <2>3. added = <<f>> \o b
    BY <1>2, <1>12
  <2> HIDE DEF f
  <2>4. added \in Seq(Child) /\ DOMAIN added = 1..(Len(b) + 1) /\ added[1] = f
        /\ \A i \in DOMAIN b : added[i + 1] = b[i] /\ i + 1 \in DOMAIN added
    <3>1. <<f>> \in Seq(Child) /\ Len(<<f>>) = 1 /\ <<f>>[1] = f
      BY <2>2
    <3>2. added \in Seq(Child) /\ Len(added) = Len(b) + 1
      BY <1>7, <2>3, <3>1
    <3>3. added[1] = f /\ \A i \in DOMAIN b : added[i + 1] = b[i]
      BY <1>7, <2>3, <3>1
    <3> HIDE DEF added
    <3>4. QED
      BY <1>7, <3>2, <3>3
  <2>5. ASSUME NEW i \in DOMAIN added, i # 1 PROVE i - 1 \in DOMAIN b /\ added[i] = b[i - 1]
    <3>1. i - 1 \in DOMAIN b /\ (i - 1) + 1 = i
      BY <1>7, <2>4, <2>5
    <3>2. QED
      BY <2>4, <3>1
  <2>6. 1 \in DOMAIN added /\ DOMAIN added \subseteq Int
    BY <1>7, <2>4
  <2>7. InTextOrder(added)
    <3> SUFFICES ASSUME NEW i \in DOMAIN added, NEW j \in DOMAIN added, i < j
                 PROVE  added[j].text # FAVORITES
                        /\ (added[i].text # FAVORITES => added[i].text < added[j].text)
      BY DEF InTextOrder
    <3>1. j # 1 /\ j - 1 \in DOMAIN b /\ added[j] = b[j - 1]
      BY <1>7, <2>4, <2>5
    <3>2. CASE i = 1
      BY <1>7, <2>2, <2>4, <3>1, <3>2
    <3>3. CASE i # 1
      <4>1. i - 1 \in DOMAIN b /\ added[i] = b[i - 1]
        BY <2>5, <3>3
      <4>2. i - 1 < j - 1
        BY <2>6
      <4>3. QED
        BY <1>7, <3>1, <4>1, <4>2
    <3>4. QED
      BY <3>2, <3>3
  <2>8. ASSUME NEW i \in DOMAIN added
        PROVE  added[i] = new \/ \E j \in DOMAIN children : added[i] = children[j]
    <3>1. CASE i = 1
      BY <2>2, <2>4, <3>1 DEF f
    <3>2. CASE i # 1
      BY <1>8, <2>5, <3>2
    <3>3. QED
      BY <3>1, <3>2
  <2>9. ASSUME NEW j \in DOMAIN children PROVE \E i \in DOMAIN added : added[i].text = children[j].text
    <3>1. CASE children[j].text = FAVORITES
      BY <2>2, <2>4, <2>6, <3>1
    <3>2. CASE children[j].text # FAVORITES
      <4>1. PICK i \in DOMAIN b : b[i].text = children[j].text
        BY <1>9, <3>2
      <4>2. QED
        BY <2>4, <4>1
    <3>3. QED
      BY <3>1, <3>2
  <2>10. \E i \in DOMAIN added : added[i].text = EMPTY
    <3>1. PICK i \in DOMAIN b : b[i].text = EMPTY
      BY <1>10
    <3>2. QED
      BY <2>4, <3>1
  <2>11. IsAdded(children, new, added)
    BY <2>4, <2>7, <2>8, <2>9, <2>10 DEF IsAdded
  <2>12. QED
    BY <2>11 DEF new, added
<1>13. QED
  BY <1>11, <1>12

-----------------------------------------------------------------------------
(* AddedInTurn *)

\* The child a row becomes.
ChildOf(lib, r) == [text |-> TextOf(lib, r), item |-> ItemOf(r)]

\* Rows that can be added: they have texts, one for each item.
Addable(lib, rows) ==
    /\ rows \in Seq(Row)
    /\ \A k \in DOMAIN rows : ChildOf(lib, rows[k]) \in Child
    /\ \A j, k \in DOMAIN rows :
          ItemOf(rows[j]) = ItemOf(rows[k]) => TextOf(lib, rows[j]) = TextOf(lib, rows[k])

\* The children named are those added, of which the item has got its text.
IsNamed(added, item, text, named) ==
    /\ named \in Seq(Child) /\ DOMAIN named = DOMAIN added
    /\ \A i \in DOMAIN added :
          named[i] = IF added[i].item = item THEN [text |-> text, item |-> item] ELSE added[i]

\* A child is added before it has its text, so that it is sorted in as "".
LEMMA AddNamedIs ==
    ASSUME NEW children \in Seq(Child), NEW item, NEW text, [text |-> text, item |-> item] \in Child
    PROVE  \E added : /\ IsAdded(children, [text |-> EMPTY, item |-> item], added)
                      /\ IsNamed(added, item, text, AddNamed(children, item, text))
<1> DEFINE new == [text |-> EMPTY, item |-> item]
           child == [text |-> text, item |-> item]
           added == AddChild(children, item)
           named == [i \in DOMAIN added |-> IF added[i].item = item THEN child ELSE added[i]]
<1>1. item \in Nat
  BY DEF Child
<1>2. IsAdded(children, new, added)
  BY <1>1, AddChildIs
<1>3. added \in Seq(Child)
  <2> HIDE DEF added
  <2> QED BY <1>2 DEF IsAdded
<1>4. named = AddNamed(children, item, text)
  BY DEF AddNamed
<1>5. IsNamed(added, item, text, named)
  <2> HIDE DEF added
  <2>1. DOMAIN added = 1..Len(added) /\ Len(added) \in Nat /\ \A i \in DOMAIN added : added[i] \in Child
    BY <1>3
  <2>2. named \in [1..Len(added) -> Child]
    BY <2>1
  <2>3. named \in Seq(Child)
    <3> HIDE DEF named
    <3> QED BY <2>1, <2>2
  <2>4. QED
    BY <2>3 DEF IsNamed
<1>6. QED
  BY <1>2, <1>4, <1>5

\* The loop of AddedInTurn.
LEMMA AddedInTurnIs ==
    ASSUME NEW lib, NEW rows, Addable(lib, rows)
    PROVE  \E g \in [0..Len(rows) -> Seq(Child)] :
              /\ g[0] = <<>> /\ AddedInTurn(lib, rows) = g[Len(rows)]
              /\ \A n \in 1..Len(rows) :
                    g[n] = AddNamed(g[n - 1], ItemOf(rows[n]), TextOf(lib, rows[n]))
<1> DEFINE m == Len(rows)
           Add(children, n) == AddNamed(children, ItemOf(rows[n]), TextOf(lib, rows[n]))
           IsLoop(f) == f = [n \in 0..m |-> IF n = 0 THEN <<>> ELSE Add(f[n - 1], n)]
           g == CHOOSE f : IsLoop(f)
           step == [n \in 1..m |-> [s \in Seq(Child) |-> Add(s, n)]]
<1>1. m \in Nat /\ DOMAIN rows = 1..m
  BY DEF Addable
<1>2. ASSUME NEW s \in Seq(Child), NEW n \in 1..m PROVE Add(s, n) \in Seq(Child)
  <2>1. [text |-> TextOf(lib, rows[n]), item |-> ItemOf(rows[n])] \in Child
    BY <1>1 DEF Addable, ChildOf
  <2>2. QED
    BY <2>1, AddNamedIs DEF IsNamed
<1>3. \E f : IsLoop(f)
  <2>1. step \in [1..m -> [Seq(Child) -> Seq(Child)]]
    <3> HIDE DEF Add, m
    <3> QED BY <1>2
  <2>2. <<>> \in Seq(Child)
    OBVIOUS
  <2>3. PICK h \in [0..m -> Seq(Child)] : h[0] = <<>> /\ \A n \in 1..m : h[n] = step[n][h[n - 1]]
    <3> DEFINE V == Seq(Child)
    <3>1. step \in [1..m -> [V -> V]] /\ <<>> \in V
      BY <2>1, <2>2
    <3> HIDE DEF step, m, V
    <3>2. \E h \in [0..m -> V] : Steps(<<>>, m, step, h)
      BY <1>1, <3>1, LoopExists
    <3>3. QED
      BY <3>2 DEF V, Steps
  <2>4. \A n \in 1..m : h[n] = Add(h[n - 1], n)
    <3> HIDE DEF Add, m
    <3>1. \A n \in 1..m : h[n - 1] \in Seq(Child)
      BY <1>1
    <3>2. QED
      BY <2>3, <3>1
  <2>5. \A n \in 0..m : h[n] = IF n = 0 THEN <<>> ELSE Add(h[n - 1], n)
    <3> HIDE DEF Add, m
    <3> QED BY <1>1, <2>3, <2>4
  <2>6. IsLoop(h)
    <3> HIDE DEF Add, m
    <3> QED BY <2>5
  <2>7. QED
    BY <2>6
<1>4. IsLoop(g)
  <2> HIDE DEF IsLoop
  <2> QED BY <1>3
<1>5. AddedInTurn(lib, rows) = g[m]
  BY DEF AddedInTurn
<1> HIDE DEF g
<1>6. DOMAIN g = 0..m /\ \A n \in 0..m : g[n] = IF n = 0 THEN <<>> ELSE Add(g[n - 1], n)
  <2> HIDE DEF Add, m
  <2> QED BY <1>4
<1>7. g[0] = <<>> /\ \A n \in 1..m : g[n] = Add(g[n - 1], n)
  <2> HIDE DEF Add, m
  <2> QED BY <1>1, <1>6
<1>8. \A n \in 0..m : g[n] \in Seq(Child)
  <2> DEFINE Good == {n \in 0..m : g[n] \in Seq(Child)}
  <2>1. 0 \in Good
    <3> HIDE DEF Add, m
    <3>1. g[0] \in Seq(Child)
      BY <1>7
    <3>2. QED
      BY <1>1, <3>1
  <2>2. \A n \in 1..m : n - 1 \in Good => n \in Good
    <3> HIDE DEF Add, m
    <3> QED BY <1>1, <1>2, <1>7
  <2>3. 0..m \subseteq Good
    <3> HIDE DEF Good, m
    <3> QED BY <1>1, <2>1, <2>2, Upward
  <2>4. QED
    BY <2>3
<1>9. g \in [0..m -> Seq(Child)]
  <2> HIDE DEF Add, m
  <2> QED BY <1>4, <1>6, <1>8
<1>10. QED
  BY <1>5, <1>7, <1>9

\* Each child comes from a row of the first n, and no two from the same.
ComeFrom(lib, rows, n, s) ==
    /\ s \in Seq(Child)
    /\ \E from \in [DOMAIN s -> 1..n] :
          IsInjective(from) /\ \A i \in DOMAIN s : s[i] = ChildOf(lib, rows[from[i]])

\* Each of the first n rows has its child.
AllThere(lib, rows, n, s) == \A k \in 1..n : \E i \in DOMAIN s : s[i] = ChildOf(lib, rows[k])

\* FAVORITES first, then one in any place, then the others in order.
OrderedButOne(s) ==
    /\ \A i \in DOMAIN s : s[i].text = FAVORITES => i = 1
    /\ \A o, p, q \in DOMAIN s :
          o < p /\ p < q /\ FAVORITES \notin {s[o].text, s[p].text, s[q].text}
             => s[p].text < s[q].text

\* A pass keeps children apart: the new one has the place of a row of its own.
LEMMA ComeFromStep ==
    ASSUME NEW lib, NEW rows, Addable(lib, rows), NEW n \in 1..Len(rows),
           NEW s, ComeFrom(lib, rows, n - 1, s)
    PROVE  ComeFrom(lib, rows, n, AddNamed(s, ItemOf(rows[n]), TextOf(lib, rows[n])))
<1> DEFINE item == ItemOf(rows[n])
           text == TextOf(lib, rows[n])
           new == [text |-> EMPTY, item |-> item]
           t == AddNamed(s, item, text)
<1>1. PICK from \in [DOMAIN s -> 1..(n - 1)] :
         IsInjective(from) /\ \A i \in DOMAIN s : s[i] = ChildOf(lib, rows[from[i]])
  BY DEF ComeFrom
<1>2. s \in Seq(Child) /\ rows \in Seq(Row) /\ DOMAIN rows = 1..Len(rows) /\ Len(rows) \in Nat
  BY DEF ComeFrom, Addable
<1>3. ChildOf(lib, rows[n]) = [text |-> text, item |-> item] /\ ChildOf(lib, rows[n]) \in Child
  BY <1>2 DEF Addable, ChildOf
<1>4. PICK a : IsAdded(s, new, a) /\ IsNamed(a, item, text, t)
  BY <1>2, <1>3, AddNamedIs
<1> HIDE DEF item, text, t, new
<1> DEFINE Old(i) == \E j \in DOMAIN s : s[j] = a[i]
           origin(i) == CHOOSE j \in DOMAIN s : s[j] = a[i]
           to == [i \in DOMAIN a |-> IF Old(i) THEN from[origin(i)] ELSE n]
<1>5. \A i \in DOMAIN a : Old(i) => origin(i) \in DOMAIN s /\ s[origin(i)] = a[i]
  OBVIOUS
<1>6. \A i \in DOMAIN a : ~Old(i) => a[i] = new
  BY <1>4 DEF IsAdded
<1> HIDE DEF Old, origin
<1>7. \A i \in DOMAIN a : Old(i) => from[origin(i)] \in 1..(n - 1)
  BY <1>1, <1>5
<1>8. \A i \in DOMAIN a : to[i] = IF Old(i) THEN from[origin(i)] ELSE n
  OBVIOUS
<1>9. to \in [DOMAIN t -> 1..n]
  <2>1. DOMAIN t = DOMAIN a
    BY <1>4 DEF IsNamed
  <2>2. \A i \in DOMAIN a : to[i] \in 1..n
    BY <1>2, <1>7, <1>8
  <2>3. QED
    BY <2>1, <2>2
<1> HIDE DEF to
<1>10. ASSUME NEW i \in DOMAIN a, NEW k \in DOMAIN a, a[i] = a[k] PROVE i = k
  <2>1. i \in Int /\ k \in Int /\ a[i].text \in Nat
    <3>1. a \in Seq(Child)
      BY <1>4 DEF IsAdded
    <3>2. i \in Int /\ k \in Int /\ a[i] \in Child
      BY <3>1
    <3>3. QED
      BY <3>2 DEF Child
  <2>2. ~(i < k) /\ ~(k < i)
    BY <1>4, <1>10, <2>1 DEF IsAdded, InTextOrder
  <2>3. QED
    BY <2>1, <2>2
<1>11. ASSUME NEW i \in DOMAIN a, NEW k \in DOMAIN a, to[i] = to[k] PROVE i = k
  <2>1. CASE Old(i) /\ Old(k)
    <3>1. from[origin(i)] = from[origin(k)]
      BY <1>8, <1>11, <2>1
    <3>2. origin(i) = origin(k)
      BY <1>1, <1>5, <2>1, <3>1 DEF IsInjective
    <3>3. a[i] = a[k]
      BY <1>5, <2>1, <3>2
    <3>4. QED
      BY <1>10, <3>3
  <2>2. CASE ~Old(i) /\ ~Old(k)
    <3>1. a[i] = a[k]
      BY <1>6, <2>2
    <3>2. QED
      BY <1>10, <3>1
  <2>3. CASE Old(i) /\ ~Old(k)
    BY <1>7, <1>8, <1>11, <2>3
  <2>4. CASE ~Old(i) /\ Old(k)
    BY <1>7, <1>8, <1>11, <2>4
  <2>5. QED
    BY <2>1, <2>2, <2>3, <2>4
<1>12. ASSUME NEW i \in DOMAIN a PROVE t[i] = ChildOf(lib, rows[to[i]])
  <2>1. CASE Old(i)
    <3>1. a[i] = ChildOf(lib, rows[to[i]]) /\ to[i] \in DOMAIN rows
      BY <1>1, <1>2, <1>5, <1>7, <1>8, <2>1
    <3>2. CASE a[i].item = item
      <4>1. ItemOf(rows[to[i]]) = ItemOf(rows[n])
        BY <3>1, <3>2 DEF ChildOf, item
      <4>2. TextOf(lib, rows[to[i]]) = TextOf(lib, rows[n])
        BY <1>2, <3>1, <4>1 DEF Addable
      <4>3. t[i] = [text |-> text, item |-> item]
        BY <1>4, <3>2 DEF IsNamed
      <4>4. QED
        BY <1>3, <4>1, <4>2, <4>3 DEF ChildOf
    <3>3. CASE a[i].item # item
      BY <1>4, <3>1, <3>3 DEF IsNamed
    <3>4. QED
      BY <3>2, <3>3
  <2>2. CASE ~Old(i)
    <3>1. a[i].item = item /\ to[i] = n
      BY <1>6, <1>8, <2>2 DEF new
    <3>2. QED
      BY <1>3, <1>4, <3>1 DEF IsNamed
  <2>3. QED
    BY <2>1, <2>2
<1>13. t \in Seq(Child) /\ DOMAIN t = DOMAIN a
  BY <1>4 DEF IsNamed
<1>14. IsInjective(to)
  BY <1>9, <1>11, <1>13 DEF IsInjective
<1>15. ComeFrom(lib, rows, n, t)
  BY <1>9, <1>12, <1>13, <1>14 DEF ComeFrom
<1>16. QED
  BY <1>15 DEF t, item, text

\* A pass loses none when texts tell the items apart and none is "": no child is
\* ever taken for another.
LEMMA AllThereStep ==
    ASSUME NEW lib, NEW rows, Addable(lib, rows), NEW n \in 1..Len(rows),
           NEW s, ComeFrom(lib, rows, n - 1, s), AllThere(lib, rows, n - 1, s),
           \A k \in DOMAIN rows : TextOf(lib, rows[k]) # EMPTY,
           \A j, k \in DOMAIN rows :
              TextOf(lib, rows[j]) = TextOf(lib, rows[k]) => ItemOf(rows[j]) = ItemOf(rows[k])
    PROVE  AllThere(lib, rows, n, AddNamed(s, ItemOf(rows[n]), TextOf(lib, rows[n])))
<1> DEFINE item == ItemOf(rows[n])
           text == TextOf(lib, rows[n])
           new == [text |-> EMPTY, item |-> item]
           t == AddNamed(s, item, text)
<1>1. PICK from \in [DOMAIN s -> 1..(n - 1)] : \A i \in DOMAIN s : s[i] = ChildOf(lib, rows[from[i]])
  BY DEF ComeFrom
<1>2. s \in Seq(Child) /\ DOMAIN rows = 1..Len(rows) /\ Len(rows) \in Nat /\ n \in DOMAIN rows
  BY DEF ComeFrom, Addable
<1>3. ChildOf(lib, rows[n]) = [text |-> text, item |-> item] /\ ChildOf(lib, rows[n]) \in Child
  BY <1>2 DEF Addable, ChildOf
<1>4. PICK a : IsAdded(s, new, a) /\ IsNamed(a, item, text, t)
  BY <1>2, <1>3, AddNamedIs
<1>5. new.text = EMPTY /\ new.item = item
  OBVIOUS
<1>6. \A j \in DOMAIN s : from[j] \in DOMAIN rows /\ s[j].text = TextOf(lib, rows[from[j]])
                          /\ s[j].item = ItemOf(rows[from[j]])
  BY <1>1, <1>2 DEF ChildOf
<1> HIDE DEF item, text, t, new
<1>7. \A j \in DOMAIN s : s[j].text # EMPTY
  BY <1>6
<1>8. ASSUME NEW k \in 1..(n - 1) PROVE \E i \in DOMAIN t : t[i] = ChildOf(lib, rows[k])
  <2>1. PICK j \in DOMAIN s : s[j] = ChildOf(lib, rows[k])
    BY DEF AllThere
  <2>2. PICK i \in DOMAIN a : a[i].text = s[j].text
    BY <1>4 DEF IsAdded
  <2>3. a[i] # new
    BY <1>5, <1>7, <2>2
  <2>4. PICK l \in DOMAIN s : a[i] = s[l]
    BY <1>4, <2>3 DEF IsAdded
  <2>5. k \in DOMAIN rows /\ s[j].text = TextOf(lib, rows[k])
    BY <1>2, <2>1 DEF ChildOf
  <2>6. ItemOf(rows[from[l]]) = ItemOf(rows[k]) /\ TextOf(lib, rows[from[l]]) = TextOf(lib, rows[k])
    BY <1>6, <2>2, <2>4, <2>5
  <2>7. a[i] = ChildOf(lib, rows[k])
    BY <1>1, <2>4, <2>6 DEF ChildOf
  <2>8. CASE a[i].item = item
    <3>1. ItemOf(rows[k]) = ItemOf(rows[n])
      BY <2>7, <2>8 DEF ChildOf, item
    <3>2. TextOf(lib, rows[k]) = TextOf(lib, rows[n])
      BY <1>2, <2>5, <3>1 DEF Addable
    <3>3. ChildOf(lib, rows[k]) = ChildOf(lib, rows[n])
      BY <3>1, <3>2 DEF ChildOf
    <3>4. t[i] = [text |-> text, item |-> item] /\ i \in DOMAIN t
      BY <1>4, <2>8 DEF IsNamed
    <3>5. QED
      BY <1>3, <3>3, <3>4
  <2>9. CASE a[i].item # item
    BY <1>4, <2>7, <2>9 DEF IsNamed
  <2>10. QED
    BY <2>8, <2>9
<1>9. \E i \in DOMAIN t : t[i] = ChildOf(lib, rows[n])
  <2>1. PICK i \in DOMAIN a : a[i].text = EMPTY
    BY <1>4 DEF IsAdded
  <2>2. a[i] = new
    BY <1>4, <1>7, <2>1 DEF IsAdded
  <2>3. t[i] = [text |-> text, item |-> item] /\ i \in DOMAIN t
    BY <1>4, <1>5, <2>2 DEF IsNamed
  <2>4. QED
    BY <1>3, <2>3
<1>10. \A k \in 1..n : k \in 1..(n - 1) \/ k = n
  BY <1>2
<1>11. AllThere(lib, rows, n, t)
  BY <1>8, <1>9, <1>10 DEF AllThere
<1>12. QED
  BY <1>11 DEF t, item, text

\* The loop for categories, each of which is added once.
LEMMA OrderedStep ==
    ASSUME NEW lib, NEW rows, Addable(lib, rows), NEW n \in 1..Len(rows),
           NEW s, ComeFrom(lib, rows, n - 1, s),
           \A k \in DOMAIN rows : rows[k].app = 0,
           \A j, k \in DOMAIN rows : rows[j].category = rows[k].category => j = k
    PROVE  OrderedButOne(AddNamed(s, ItemOf(rows[n]), TextOf(lib, rows[n])))
<1> DEFINE item == ItemOf(rows[n])
           text == TextOf(lib, rows[n])
           new == [text |-> EMPTY, item |-> item]
           t == AddNamed(s, item, text)
<1>1. PICK from \in [DOMAIN s -> 1..(n - 1)] : \A i \in DOMAIN s : s[i] = ChildOf(lib, rows[from[i]])
  BY DEF ComeFrom
<1>2. s \in Seq(Child) /\ DOMAIN rows = 1..Len(rows) /\ Len(rows) \in Nat /\ n \in DOMAIN rows
  BY DEF ComeFrom, Addable
<1>3. ChildOf(lib, rows[n]) = [text |-> text, item |-> item] /\ ChildOf(lib, rows[n]) \in Child
  BY <1>2 DEF Addable, ChildOf
<1>4. PICK a : IsAdded(s, new, a) /\ IsNamed(a, item, text, t)
  BY <1>2, <1>3, AddNamedIs
<1>5. new.text = EMPTY /\ new.item = item /\ text = item
  BY <1>2 DEF ItemOf, TextOf
<1>6. ASSUME NEW j \in DOMAIN s PROVE s[j].text = s[j].item /\ s[j].item # item
  <2>1. from[j] \in DOMAIN rows /\ from[j] # n
    BY <1>1, <1>2
  <2>2. rows[from[j]].app = 0 /\ rows[n].app = 0 /\ rows[from[j]].category # rows[n].category
    BY <1>2, <2>1
  <2>3. s[j].text = rows[from[j]].category /\ s[j].item = rows[from[j]].category
    BY <1>1, <2>2 DEF ChildOf, ItemOf, TextOf
  <2>4. item = rows[n].category
    BY <2>2 DEF ItemOf
  <2>5. QED
    BY <2>2, <2>3, <2>4
<1> HIDE DEF item, text, t, new
<1>7. /\ DOMAIN t = DOMAIN a /\ DOMAIN a = 1..Len(a) /\ Len(a) \in Nat
      /\ \A i \in DOMAIN a : a[i].text \in Nat
  <2>1. a \in Seq(Child) /\ DOMAIN t = DOMAIN a
    BY <1>4 DEF IsAdded, IsNamed
  <2>2. \A i \in DOMAIN a : a[i] \in Child
    BY <2>1
  <2>3. QED
    BY <2>1, <2>2 DEF Child
<1>8. ASSUME NEW i \in DOMAIN a, a[i] # new PROVE t[i] = a[i] /\ a[i].text # item
  <2>1. PICK j \in DOMAIN s : a[i] = s[j]
    BY <1>4, <1>8 DEF IsAdded
  <2>2. a[i].item # item /\ a[i].text # item
    BY <1>6, <2>1
  <2>3. QED
    BY <1>4, <2>2 DEF IsNamed
<1>9. ASSUME NEW i \in DOMAIN a, a[i] = new PROVE a[i].text = EMPTY /\ t[i].text = item
  <2>1. t[i] = [text |-> text, item |-> item]
    BY <1>4, <1>5, <1>9 DEF IsNamed
  <2>2. QED
    BY <1>5, <1>9, <2>1
<1>10. /\ \A i, j \in DOMAIN a : i < j => a[j].text # FAVORITES
       /\ \A i, j \in DOMAIN a : i < j /\ a[i].text # FAVORITES => a[i].text < a[j].text
  BY <1>4 DEF IsAdded, InTextOrder
\* Nothing in front of the new child but FAVORITES.
<1>11. ASSUME NEW i \in DOMAIN a, NEW j \in DOMAIN a, j < i, a[i] = new
       PROVE  a[j].text = FAVORITES /\ t[j].text = FAVORITES
  <2>1. ~(a[j].text < a[i].text)
    BY <1>7, <1>9, <1>11 DEF EMPTY
  <2>2. a[j].text = FAVORITES
    BY <1>10, <1>11, <2>1
  <2>3. a[j] # new
    BY <1>9, <2>2 DEF EMPTY, FAVORITES
  <2>4. QED
    BY <1>8, <2>2, <2>3
<1>12. ASSUME NEW i \in DOMAIN t, t[i].text = FAVORITES PROVE i = 1
  <2> SUFFICES ASSUME i # 1 PROVE FALSE
    OBVIOUS
  <2>1. 1 \in DOMAIN a /\ 1 < i /\ i \in DOMAIN a
    BY <1>7
  <2>2. CASE a[i] = new
    <3>1. a[1].text = FAVORITES /\ a[1] # new
      BY <1>9, <1>11, <2>1, <2>2 DEF EMPTY, FAVORITES
    <3>2. item = FAVORITES
      BY <1>9, <1>12, <2>1, <2>2
    <3>3. QED
      BY <1>8, <2>1, <3>1, <3>2
  <2>3. CASE a[i] # new
    BY <1>8, <1>10, <1>12, <2>1, <2>3
  <2>4. QED
    BY <2>2, <2>3
<1>13. ASSUME NEW o \in DOMAIN t, NEW p \in DOMAIN t, NEW q \in DOMAIN t, o < p, p < q,
              FAVORITES \notin {t[o].text, t[p].text, t[q].text}
       PROVE  t[p].text < t[q].text
  <2>1. o \in DOMAIN a /\ p \in DOMAIN a /\ q \in DOMAIN a /\ o < q
    BY <1>7, <1>13
  <2>2. a[p] # new /\ a[q] # new
    BY <1>11, <1>13, <2>1
  <2>3. t[p] = a[p] /\ t[q] = a[q]
    BY <1>8, <2>1, <2>2
  <2>4. QED
    BY <1>10, <1>13, <2>1, <2>3
<1>14. OrderedButOne(t)
  BY <1>12, <1>13 DEF OrderedButOne
<1>15. QED
  BY <1>14 DEF t, item, text

\* What becomes of rows that are added in turn.
LEMMA ChildrenAre ==
    ASSUME NEW lib, NEW rows, Addable(lib, rows)
    PROVE  LET s == AddedInTurn(lib, rows)
           IN  /\ ComeFrom(lib, rows, Len(rows), s)
               /\ (/\ \A k \in DOMAIN rows : TextOf(lib, rows[k]) # EMPTY
                   /\ \A j, k \in DOMAIN rows :
                         TextOf(lib, rows[j]) = TextOf(lib, rows[k])
                            => ItemOf(rows[j]) = ItemOf(rows[k])) =>
                     AllThere(lib, rows, Len(rows), s)
               /\ (/\ \A k \in DOMAIN rows : rows[k].app = 0
                   /\ \A j, k \in DOMAIN rows : rows[j].category = rows[k].category => j = k) =>
                     OrderedButOne(s)
<1> DEFINE m == Len(rows)
           Told == /\ \A k \in DOMAIN rows : TextOf(lib, rows[k]) # EMPTY
                   /\ \A j, k \in DOMAIN rows :
                         TextOf(lib, rows[j]) = TextOf(lib, rows[k])
                            => ItemOf(rows[j]) = ItemOf(rows[k])
           Once == /\ \A k \in DOMAIN rows : rows[k].app = 0
                   /\ \A j, k \in DOMAIN rows : rows[j].category = rows[k].category => j = k
           OK(n, s) == /\ ComeFrom(lib, rows, n, s)
                       /\ Told => AllThere(lib, rows, n, s)
                       /\ Once => OrderedButOne(s)
<1>1. PICK g \in [0..m -> Seq(Child)] :
         /\ g[0] = <<>> /\ AddedInTurn(lib, rows) = g[m]
         /\ \A n \in 1..m : g[n] = AddNamed(g[n - 1], ItemOf(rows[n]), TextOf(lib, rows[n]))
  BY AddedInTurnIs
<1>2. m \in Nat
  BY DEF Addable
<1>3. OK(0, <<>>)
  <2>1. ComeFrom(lib, rows, 0, <<>>)
    <3> DEFINE from == [i \in {} |-> 1]
    <3>1. from \in [DOMAIN <<>> -> 1..0] /\ IsInjective(from)
      BY DEF IsInjective
    <3>2. \A i \in DOMAIN <<>> : FALSE
      OBVIOUS
    <3>3. <<>> \in Seq(Child)
      OBVIOUS
    <3> HIDE DEF from
    <3>4. QED
      BY <3>1, <3>2, <3>3 DEF ComeFrom
  <2>2. AllThere(lib, rows, 0, <<>>) /\ OrderedButOne(<<>>)
    BY DEF AllThere, OrderedButOne
  <2>3. QED
    BY <2>1, <2>2
<1>4. ASSUME NEW n \in 1..m, OK(n - 1, g[n - 1]) PROVE OK(n, g[n])
  <2>1. g[n] = AddNamed(g[n - 1], ItemOf(rows[n]), TextOf(lib, rows[n]))
    BY <1>1
  <2>2. ComeFrom(lib, rows, n, g[n])
    BY <1>4, <2>1, ComeFromStep
  <2>3. Told => AllThere(lib, rows, n, g[n])
    <3> SUFFICES ASSUME Told PROVE AllThere(lib, rows, n, g[n])
      OBVIOUS
    <3>1. ComeFrom(lib, rows, n - 1, g[n - 1]) /\ AllThere(lib, rows, n - 1, g[n - 1])
      BY <1>4
    <3>2. QED
      BY <2>1, <3>1, AllThereStep
  <2>4. Once => OrderedButOne(g[n])
    BY <1>4, <2>1, OrderedStep
  <2>5. QED
    BY <2>2, <2>3, <2>4
<1>5. OK(m, g[m])
  <2> DEFINE Good == {n \in 0..m : OK(n, g[n])}
  <2> HIDE DEF OK, m
  <2>1. 0 \in Good
    BY <1>1, <1>2, <1>3
  <2>2. \A n \in 1..m : n - 1 \in Good => n \in Good
    <3>1. \A n \in 1..m : OK(n - 1, g[n - 1]) => OK(n, g[n])
      BY <1>4
    <3>2. \A n \in 1..m : n \in 0..m
      BY <1>2
    <3>3. QED
      BY <3>1, <3>2, Zenon
  <2>3. 0..m \subseteq Good
    <3> HIDE DEF Good
    <3> QED BY <1>2, <2>1, <2>2, Upward
  <2>4. QED
    BY <1>2, <2>3
<1>6. QED
  BY <1>1, <1>5

-----------------------------------------------------------------------------
(* The tree of a library *)

\* The three categories, for which Row and filter write the set out.
Category == {FAVORITES, RPG, UNCATEGORIZED}

\* Each category has one row of its own.
CategoriesOnce(t) ==
    \A i, j \in DOMAIN t :
        t[i].app = 0 /\ t[j].app = 0 /\ t[i].category = t[j].category => i = j

\* The row of an app below a category, of the category itself for 0.
RowFor(c, a) == [category |-> c, app |-> a]

\* u is t with rows for the first k categories of the app.
Grown(t, u, a, cats, k) ==
    /\ u \in Seq(Row) /\ Len(t) <= Len(u) /\ CategoriesOnce(u)
    /\ \A i \in 1..Len(t) : u[i] = t[i]
    /\ \A i \in (Len(t) + 1)..Len(u) : u[i].app \in {0, a}
    /\ \E at \in [1..k -> (Len(t) + 1)..Len(u)] :
          /\ \A x \in 1..k : u[at[x]] = RowFor(cats[x], a)
          /\ \A i \in (Len(t) + 1)..Len(u) : u[i].app = a => \E x \in 1..k : at[x] = i

\* The categories of an app are some of the three.
LEMMA CategoriesAre ==
    ASSUME NEW app \in Title
    PROVE  CategoriesOf(app) \in Seq(Category) /\ DOMAIN CategoriesOf(app) = 1..Len(CategoriesOf(app))
<1>1. app.tags \in Seq(Tag)
  BY DEF Title
<1>2. CASE app.tags = <<>>
  <2>1. CategoriesOf(app) = <<UNCATEGORIZED>>
    BY <1>2 DEF CategoriesOf
  <2>2. UNCATEGORIZED \in Category
    BY DEF Category
  <2>3. QED
    BY <2>1, <2>2
<1>3. CASE app.tags # <<>>
  <2> DEFINE tags == app.tags
             cats == [i \in DOMAIN tags |-> CategoryOf(tags[i])]
  <2>1. CategoriesOf(app) = cats
    BY <1>3 DEF CategoriesOf
  <2>2. \A tag : CategoryOf(tag) \in Category
    BY DEF CategoryOf, Category
  <2>3. cats \in [1..Len(tags) -> Category] /\ Len(tags) \in Nat
    <3>1. DOMAIN tags = 1..Len(tags) /\ Len(tags) \in Nat
      BY <1>1
    <3> HIDE DEF tags
    <3>2. QED
      BY <2>2, <3>1
  <2> HIDE DEF cats, tags
  <2>4. QED
    BY <2>1, <2>3
<1>4. QED
  BY <1>2, <1>3

\* A new category is not there yet, so that it still occurs once.
LEMMA GrownByCategory ==
    ASSUME NEW t \in Seq(Row), NEW u, NEW a \in Nat \ {0}, NEW cats, NEW k \in Nat,
           Grown(t, u, a, cats, k), NEW c \in Category, ~HasCategory(u, c)
    PROVE  Grown(t, Append(u, RowFor(c, 0)), a, cats, k)
<1> DEFINE r == RowFor(c, 0)
           v == Append(u, r)
<1>1. u \in Seq(Row) /\ Len(u) \in Nat /\ Len(t) \in Nat /\ Len(t) <= Len(u)
      /\ DOMAIN u = 1..Len(u) /\ DOMAIN t = 1..Len(t)
  BY DEF Grown
<1>2. r \in Row /\ r.app = 0 /\ r.category = c
  BY DEF Row, RowFor, Category
<1>3. \A i \in DOMAIN u : ~(u[i].app = 0 /\ u[i].category = c)
  <2> SUFFICES ASSUME NEW i \in DOMAIN u, u[i].app = 0, u[i].category = c PROVE FALSE
    OBVIOUS
  <2>1. u[i] \in Row
    BY <1>1
  <2>2. u[i] = [category |-> c, app |-> 0]
    BY <2>1 DEF Row
  <2>3. QED
    BY <2>2 DEF HasCategory
<1> HIDE DEF r
<1>4. /\ v \in Seq(Row) /\ Len(v) = Len(u) + 1 /\ DOMAIN v = 1..(Len(u) + 1)
      /\ v[Len(u) + 1] = r
      /\ \A i \in 1..Len(u) : v[i] = u[i]
  BY <1>1, <1>2
<1> HIDE DEF v
<1>5. \A i \in DOMAIN v : i \in DOMAIN u \/ i = Len(u) + 1
  BY <1>1, <1>4
<1>6. CategoriesOnce(v)
  <2> SUFFICES ASSUME NEW i \in DOMAIN v, NEW j \in DOMAIN v, v[i].app = 0, v[j].app = 0,
                      v[i].category = v[j].category
               PROVE  i = j
    BY DEF CategoriesOnce
  <2>1. CASE i \in DOMAIN u /\ j \in DOMAIN u
    BY <1>1, <1>4, <2>1 DEF Grown, CategoriesOnce
  <2>2. CASE i \in DOMAIN u /\ j = Len(u) + 1
    BY <1>1, <1>2, <1>3, <1>4, <2>2
  <2>3. CASE i = Len(u) + 1 /\ j \in DOMAIN u
    BY <1>1, <1>2, <1>3, <1>4, <2>3
  <2>4. QED
    BY <1>5, <2>1, <2>2, <2>3
<1>7. PICK at \in [1..k -> (Len(t) + 1)..Len(u)] :
          /\ \A x \in 1..k : u[at[x]] = RowFor(cats[x], a)
          /\ \A i \in (Len(t) + 1)..Len(u) : u[i].app = a => \E x \in 1..k : at[x] = i
  BY DEF Grown
<1>8. at \in [1..k -> (Len(t) + 1)..Len(v)]
  BY <1>1, <1>4, <1>7
<1>9. \A x \in 1..k : v[at[x]] = RowFor(cats[x], a)
  <2> SUFFICES ASSUME NEW x \in 1..k PROVE v[at[x]] = RowFor(cats[x], a)
    OBVIOUS
  <2>1. at[x] \in 1..Len(u)
    BY <1>1, <1>7
  <2>2. QED
    BY <1>4, <1>7, <2>1
<1>10. \A i \in (Len(t) + 1)..Len(v) : v[i].app = a => \E x \in 1..k : at[x] = i
  <2> SUFFICES ASSUME NEW i \in (Len(t) + 1)..Len(v), v[i].app = a
               PROVE  \E x \in 1..k : at[x] = i
    OBVIOUS
  <2>1. i # Len(u) + 1
    BY <1>2, <1>4
  <2>2. i \in (Len(t) + 1)..Len(u) /\ i \in 1..Len(u)
    BY <1>1, <1>4, <2>1
  <2>3. QED
    BY <1>4, <1>7, <2>2
<1>11. \A i \in 1..Len(t) : v[i] = t[i]
  BY <1>1, <1>4 DEF Grown
<1>12. \A i \in (Len(t) + 1)..Len(v) : v[i].app \in {0, a}
  <2> SUFFICES ASSUME NEW i \in (Len(t) + 1)..Len(v) PROVE v[i].app \in {0, a}
    OBVIOUS
  <2>1. CASE i = Len(u) + 1
    BY <1>2, <1>4, <2>1
  <2>2. CASE i # Len(u) + 1
    <3>1. i \in (Len(t) + 1)..Len(u) /\ i \in 1..Len(u)
      BY <1>1, <1>4, <2>2
    <3>2. QED
      BY <1>4, <3>1 DEF Grown
  <2>3. QED
    BY <2>1, <2>2
<1>13. Len(t) <= Len(v)
  BY <1>1, <1>4
<1>14. Grown(t, v, a, cats, k)
  BY <1>4, <1>6, <1>8, <1>9, <1>10, <1>11, <1>12, <1>13 DEF Grown
<1>15. QED
  BY <1>14 DEF v, r

\* The row below it is the next one of the app.
LEMMA GrownByRow ==
    ASSUME NEW t \in Seq(Row), NEW u, NEW a \in Nat \ {0}, NEW cats \in Seq(Category),
           NEW k \in 1..Len(cats), Grown(t, u, a, cats, k - 1)
    PROVE  Grown(t, u \o <<RowFor(cats[k], a)>>, a, cats, k)
<1> DEFINE r == RowFor(cats[k], a)
           v == u \o <<r>>
<1>1. u \in Seq(Row) /\ Len(u) \in Nat /\ Len(t) \in Nat /\ Len(t) <= Len(u)
      /\ DOMAIN u = 1..Len(u) /\ DOMAIN t = 1..Len(t)
  BY DEF Grown
<1>2. r \in Row /\ r.app = a
  <2>1. cats[k] \in Category
    OBVIOUS
  <2>2. QED
    BY <2>1 DEF Row, RowFor, Category
<1> HIDE DEF r
<1>3. /\ v \in Seq(Row) /\ Len(v) = Len(u) + 1 /\ DOMAIN v = 1..(Len(u) + 1)
      /\ v[Len(u) + 1] = r
      /\ \A i \in 1..Len(u) : v[i] = u[i]
  BY <1>1, <1>2
<1> HIDE DEF v
<1>4. CategoriesOnce(v)
  <2> SUFFICES ASSUME NEW i \in DOMAIN v, NEW j \in DOMAIN v, v[i].app = 0, v[j].app = 0,
                      v[i].category = v[j].category
               PROVE  i = j
    BY DEF CategoriesOnce
  <2>1. i # Len(u) + 1 /\ j # Len(u) + 1
    BY <1>2, <1>3
  <2>2. i \in DOMAIN u /\ j \in DOMAIN u
    BY <1>1, <1>3, <2>1
  <2>3. QED
    BY <1>1, <1>3, <2>2 DEF Grown, CategoriesOnce
<1>5. PICK at \in [1..(k - 1) -> (Len(t) + 1)..Len(u)] :
          /\ \A x \in 1..(k - 1) : u[at[x]] = RowFor(cats[x], a)
          /\ \A i \in (Len(t) + 1)..Len(u) : u[i].app = a => \E x \in 1..(k - 1) : at[x] = i
  BY DEF Grown
<1> DEFINE to == [x \in 1..k |-> IF x = k THEN Len(u) + 1 ELSE at[x]]
<1>6. Len(cats) \in Nat /\ k \in Nat
  OBVIOUS
<1>7. \A x \in 1..k : x = k \/ x \in 1..(k - 1)
  BY <1>6
<1>8. \A x \in 1..(k - 1) : at[x] \in (Len(t) + 1)..Len(u) /\ at[x] \in 1..Len(u) /\ x \in 1..k /\ x # k
  BY <1>1, <1>5, <1>6
<1>9. to \in [1..k -> (Len(t) + 1)..Len(v)]
  BY <1>1, <1>3, <1>7, <1>8
<1>10. to[k] = Len(u) + 1 /\ \A x \in 1..(k - 1) : to[x] = at[x]
  BY <1>6, <1>8
<1> HIDE DEF to
<1>11. \A x \in 1..k : v[to[x]] = RowFor(cats[x], a)
  <2> SUFFICES ASSUME NEW x \in 1..k PROVE v[to[x]] = RowFor(cats[x], a)
    OBVIOUS
  <2>1. CASE x = k
    BY <1>3, <1>10, <2>1 DEF r
  <2>2. CASE x \in 1..(k - 1)
    BY <1>3, <1>5, <1>8, <1>10, <2>2
  <2>3. QED
    BY <1>7, <2>1, <2>2
<1>12. \A i \in (Len(t) + 1)..Len(v) : v[i].app = a => \E x \in 1..k : to[x] = i
  <2> SUFFICES ASSUME NEW i \in (Len(t) + 1)..Len(v), v[i].app = a
               PROVE  \E x \in 1..k : to[x] = i
    OBVIOUS
  <2>1. CASE i = Len(u) + 1
    BY <1>6, <1>10, <2>1
  <2>2. CASE i # Len(u) + 1
    <3>1. i \in (Len(t) + 1)..Len(u) /\ i \in 1..Len(u)
      BY <1>1, <1>3, <2>2
    <3>2. PICK x \in 1..(k - 1) : at[x] = i
      BY <1>3, <1>5, <3>1
    <3>3. QED
      BY <1>8, <1>10, <3>2
  <2>3. QED
    BY <2>1, <2>2
<1>13. \A i \in 1..Len(t) : v[i] = t[i]
  BY <1>1, <1>3 DEF Grown
<1>14. \A i \in (Len(t) + 1)..Len(v) : v[i].app \in {0, a}
  <2> SUFFICES ASSUME NEW i \in (Len(t) + 1)..Len(v) PROVE v[i].app \in {0, a}
    OBVIOUS
  <2>1. CASE i = Len(u) + 1
    BY <1>2, <1>3, <2>1
  <2>2. CASE i # Len(u) + 1
    <3>1. i \in (Len(t) + 1)..Len(u) /\ i \in 1..Len(u)
      BY <1>1, <1>3, <2>2
    <3>2. QED
      BY <1>3, <3>1 DEF Grown
  <2>3. QED
    BY <2>1, <2>2
<1>15. Len(t) <= Len(v)
  BY <1>1, <1>3
<1>16. Grown(t, v, a, cats, k)
  BY <1>3, <1>4, <1>9, <1>11, <1>12, <1>13, <1>14, <1>15 DEF Grown
<1>17. QED
  BY <1>16 DEF v, r

\* One pass of the loop of addApp.
LEMMA WithRowIs ==
    ASSUME NEW t \in Seq(Row), NEW u, NEW a \in Nat \ {0}, NEW cats \in Seq(Category),
           NEW k \in 1..Len(cats), Grown(t, u, a, cats, k - 1)
    PROVE  Grown(t, WithRow(u, cats[k], a), a, cats, k)
<1> DEFINE c == cats[k]
           v == IF HasCategory(u, c) THEN u ELSE Append(u, RowFor(c, 0))
<1>1. c \in Category /\ k - 1 \in Nat
  OBVIOUS
<1> HIDE DEF c
<1>2. Grown(t, v, a, cats, k - 1)
  BY <1>1, GrownByCategory
<1>3. Grown(t, v \o <<RowFor(cats[k], a)>>, a, cats, k)
  <2> HIDE DEF v
  <2> QED BY <1>2, GrownByRow
<1>4. QED
  BY <1>3 DEF WithRow, RowFor, c

\* addApp adds a row for each tag and nothing else but missing categories.
LEMMA AddAppIs ==
    ASSUME NEW lib \in Seq(Title), NEW t \in Seq(Row), CategoriesOnce(t), NEW a \in DOMAIN lib
    PROVE  LET cats == CategoriesOf(lib[a])
           IN  Grown(t, addApp(lib, t, a), a, cats, Len(cats))
<1> DEFINE cats == CategoriesOf(lib[a])
           m == Len(cats)
           Add(u, n) == WithRow(u, cats[n], a)
           IsLoop(f) == f = [n \in 0..m |-> IF n = 0 THEN t ELSE Add(f[n - 1], n)]
           g == CHOOSE f : IsLoop(f)
           step == [n \in 1..m |-> [u \in Seq(Row) |-> Add(u, n)]]
<1>1. lib[a] \in Title /\ a \in Nat \ {0}
  OBVIOUS
<1>2. cats \in Seq(Category) /\ DOMAIN cats = 1..m
  BY <1>1, CategoriesAre
<1> HIDE DEF cats
<1>3. m \in Nat /\ \A n \in 1..m : cats[n] \in Category
  BY <1>2
<1> HIDE DEF m
<1>4. ASSUME NEW u \in Seq(Row), NEW n \in 1..m PROVE Add(u, n) \in Seq(Row)
  <2>1. [category |-> cats[n], app |-> a] \in Row /\ [category |-> cats[n], app |-> 0] \in Row
    BY <1>1, <1>3 DEF Row, Category
  <2>2. QED
    BY <2>1 DEF WithRow
<1> HIDE DEF Add
<1>5. \E f : IsLoop(f)
  <2> DEFINE V == Seq(Row)
  <2>1. step \in [1..m -> [V -> V]] /\ t \in V
    BY <1>4
  <2>2. \A n \in 1..m : \A u \in V : step[n][u] = Add(u, n)
    OBVIOUS
  <2> HIDE DEF step, V
  <2>3. PICK h \in [0..m -> V] : h[0] = t /\ \A n \in 1..m : h[n] = step[n][h[n - 1]]
    <3>1. m \in Nat /\ step \in [1..m -> [V -> V]] /\ t \in V
      BY <1>3, <2>1
    <3>2. \E h \in [0..m -> V] : Steps(t, m, step, h)
      BY <3>1, LoopExists
    <3>3. QED
      BY <3>2 DEF Steps
  <2>4. \A n \in 1..m : h[n - 1] \in V
    BY <1>3
  <2>5. \A n \in 0..m : h[n] = IF n = 0 THEN t ELSE Add(h[n - 1], n)
    BY <1>3, <2>2, <2>3, <2>4
  <2>6. IsLoop(h)
    BY <2>5
  <2>7. QED
    BY <2>6
<1>6. IsLoop(g)
  <2> HIDE DEF IsLoop
  <2> QED BY <1>5
<1>7. addApp(lib, t, a) = g[m]
  BY DEF addApp, cats, m, Add
<1> HIDE DEF g
<1>8. g[0] = t /\ \A n \in 1..m : g[n] = Add(g[n - 1], n)
  <2>1. \A n \in 0..m : g[n] = IF n = 0 THEN t ELSE Add(g[n - 1], n)
    BY <1>6
  <2>2. QED
    BY <1>3, <2>1
<1>9. Grown(t, g[0], a, cats, 0)
  <2>1. Len(t) \in Nat /\ DOMAIN t = 1..Len(t)
    OBVIOUS
  <2>2. (Len(t) + 1)..Len(t) = {} /\ 1..0 = {}
    BY <2>1
  <2>3. [x \in {} |-> x] \in [1..0 -> (Len(t) + 1)..Len(t)]
    BY <2>2
  <2>4. /\ \A x \in 1..0 : FALSE
        /\ \A i \in (Len(t) + 1)..Len(t) : FALSE
    BY <2>2
  <2>5. \E at \in [1..0 -> (Len(t) + 1)..Len(t)] :
           /\ \A x \in 1..0 : t[at[x]] = RowFor(cats[x], a)
           /\ \A i \in (Len(t) + 1)..Len(t) : t[i].app = a => \E x \in 1..0 : at[x] = i
    BY <2>3, <2>4
  <2>6. \A i \in (Len(t) + 1)..Len(t) : t[i].app \in {0, a}
    BY <2>4
  <2>7. Grown(t, t, a, cats, 0)
    <3>1. Len(t) <= Len(t) /\ \A i \in 1..Len(t) : t[i] = t[i]
      BY <2>1
    <3>2. QED
      BY <2>5, <2>6, <3>1, Zenon DEF Grown
  <2>8. QED
    BY <1>8, <2>7
<1>10. ASSUME NEW n \in 1..m, Grown(t, g[n - 1], a, cats, n - 1) PROVE Grown(t, g[n], a, cats, n)
  BY <1>1, <1>2, <1>8, <1>10, WithRowIs DEF m, Add
<1>11. Grown(t, g[m], a, cats, m)
  <2> DEFINE Good == {n \in 0..m : Grown(t, g[n], a, cats, n)}
  <2>1. 0 \in Good /\ \A n \in 1..m : n - 1 \in Good => n \in Good
    BY <1>3, <1>9, <1>10
  <2>2. 0..m \subseteq Good
    <3> HIDE DEF Good
    <3> QED BY <1>3, <2>1, Upward
  <2>3. QED
    BY <1>3, <2>2
<1>12. QED
  BY <1>7, <1>11 DEF cats, m

\* Each category of the app has a row, and there are no other rows of the app.
RowsOfApp(t, a, cats) ==
    \E at \in [1..Len(cats) -> DOMAIN t] :
        /\ \A x \in 1..Len(cats) : t[at[x]] = RowFor(cats[x], a)
        /\ \A i \in DOMAIN t : t[i].app = a => \E x \in 1..Len(cats) : at[x] = i

\* t is the tree of the first n apps.
IsTree(lib, n, t) ==
    /\ t \in Seq(Row) /\ CategoriesOnce(t)
    /\ \A i \in DOMAIN t : t[i].app # 0 => t[i].app \in 1..n /\ lib[t[i].app].type # "Dlc"
    /\ \A a \in 1..n : lib[a].type # "Dlc" => RowsOfApp(t, a, CategoriesOf(lib[a]))

\* addApp takes the tree of n - 1 apps to that of n.
LEMMA TreeStep ==
    ASSUME NEW lib \in Seq(Title), NEW n \in DOMAIN lib, NEW t, IsTree(lib, n - 1, t),
           lib[n].type # "Dlc"
    PROVE  IsTree(lib, n, addApp(lib, t, n))
<1> DEFINE cats == CategoriesOf(lib[n])
           u == addApp(lib, t, n)
           m == Len(cats)
<1>1. t \in Seq(Row) /\ CategoriesOnce(t) /\ Len(t) \in Nat /\ DOMAIN t = 1..Len(t)
  BY DEF IsTree
<1>2. Grown(t, u, n, cats, m)
  BY <1>1, AddAppIs
<1> HIDE DEF u, cats, m
<1>3. /\ u \in Seq(Row) /\ CategoriesOnce(u) /\ Len(u) \in Nat /\ DOMAIN u = 1..Len(u)
      /\ Len(t) <= Len(u) /\ \A i \in 1..Len(t) : u[i] = t[i]
  BY <1>2 DEF Grown
<1>4. n \in Nat \ {0} /\ \A i \in DOMAIN t : t[i].app # n
  BY DEF IsTree
<1>5. \A i \in DOMAIN u : i \in DOMAIN t \/ i \in (Len(t) + 1)..Len(u)
  BY <1>1, <1>3
<1>6. ASSUME NEW i \in DOMAIN u, u[i].app # 0 PROVE u[i].app \in 1..n /\ lib[u[i].app].type # "Dlc"
  <2>1. CASE i \in DOMAIN t
    <3>1. t[i].app \in 1..(n - 1) /\ lib[t[i].app].type # "Dlc" /\ u[i] = t[i]
      BY <1>1, <1>3, <1>6, <2>1 DEF IsTree
    <3>2. QED
      BY <1>4, <3>1
  <2>2. CASE i \in (Len(t) + 1)..Len(u)
    <3>1. u[i].app = n
      BY <1>2, <1>6, <2>2 DEF Grown
    <3>2. QED
      BY <1>4, <3>1
  <2>3. QED
    BY <1>5, <2>1, <2>2
<1>7. ASSUME NEW a \in 1..(n - 1), lib[a].type # "Dlc"
      PROVE  RowsOfApp(u, a, CategoriesOf(lib[a]))
  <2> DEFINE k == Len(CategoriesOf(lib[a]))
             its == CategoriesOf(lib[a])
  <2>1. PICK at \in [1..k -> DOMAIN t] :
           /\ \A x \in 1..k : t[at[x]] = RowFor(its[x], a)
           /\ \A i \in DOMAIN t : t[i].app = a => \E x \in 1..k : at[x] = i
    BY <1>7 DEF IsTree, RowsOfApp
  <2> HIDE DEF k, its
  <2>2. DOMAIN t \subseteq DOMAIN u
    BY <1>1, <1>3
  <2>3. at \in [1..k -> DOMAIN u]
    BY <2>2
  <2>4. \A x \in 1..k : u[at[x]] = RowFor(its[x], a)
    BY <1>1, <1>3, <2>1
  <2>5. \A i \in DOMAIN u : u[i].app = a => \E x \in 1..k : at[x] = i
    <3> SUFFICES ASSUME NEW i \in DOMAIN u, u[i].app = a PROVE \E x \in 1..k : at[x] = i
      OBVIOUS
    <3>1. a # 0 /\ a # n
      BY <1>4
    <3>2. i \in DOMAIN t
      BY <1>2, <1>5, <3>1 DEF Grown
    <3>3. QED
      BY <1>1, <1>3, <2>1, <3>2
  <2>6. QED
    BY <2>3, <2>4, <2>5 DEF RowsOfApp, k, its
<1>8. RowsOfApp(u, n, cats)
  <2>1. PICK at \in [1..m -> (Len(t) + 1)..Len(u)] :
           /\ \A x \in 1..m : u[at[x]] = RowFor(cats[x], n)
           /\ \A i \in (Len(t) + 1)..Len(u) : u[i].app = n => \E x \in 1..m : at[x] = i
    BY <1>2 DEF Grown
  <2>2. (Len(t) + 1)..Len(u) \subseteq DOMAIN u
    BY <1>1, <1>3
  <2>3. at \in [1..m -> DOMAIN u]
    BY <2>2
  <2>4. \A i \in DOMAIN u : u[i].app = n => \E x \in 1..m : at[x] = i
    BY <1>1, <1>3, <1>4, <1>5, <2>1
  <2>5. QED
    BY <2>1, <2>3, <2>4 DEF RowsOfApp, m
<1>9. \A a \in 1..n : a = n \/ a \in 1..(n - 1)
  BY <1>4
<1>10. IsTree(lib, n, u)
  BY <1>3, <1>6, <1>7, <1>8, <1>9 DEF IsTree, cats
<1>11. QED
  BY <1>10 DEF u

\* The loop of LoadApps, in which DLC is passed over.
LEMMA TreeIs == ASSUME NEW lib \in Seq(Title) PROVE IsTree(lib, Len(lib), TreeOf(lib))
<1> DEFINE m == Len(lib)
           Add(t, n) == IF lib[n].type = "Dlc" THEN t ELSE addApp(lib, t, n)
           IsLoop(f) == f = [n \in 0..m |-> IF n = 0 THEN <<>>
                                            ELSE IF lib[n].type = "Dlc" THEN f[n - 1]
                                            ELSE addApp(lib, f[n - 1], n)]
           V == {t \in Seq(Row) : CategoriesOnce(t)}
           g == CHOOSE f : IsLoop(f)
           step == [n \in 1..m |-> [t \in V |-> Add(t, n)]]
<1>1. m \in Nat /\ DOMAIN lib = 1..m
  OBVIOUS
<1>2. ASSUME NEW t \in V, NEW n \in 1..m PROVE Add(t, n) \in V
  BY <1>1, AddAppIs DEF Grown
<1>3. <<>> \in V
  BY DEF CategoriesOnce
<1> HIDE DEF m, V
<1>4. \E f : IsLoop(f)
  <2>1. step \in [1..m -> [V -> V]]
    <3> HIDE DEF Add
    <3> QED BY <1>2
  <2>2. \A n \in 1..m : \A t \in V : step[n][t] = Add(t, n)
    <3> HIDE DEF Add
    <3> QED OBVIOUS
  <2> HIDE DEF step
  <2>3. PICK h \in [0..m -> V] : h[0] = <<>> /\ \A n \in 1..m : h[n] = step[n][h[n - 1]]
    <3>1. m \in Nat /\ step \in [1..m -> [V -> V]] /\ <<>> \in V
      BY <1>1, <1>3, <2>1
    <3> HIDE DEF Add
    <3>2. \E h \in [0..m -> V] : Steps(<<>>, m, step, h)
      BY <3>1, LoopExists
    <3>3. QED
      BY <3>2 DEF Steps
  <2>4. \A n \in 1..m : h[n - 1] \in V
    BY <1>1
  <2>5. \A n \in 1..m : h[n] = Add(h[n - 1], n)
    <3> HIDE DEF Add
    <3> QED BY <2>2, <2>3, <2>4
  <2>6. \A n \in 0..m : h[n] = IF n = 0 THEN <<>>
                               ELSE IF lib[n].type = "Dlc" THEN h[n - 1]
                               ELSE addApp(lib, h[n - 1], n)
    BY <1>1, <2>3, <2>5
  <2>7. IsLoop(h)
    BY <2>6
  <2>8. QED
    BY <2>7
<1>5. IsLoop(g)
  <2> HIDE DEF IsLoop
  <2> QED BY <1>4
<1>6. TreeOf(lib) = g[m]
  BY DEF TreeOf, m
<1> HIDE DEF g
<1>7. g[0] = <<>> /\ \A n \in 1..m : g[n] = Add(g[n - 1], n)
  <2>1. \A n \in 0..m : g[n] = IF n = 0 THEN <<>>
                               ELSE IF lib[n].type = "Dlc" THEN g[n - 1]
                               ELSE addApp(lib, g[n - 1], n)
    BY <1>5
  <2>2. QED
    BY <1>1, <2>1
<1>8. IsTree(lib, 0, g[0])
  BY <1>7 DEF IsTree, CategoriesOnce
<1>9. ASSUME NEW n \in 1..m, IsTree(lib, n - 1, g[n - 1]) PROVE IsTree(lib, n, g[n])
  <2>1. n \in DOMAIN lib
    BY <1>1
  <2>2. CASE lib[n].type # "Dlc"
    BY <1>7, <1>9, <2>1, <2>2, TreeStep
  <2>3. CASE lib[n].type = "Dlc"
    <3>1. g[n] = g[n - 1]
      BY <1>7, <2>3
    <3>2. \A a \in 1..n : lib[a].type # "Dlc" => a \in 1..(n - 1)
      BY <1>1, <2>3
    <3>3. 1..(n - 1) \subseteq 1..n
      BY <1>1
    <3>4. QED
      BY <1>9, <3>1, <3>2, <3>3 DEF IsTree
  <2>4. QED
    BY <2>2, <2>3
<1>10. IsTree(lib, m, g[m])
  <2> DEFINE Good == {n \in 0..m : IsTree(lib, n, g[n])}
  <2>1. 0 \in Good /\ \A n \in 1..m : n - 1 \in Good => n \in Good
    BY <1>1, <1>8, <1>9
  <2>2. 0..m \subseteq Good
    <3> HIDE DEF Good
    <3> QED BY <1>1, <2>1, Upward
  <2>3. QED
    BY <1>1, <2>2
<1>11. QED
  BY <1>6, <1>10 DEF m

-----------------------------------------------------------------------------
(* The filter *)

\* The categories that are shown are in order but for one.
LEMMA CategoriesShown ==
    ASSUME NEW lib, NEW t \in Seq(Row), CategoriesOnce(t)
    PROVE  LET s == AddedInTurn(lib, Picked(t, {i \in DOMAIN t : t[i].app = 0}))
           IN  s \in Seq(Child) /\ OrderedButOne(s)
<1> DEFINE places == {i \in DOMAIN t : t[i].app = 0}
           rows == Picked(t, places)
<1>1. rows \in Seq(Row)
  BY PickedIsInOrder
<1>2. PICK at : InOrder(t, places, Len(t), rows, at)
  BY PickedIsInOrder
<1>3. \A p \in places : p \in DOMAIN t /\ t[p] \in Row /\ t[p].app = 0
  OBVIOUS
<1> HIDE DEF places, rows
<1>4. DOMAIN rows = 1..Len(rows) /\ Len(rows) \in Nat
  BY <1>1
<1>5. \A k \in DOMAIN rows : rows[k] = t[at[k]] /\ at[k] \in places /\ at[k] \in Int
  BY <1>2, <1>4 DEF InOrder
<1>6. ASSUME NEW k \in DOMAIN rows
      PROVE  /\ rows[k].app = 0
             /\ ItemOf(rows[k]) = rows[k].category /\ TextOf(lib, rows[k]) = rows[k].category
             /\ ChildOf(lib, rows[k]) \in Child
  <2>1. rows[k].app = 0 /\ rows[k] \in Row
    BY <1>3, <1>5
  <2>2. rows[k].category \in Nat
    BY <2>1 DEF Row, FAVORITES, RPG, UNCATEGORIZED
  <2>3. QED
    BY <2>1, <2>2 DEF ItemOf, TextOf, ChildOf, Child
<1>7. ASSUME NEW j \in DOMAIN rows, NEW k \in DOMAIN rows, rows[j].category = rows[k].category
      PROVE  j = k
  <2>1. at[j] = at[k]
    BY <1>3, <1>5, <1>7 DEF CategoriesOnce
  <2>2. ~(j < k) /\ ~(k < j)
    BY <1>2, <1>4, <1>5, <2>1 DEF InOrder
  <2>3. QED
    BY <1>4, <2>2
<1>8. Addable(lib, rows)
  BY <1>1, <1>6 DEF Addable
<1>9. ComeFrom(lib, rows, Len(rows), AddedInTurn(lib, rows)) /\ OrderedButOne(AddedInTurn(lib, rows))
  BY <1>6, <1>7, <1>8, ChildrenAre
<1>10. QED
  BY <1>9 DEF ComeFrom, rows, places

\* Apps that can be told apart by their names.
NamesDiffer(lib) ==
    /\ \A a, b \in DOMAIN lib : lib[a].name = lib[b].name => a = b
    /\ \A a \in DOMAIN lib : lib[a].name # EMPTY

\* s shows the rows of t at places: each child is of one, no two of the same, and
\* each has a child.
ShowsRows(lib, t, places, s) ==
    /\ s \in Seq(Child)
    /\ \E from \in [DOMAIN s -> places] :
          IsInjective(from) /\ \A i \in DOMAIN s : s[i].item = t[from[i]].app
    /\ NamesDiffer(lib) => \A p \in places : \E i \in DOMAIN s : s[i].item = t[p].app

\* The children below a category come from the rows that were picked for it.
LEMMA AppsShown ==
    ASSUME NEW lib \in Seq(Title), NEW t \in Seq(Row), NEW places \in SUBSET DOMAIN t,
           \A p \in places : t[p].app \in DOMAIN lib
    PROVE  ShowsRows(lib, t, places, AddedInTurn(lib, Picked(t, places)))
<1> DEFINE rows == Picked(t, places)
           s == AddedInTurn(lib, rows)
<1>1. rows \in Seq(Row)
  BY PickedIsInOrder
<1>2. PICK at : InOrder(t, places, Len(t), rows, at)
  BY PickedIsInOrder
<1>3. DOMAIN lib = 1..Len(lib) /\ Len(lib) \in Nat
  OBVIOUS
<1>4. \A a \in DOMAIN lib : lib[a].name \in Nat
  <2>1. \A a \in DOMAIN lib : lib[a] \in Title
    BY <1>3
  <2>2. QED
    BY <2>1, GameListAssumption DEF Title
<1> HIDE DEF rows, s
<1>5. DOMAIN rows = 1..Len(rows) /\ Len(rows) \in Nat
  BY <1>1
<1>6. /\ at \in [1..Len(rows) -> places] /\ \A k \in DOMAIN rows : at[k] \in Int
      /\ \A j, k \in DOMAIN rows : j < k => at[j] < at[k]
      /\ \A k \in DOMAIN rows : rows[k] = t[at[k]]
      /\ \A p \in places : \E k \in DOMAIN rows : at[k] = p
  <2>1. /\ at \in [1..Len(rows) -> places \cap (1..Len(t))]
        /\ \A j, k \in DOMAIN rows : j < k => at[j] < at[k]
        /\ \A k \in DOMAIN rows : rows[k] = t[at[k]]
        /\ \A p \in places \cap (1..Len(t)) : \E k \in DOMAIN rows : at[k] = p
    BY <1>2, <1>5 DEF InOrder
  <2>2. places \cap (1..Len(t)) = places
    OBVIOUS
  <2>3. QED
    BY <1>5, <2>1, <2>2
<1>7. ASSUME NEW k \in DOMAIN rows
      PROVE  /\ rows[k].app = t[at[k]].app /\ rows[k].app \in DOMAIN lib
             /\ ItemOf(rows[k]) = rows[k].app /\ TextOf(lib, rows[k]) = lib[rows[k].app].name
             /\ ChildOf(lib, rows[k]) \in Child
  <2>1. rows[k].app = t[at[k]].app /\ rows[k].app \in DOMAIN lib
    BY <1>5, <1>6
  <2>2. rows[k].app # 0 /\ rows[k].app \in Nat /\ lib[rows[k].app].name \in Nat
    BY <1>3, <1>4, <2>1
  <2>3. QED
    BY <2>1, <2>2 DEF ItemOf, TextOf, ChildOf, Child
<1>8. Addable(lib, rows)
  <2>1. \A j, k \in DOMAIN rows :
          ItemOf(rows[j]) = ItemOf(rows[k]) => TextOf(lib, rows[j]) = TextOf(lib, rows[k])
    BY <1>7
  <2>2. QED
    BY <1>1, <1>7, <2>1 DEF Addable
<1>9. ComeFrom(lib, rows, Len(rows), s)
  BY <1>8, ChildrenAre DEF s
<1>10. PICK of \in [DOMAIN s -> 1..Len(rows)] :
          IsInjective(of) /\ \A i \in DOMAIN s : s[i] = ChildOf(lib, rows[of[i]])
  BY <1>9 DEF ComeFrom
<1> DEFINE from == [i \in DOMAIN s |-> at[of[i]]]
<1>11. from \in [DOMAIN s -> places]
  BY <1>6, <1>10
<1>12. \A i \in DOMAIN s : s[i].item = t[from[i]].app
  <2> SUFFICES ASSUME NEW i \in DOMAIN s PROVE s[i].item = t[from[i]].app
    OBVIOUS
  <2>1. of[i] \in DOMAIN rows /\ s[i].item = ItemOf(rows[of[i]])
    BY <1>5, <1>10 DEF ChildOf
  <2>2. from[i] = at[of[i]]
    OBVIOUS
  <2>3. QED
    BY <1>7, <2>1, <2>2
<1>13. IsInjective(from)
  <2>1. ASSUME NEW i \in DOMAIN s, NEW j \in DOMAIN s, from[i] = from[j] PROVE i = j
    <3>1. at[of[i]] = at[of[j]] /\ of[i] \in DOMAIN rows /\ of[j] \in DOMAIN rows
      BY <1>5, <1>10, <2>1
    <3>2. ~(of[i] < of[j]) /\ ~(of[j] < of[i])
      BY <1>6, <3>1
    <3>3. of[i] = of[j]
      BY <1>5, <3>1, <3>2
    <3>4. QED
      BY <1>10, <3>3 DEF IsInjective
  <2>2. DOMAIN from = DOMAIN s
    OBVIOUS
  <2> HIDE DEF from
  <2>3. QED
    BY <2>1, <2>2 DEF IsInjective
<1> HIDE DEF from
<1>14. ASSUME NamesDiffer(lib), NEW p \in places PROVE \E i \in DOMAIN s : s[i].item = t[p].app
  <2>1. \A k \in DOMAIN rows : TextOf(lib, rows[k]) # EMPTY
    BY <1>7, <1>14 DEF NamesDiffer
  <2>2. ASSUME NEW j \in DOMAIN rows, NEW k \in DOMAIN rows,
               TextOf(lib, rows[j]) = TextOf(lib, rows[k])
        PROVE  ItemOf(rows[j]) = ItemOf(rows[k])
    <3>1. lib[t[at[j]].app].name = lib[t[at[k]].app].name
      BY <1>7, <2>2
    <3>2. QED
      BY <1>7, <1>14, <3>1 DEF NamesDiffer
  <2>3. AllThere(lib, rows, Len(rows), s)
    BY <1>8, <2>1, <2>2, ChildrenAre DEF s
  <2>4. PICK k \in DOMAIN rows : at[k] = p
    BY <1>6
  <2>5. PICK i \in DOMAIN s : s[i] = ChildOf(lib, rows[k])
    BY <1>5, <2>3 DEF AllThere
  <2>6. s[i].item = t[p].app
    BY <1>7, <2>4, <2>5 DEF ChildOf
  <2>7. QED
    BY <2>6
<1>15. s \in Seq(Child)
  BY <1>9 DEF ComeFrom
<1>16. ShowsRows(lib, t, places, s)
  BY <1>11, <1>12, <1>13, <1>14, <1>15 DEF ShowsRows
<1>17. QED
  BY <1>16 DEF s, rows

\* The rows of a category whose apps match.
Matching(lib, t, types, names, c) ==
    {i \in DOMAIN t : /\ t[i].app # 0 /\ t[i].category = c
                      /\ types = {} \/ lib[t[i].app].type \in types
                      /\ names = ANY \/ lib[t[i].app].name \in names}

\* What filter gives of a tree of the library.
LEMMA FilterIs ==
    ASSUME NEW lib \in Seq(Title), NEW t, IsTree(lib, Len(lib), t), NEW types, NEW names,
           NEW states, states.state = Invalid
    PROVE  LET s == filter(lib, t, types, names, states)
           IN  /\ s.root \in Seq(Child) /\ OrderedButOne(s.root)
               /\ DOMAIN s.below = Category
               /\ \A c \in Category :
                     ShowsRows(lib, t, Matching(lib, t, types, names, c), s.below[c])
<1> DEFINE s == filter(lib, t, types, names, states)
           Rows(c) == Matching(lib, t, types, names, c)
<1>1. t \in Seq(Row) /\ CategoriesOnce(t) /\ DOMAIN lib = 1..Len(lib)
  BY DEF IsTree
<1>2. s.root = AddedInTurn(lib, Picked(t, {i \in DOMAIN t : t[i].app = 0}))
  BY DEF filter
<1>3. DOMAIN s.below = Category
  BY DEF filter, Category
<1>4. ASSUME NEW c \in Category PROVE s.below[c] = AddedInTurn(lib, Picked(t, Rows(c)))
  <2> DEFINE Passing == {i \in DOMAIN t \ {j \in DOMAIN t : t[j].app = 0} :
                           t[i].category = c /\ Passes(lib[t[i].app], types, names, states)}
  <2>1. Passing = Rows(c)
    BY DEF Passes, Matching
  <2>2. s.below[c] = AddedInTurn(lib, Picked(t, Passing))
    BY DEF filter, Category
  <2>3. QED
    BY <2>1, <2>2
<1>5. ASSUME NEW c \in Category PROVE ShowsRows(lib, t, Rows(c), s.below[c])
  <2>1. Rows(c) \in SUBSET DOMAIN t /\ \A p \in Rows(c) : t[p].app # 0
    BY DEF Matching
  <2> HIDE DEF s, Rows
  <2>2. \A p \in Rows(c) : t[p].app \in DOMAIN lib
    BY <1>1, <2>1 DEF IsTree
  <2>3. QED
    BY <1>1, <1>4, <2>1, <2>2, AppsShown
<1>6. s.root \in Seq(Child) /\ OrderedButOne(s.root)
  <2> HIDE DEF s
  <2> QED BY <1>1, <1>2, CategoriesShown
<1>7. QED
  BY <1>3, <1>5, <1>6

-----------------------------------------------------------------------------
(* The theorems *)

\* The tree and the list are functions of the library and the filters; the state
\* filter is never set.
GameListInv ==
    /\ library \in Seq(Title)
    /\ typeFilter \subseteq AppType /\ nameFilter \subseteq Names
    /\ stateFilter \in [state : {Invalid}, flags : SUBSET Flag]
    /\ library = <<>> =>
          shown = [root |-> <<>>, below |-> [c \in {FAVORITES, RPG, UNCATEGORIZED} |-> <<>>]]
    /\ tree = IF library = <<>> THEN <<>> ELSE TreeOf(library)
    /\ library # <<>> => shown = filter(library, tree, typeFilter, nameFilter, stateFilter)

\* An empty list at first.
LEMMA GameListInitInv == GameListInit => GameListInv
BY DEF GameListInit, GameListInv, ANY, Invalid

\* Each step that changes a filter filters again.
LEMMA GameListNextInv == GameListInv /\ [GameListNext]_gameListVars => GameListInv'
<1> SUFFICES ASSUME GameListInv, [GameListNext]_gameListVars PROVE GameListInv'
  OBVIOUS
<1>1. ASSUME NEW lib \in Libraries, LoadLibrary(lib) PROVE GameListInv'
  <2>1. lib \in Seq(Title) /\ lib # <<>>
    BY <1>1, GameListAssumption DEF LoadLibrary
  <2>2. QED
    BY <1>1, <2>1 DEF GameListInv, LoadLibrary
<1>2. ASSUME NEW types \in SUBSET {"Game", "Music"}, setTypeFilter(types) PROVE GameListInv'
  BY <1>2 DEF GameListInv, setTypeFilter, AppType
<1>3. ASSUME NEW names \in Searches \cup {ANY}, setNameContainsFilter(names) PROVE GameListInv'
  <2>1. names \subseteq Names
    BY GameListAssumption DEF ANY
  <2>2. QED
    BY <1>3, <2>1 DEF GameListInv, setNameContainsFilter
<1>4. ASSUME NEW flag \in Flag, setStateFilter(flag) PROVE GameListInv'
  <2>1. stateFilter' \in [state : {Invalid}, flags : SUBSET Flag]
    BY <1>4 DEF GameListInv, setStateFilter
  <2>2. QED
    BY <1>4, <2>1 DEF GameListInv, setStateFilter
<1>5. CASE UNCHANGED gameListVars
  BY <1>5 DEF gameListVars, GameListInv
<1>6. QED
  BY <1>1, <1>2, <1>3, <1>4, <1>5 DEF GameListNext

\* The invariant holds.
LEMMA GameListAlways == GameListSpec => []GameListInv
BY GameListInitInv, GameListNextInv, PTL DEF GameListSpec

\* What is shown, before and after a library is loaded.
LEMMA ShownIs ==
    ASSUME GameListInv
    PROVE  /\ tree \in Seq(Row)
           /\ shown.root \in Seq(Child) /\ OrderedButOne(shown.root)
           /\ DOMAIN shown.below = Category
           /\ \A c \in Category :
                 ShowsRows(library, tree, Matching(library, tree, typeFilter, nameFilter, c),
                           shown.below[c])
           /\ IsTree(library, Len(library), tree)
<1>1. library \in Seq(Title) /\ stateFilter.state = Invalid
  BY DEF GameListInv
<1>2. CASE library = <<>>
  <2>1. /\ tree = <<>> /\ shown.root = <<>> /\ DOMAIN shown.below = Category
        /\ \A c \in Category : shown.below[c] = <<>>
    BY <1>2 DEF GameListInv, Category
  <2>2. OrderedButOne(<<>>) /\ <<>> \in Seq(Child) /\ <<>> \in Seq(Row)
    BY DEF OrderedButOne
  <2>3. IsTree(<<>>, 0, <<>>)
    BY <2>2 DEF IsTree, CategoriesOnce
  <2>4. ASSUME NEW c PROVE ShowsRows(<<>>, <<>>, Matching(<<>>, <<>>, typeFilter, nameFilter, c), <<>>)
    <3>1. Matching(<<>>, <<>>, typeFilter, nameFilter, c) = {}
      BY DEF Matching
    <3> DEFINE from == [i \in {} |-> i]
    <3>2. from \in [DOMAIN <<>> -> {}] /\ IsInjective(from)
      BY DEF IsInjective
    <3>3. \A i \in DOMAIN <<>> : FALSE
      OBVIOUS
    <3> HIDE DEF from
    <3>4. QED
      BY <2>2, <3>1, <3>2, <3>3 DEF ShowsRows
  <2>5. QED
    BY <1>2, <2>1, <2>2, <2>3, <2>4
<1>3. CASE library # <<>>
  <2>1. tree = TreeOf(library) /\ shown = filter(library, tree, typeFilter, nameFilter, stateFilter)
    BY <1>3 DEF GameListInv
  <2>2. IsTree(library, Len(library), tree)
    BY <1>1, <2>1, TreeIs
  <2>3. tree \in Seq(Row)
    BY <2>2 DEF IsTree
  <2>4. QED
    BY <1>1, <2>1, <2>2, <2>3, FilterIs
<1>4. QED
  BY <1>2, <1>3

\* The tree, the filters and the list are well formed, for any library (AppModel).
THEOREM GameListTypes == GameListSpec => []GameListTypeOK
<1>1. GameListInv => GameListTypeOK
  <2> SUFFICES ASSUME GameListInv PROVE GameListTypeOK
    OBVIOUS
  <2>1. \A c \in DOMAIN shown.below : shown.below[c] \in Seq(Child)
    BY ShownIs DEF ShowsRows
  <2>2. stateFilter.flags \subseteq Flag
    BY DEF GameListInv
  <2>3. QED
    BY <2>1, <2>2, ShownIs DEF GameListInv, GameListTypeOK
<1>2. QED
  BY <1>1, GameListAlways, PTL

\* Every app that is listed matches the filters and stands below a category of
\* its own, whatever names and tags collide (AppModel::filter).
THEOREM ListsOnlyMatches == GameListSpec => []OnlyMatchesShown
<1>1. GameListInv => OnlyMatchesShown
  <2> SUFFICES ASSUME GameListInv, NEW c \in DOMAIN shown.below, NEW i \in DOMAIN shown.below[c]
               PROVE  LET a == shown.below[c][i].item
                      IN  /\ library[a].type # "Dlc"
                          /\ TypeAndNameMatch(a)
                          /\ c \in ToSet(CategoriesOf(library[a]))
    BY DEF OnlyMatchesShown
  <2> DEFINE a == shown.below[c][i].item
             places == Matching(library, tree, typeFilter, nameFilter, c)
             cats == CategoriesOf(library[a])
  <2>1. PICK from \in [DOMAIN shown.below[c] -> places] : a = tree[from[i]].app
    BY ShownIs DEF ShowsRows
  <2>2. from[i] \in places
    BY <2>1
  <2> HIDE DEF a
  <2>3. from[i] \in DOMAIN tree /\ a # 0 /\ tree[from[i]].category = c /\ TypeAndNameMatch(a)
    BY <2>1, <2>2 DEF Matching, TypeAndNameMatch
  <2>4. IsTree(library, Len(library), tree)
    BY ShownIs
  <2>5. a \in 1..Len(library) /\ library[a].type # "Dlc"
    BY <2>1, <2>3, <2>4 DEF IsTree
  <2>6. RowsOfApp(tree, a, cats)
    BY <2>4, <2>5 DEF IsTree
  <2>7. PICK x \in 1..Len(cats) : tree[from[i]] = RowFor(cats[x], a)
    BY <2>1, <2>3, <2>6 DEF RowsOfApp
  <2>8. c = cats[x]
    BY <2>3, <2>7 DEF RowFor
  <2>9. x \in DOMAIN cats
    <3>1. library[a] \in Title
      BY <2>5 DEF GameListInv
    <3>2. QED
      BY <2>7, <3>1, CategoriesAre
  <2>10. c \in ToSet(cats)
    BY <2>8, <2>9 DEF ToSet
  <2>11. QED
    BY <2>3, <2>5, <2>10 DEF a
<1>2. QED
  BY <1>1, GameListAlways, PTL

\* When names tell the apps apart, one that matches is listed below each of its
\* categories, and not more often than it has tags for it (AppModel::filter,
\* TreeItem::AddChild).
THEOREM NamesakesAloneAreLost == GameListSpec => []NoMatchLost
<1>1. GameListInv => NoMatchLost
  <2> SUFFICES ASSUME GameListInv, NamesDiffer(library),
                      NEW a \in DOMAIN library, library[a].type # "Dlc", TypeAndNameMatch(a),
                      NEW c \in ToSet(CategoriesOf(library[a]))
               PROVE  LET cats == CategoriesOf(library[a])
                      IN  /\ RowsFor(c, a) # {}
                          /\ Cardinality(RowsFor(c, a)) <=
                                 Cardinality({i \in DOMAIN cats : cats[i] = c})
    BY DEF NoMatchLost, NamesDiffer
  <2> DEFINE cats == CategoriesOf(library[a])
             s == shown.below[c]
             places == Matching(library, tree, typeFilter, nameFilter, c)
             Places(b) == Matching(library, tree, typeFilter, nameFilter, b)
             named == {x \in DOMAIN cats : cats[x] = c}
             found == RowsFor(c, a)
  <2>1. a \in 1..Len(library) /\ a # 0 /\ library[a] \in Title
    BY DEF GameListInv
  <2>2. cats \in Seq(Category) /\ DOMAIN cats = 1..Len(cats) /\ Len(cats) \in Nat
    BY <2>1, CategoriesAre
  <2>3. RowsOfApp(tree, a, cats)
    BY <2>1, ShownIs DEF IsTree
  <2>4. c \in Category /\ \E x \in 1..Len(cats) : cats[x] = c
    BY <2>2 DEF ToSet
  <2>5. ShowsRows(library, tree, places, s)
    BY <2>4, ShownIs
  <2>6. found = {i \in DOMAIN s : s[i].item = a}
    BY DEF RowsFor
  <2>7. \A i \in DOMAIN tree : tree[i].app = a /\ tree[i].category = c => i \in places
    BY <2>1 DEF Matching, TypeAndNameMatch
  <2>8. \A p \in places : p \in DOMAIN tree /\ tree[p].category = c
    BY DEF Matching
  <2> HIDE DEF cats, s, places, found
  <2>9. PICK at \in [1..Len(cats) -> DOMAIN tree] :
           /\ \A x \in 1..Len(cats) : tree[at[x]] = RowFor(cats[x], a)
           /\ \A i \in DOMAIN tree : tree[i].app = a => \E x \in 1..Len(cats) : at[x] = i
    BY <2>3 DEF RowsOfApp
  <2>10. found # {}
    <3>1. PICK x \in 1..Len(cats) : cats[x] = c
      BY <2>4
    <3>2. at[x] \in DOMAIN tree /\ tree[at[x]] = RowFor(c, a)
      BY <2>9, <3>1
    <3>3. tree[at[x]].app = a /\ tree[at[x]].category = c
      BY <3>2 DEF RowFor
    <3>4. \E i \in DOMAIN s : s[i].item = a
      BY <2>5, <2>7, <3>2, <3>3 DEF ShowsRows
    <3>5. QED
      BY <2>6, <3>4
  <2>11. PICK from \in [DOMAIN s -> places] :
            IsInjective(from) /\ \A i \in DOMAIN s : s[i].item = tree[from[i]].app
    BY <2>5 DEF ShowsRows
  <2>12. ASSUME NEW i \in found
         PROVE  \E x \in named : at[x] = from[i]
    <3>1. i \in DOMAIN s /\ tree[from[i]].app = a /\ from[i] \in DOMAIN tree /\ tree[from[i]].category = c
      BY <2>6, <2>8, <2>11
    <3>2. PICK x \in 1..Len(cats) : at[x] = from[i]
      BY <2>9, <3>1
    <3>3. tree[at[x]] = RowFor(cats[x], a)
      BY <2>9
    <3>4. RowFor(cats[x], a).category = cats[x]
      BY DEF RowFor
    <3>5. cats[x] = c
      BY <3>1, <3>2, <3>3, <3>4
    <3>6. QED
      BY <2>2, <3>2, <3>5
  <2> DEFINE f == [i \in found |-> CHOOSE x \in named : at[x] = from[i]]
  <2>13. \A i \in found : f[i] \in named /\ at[f[i]] = from[i]
    <3> HIDE DEF named
    <3> QED BY <2>12
  <2>14. DOMAIN f = found /\ f \in [found -> named]
    <3> HIDE DEF named
    <3> QED BY <2>12
  <2> HIDE DEF f
  <2>15. f \in Injection(found, named)
    <3>1. ASSUME NEW i \in found, NEW j \in found, f[i] = f[j] PROVE i = j
      <4>1. from[i] = from[j]
        BY <2>13, <3>1
      <4>2. i \in DOMAIN s /\ j \in DOMAIN s
        BY <2>6
      <4>3. QED
        BY <2>11, <4>1, <4>2 DEF IsInjective
    <3> HIDE DEF named
    <3>2. QED
      BY <2>14, <3>1 DEF Injection, IsInjective
  <2>16. IsFiniteSet(named)
    <3>1. IsFiniteSet(1..Len(cats)) /\ named \in SUBSET (1..Len(cats))
      BY <2>2, FS_Interval
    <3> HIDE DEF named
    <3>2. QED
      BY <3>1, FS_Subset
  <2>17. Cardinality(found) <= Cardinality(named)
    <3> HIDE DEF named
    <3> QED BY <2>15, <2>16, FS_Injection
  <2>18. QED
    BY <2>10, <2>17 DEF found, cats
<1>2. QED
  BY <1>1, GameListAlways, PTL

\* FAVORITES comes first, and behind it the categories are in order but for the
\* one that was added last (TreeItem::AddChild).
THEOREM CategoriesInOrder == GameListSpec => []SortedButLast
<1>1. GameListInv => SortedButLast
  <2> SUFFICES ASSUME GameListInv PROVE SortedButLast
    OBVIOUS
  <2> DEFINE root == shown.root
             places == {i \in DOMAIN root : root[i].text # FAVORITES}
             rest == Picked(root, places)
  <2>1. root \in Seq(Child) /\ OrderedButOne(root)
    BY ShownIs
  <2>2. rest \in Seq(Child)
    BY <2>1, PickedIsInOrder
  <2>3. PICK at : InOrder(root, places, Len(root), rest, at)
    BY <2>1, PickedIsInOrder
  <2>4. \A p \in places : p \in DOMAIN root /\ root[p].text # FAVORITES
    OBVIOUS
  <2> HIDE DEF root, places, rest
  <2>5. ASSUME NEW i \in 2 .. Len(rest), NEW j \in 2 .. Len(rest), i < j
        PROVE  rest[i].text < rest[j].text
    <3>1. 1 \in 1..Len(rest) /\ i \in 1..Len(rest) /\ j \in 1..Len(rest) /\ 1 < i
      BY <2>2
    <3>2. at[1] \in places /\ at[i] \in places /\ at[j] \in places /\ at[1] < at[i] /\ at[i] < at[j]
      BY <2>3, <2>5, <3>1 DEF InOrder
    <3>3. rest[i] = root[at[i]] /\ rest[j] = root[at[j]]
      BY <2>3, <3>1 DEF InOrder
    <3>4. QED
      BY <2>1, <2>4, <3>2, <3>3 DEF OrderedButOne
  <2>6. \A i \in DOMAIN root : root[i].text = FAVORITES => i = 1
    BY <2>1 DEF OrderedButOne
  <2>7. QED
    BY <2>5, <2>6 DEF SortedButLast, root, places, rest
<1>2. QED
  BY <1>1, GameListAlways, PTL
=============================================================================
