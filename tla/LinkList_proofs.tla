-------------------------- MODULE LinkList_proofs --------------------------
(***************************************************************************)
(* What the operations of LinkList preserve, for any nodes and lists.      *)
(***************************************************************************)
EXTENDS LinkList, FiniteSets, FiniteSetTheorems, WellFoundedInduction, TLAPS

\* The fields have the types of the structures.
Typed(L) == /\ DOMAIN L = {"next", "prev", "owner", "count"}
            /\ L.next \in [Cell -> Cell \cup {Null}]
            /\ L.prev \in [Cell -> Cell \cup {Null}]
            /\ L.owner \in [Node -> List \cup {Null}]
            /\ L.count \in [List -> Int]

\* count_ is the number of nodes that the list owns.
Members(L, l) == {n \in Node : L.owner[n] = l}
Counted(L)    == \A l \in List : L.count[l] = Cardinality(Members(L, l))

\* Nodes, lists and the null pointer are different things.
Distinct == Node \cap List = {} /\ Null \notin Cell

\* Push leaves all pointers sound, whatever node it is given (linklist.h:82).
THEOREM PushSound ==
  ASSUME Distinct, NEW L, Typed(L), Sound(L), NEW l \in List, NEW n \in Node
  PROVE  Typed(Push(L, l, n)) /\ Sound(Push(L, l, n))
<1> DEFINE M == Push(L, l, n)
<1>1. CASE Linked(L, n)
  BY <1>1 DEF Push
<1>2. CASE ~Linked(L, n)
  <2>1. L.owner[n] = Null /\ L.next[n] = Null /\ L.prev[n] = Null
    BY <1>2 DEF Linked, Sound, InList, Cell, Distinct
  <2>2. /\ L.prev[l] \in Cell /\ L.prev[l] # n /\ L.next[L.prev[l]] = l
        /\ InList(L, L.prev[l]) /\ ListOf(L, L.prev[l]) = l
    BY <1>2 DEF Linked, Sound, InList, ListOf, Cell, Distinct
  <2>3. /\ M.next = [L.next EXCEPT ![L.prev[l]] = n, ![n] = l]
        /\ M.prev = [L.prev EXCEPT ![n] = L.prev[l], ![l] = n]
        /\ M.owner = [L.owner EXCEPT ![n] = l]
        /\ M.count = [L.count EXCEPT ![l] = @ + 1]
        /\ DOMAIN M = {"next", "prev", "owner", "count"}
    BY <1>2 DEF Push
  <2>4. Typed(M)
    BY <2>2, <2>3 DEF Typed, Cell
  <2>5. Sound(M)
    <3> SUFFICES ASSUME NEW x \in Cell
                 PROVE  IF InList(M, x)
                        THEN /\ M.next[x] \in Cell /\ M.prev[x] \in Cell
                             /\ InList(M, M.next[x]) /\ InList(M, M.prev[x])
                             /\ M.prev[M.next[x]] = x /\ M.next[M.prev[x]] = x
                             /\ ListOf(M, M.next[x]) = ListOf(M, x)
                             /\ ListOf(M, M.prev[x]) = ListOf(M, x)
                        ELSE M.next[x] = Null /\ M.prev[x] = Null
      BY DEF Sound
    <3>1. \A y \in Cell : /\ InList(M, y) <=> InList(L, y) \/ y = n
                          /\ y # n => ListOf(M, y) = ListOf(L, y)
      BY <2>3 DEF InList, Linked, ListOf, Typed, Cell, Distinct
    <3>2. ListOf(M, n) = l
      BY <2>3 DEF ListOf, Typed, Distinct
    <3>3. \A y \in Cell : /\ M.next[y] = IF y = n THEN l ELSE IF y = L.prev[l] THEN n ELSE L.next[y]
                          /\ M.prev[y] = IF y = l THEN n ELSE IF y = n THEN L.prev[l] ELSE L.prev[y]
      BY <2>2, <2>3 DEF Typed, Cell, Distinct
    <3>4. l \in Cell /\ n \in Cell /\ l # n /\ InList(L, l) /\ ListOf(L, l) = l /\ ~InList(L, n)
      BY <1>2 DEF Cell, InList, ListOf, Distinct
    <3>5. CASE ~InList(M, x)
      BY <3>5, <3>1, <3>3, <3>4, <2>2 DEF Sound
    <3>6. CASE x = n
      BY <3>6, <3>1, <3>2, <3>3, <3>4, <2>2
    <3>7. CASE InList(L, x) /\ x # n
      <4>1. /\ L.next[x] \in Cell /\ L.prev[x] \in Cell
            /\ InList(L, L.next[x]) /\ InList(L, L.prev[x])
            /\ L.prev[L.next[x]] = x /\ L.next[L.prev[x]] = x
            /\ ListOf(L, L.next[x]) = ListOf(L, x) /\ ListOf(L, L.prev[x]) = ListOf(L, x)
        BY <3>7 DEF Sound
      <4>2. L.next[x] # n /\ L.prev[x] # n
        BY <4>1, <3>4
      <4>3. /\ M.next[x] \in Cell /\ InList(M, M.next[x]) /\ M.prev[M.next[x]] = x
            /\ ListOf(M, M.next[x]) = ListOf(M, x)
        BY <4>1, <4>2, <3>7, <3>1, <3>2, <3>3, <3>4, <2>2
      <4>4. /\ M.prev[x] \in Cell /\ InList(M, M.prev[x]) /\ M.next[M.prev[x]] = x
            /\ ListOf(M, M.prev[x]) = ListOf(M, x)
        BY <4>1, <4>2, <3>7, <3>1, <3>2, <3>3, <3>4, <2>2
      <4> QED BY <4>3, <4>4, <3>7, <3>1
    <3> QED BY <3>1, <3>5, <3>6, <3>7
  <2> QED BY <2>4, <2>5
<1> QED BY <1>1, <1>2

\* So does PushFront (linklist.h:109), by the same argument with next and prev
\* exchanged.
THEOREM PushFrontSound ==
  ASSUME Distinct, NEW L, Typed(L), Sound(L), NEW l \in List, NEW n \in Node
  PROVE  Typed(PushFront(L, l, n)) /\ Sound(PushFront(L, l, n))
<1> DEFINE M == PushFront(L, l, n)
<1>1. CASE Linked(L, n)
  BY <1>1 DEF PushFront
<1>2. CASE ~Linked(L, n)
  <2>1. L.owner[n] = Null /\ L.next[n] = Null /\ L.prev[n] = Null
    BY <1>2 DEF Linked, Sound, InList, Cell, Distinct
  <2>2. /\ L.next[l] \in Cell /\ L.next[l] # n /\ L.prev[L.next[l]] = l
        /\ InList(L, L.next[l]) /\ ListOf(L, L.next[l]) = l
    BY <1>2 DEF Linked, Sound, InList, ListOf, Cell, Distinct
  <2>3. /\ M.next = [L.next EXCEPT ![n] = L.next[l], ![l] = n]
        /\ M.prev = [L.prev EXCEPT ![L.next[l]] = n, ![n] = l]
        /\ M.owner = [L.owner EXCEPT ![n] = l]
        /\ M.count = [L.count EXCEPT ![l] = @ + 1]
        /\ DOMAIN M = {"next", "prev", "owner", "count"}
    BY <1>2 DEF PushFront
  <2>4. Typed(M)
    BY <2>2, <2>3 DEF Typed, Cell
  <2>5. Sound(M)
    <3> SUFFICES ASSUME NEW x \in Cell
                 PROVE  IF InList(M, x)
                        THEN /\ M.next[x] \in Cell /\ M.prev[x] \in Cell
                             /\ InList(M, M.next[x]) /\ InList(M, M.prev[x])
                             /\ M.prev[M.next[x]] = x /\ M.next[M.prev[x]] = x
                             /\ ListOf(M, M.next[x]) = ListOf(M, x)
                             /\ ListOf(M, M.prev[x]) = ListOf(M, x)
                        ELSE M.next[x] = Null /\ M.prev[x] = Null
      BY DEF Sound
    <3>1. \A y \in Cell : /\ InList(M, y) <=> InList(L, y) \/ y = n
                          /\ y # n => ListOf(M, y) = ListOf(L, y)
      BY <2>3 DEF InList, Linked, ListOf, Typed, Cell, Distinct
    <3>2. ListOf(M, n) = l
      BY <2>3 DEF ListOf, Typed, Distinct
    <3>3. \A y \in Cell : /\ M.next[y] = IF y = l THEN n ELSE IF y = n THEN L.next[l] ELSE L.next[y]
                          /\ M.prev[y] = IF y = n THEN l ELSE IF y = L.next[l] THEN n ELSE L.prev[y]
      BY <2>2, <2>3 DEF Typed, Cell, Distinct
    <3>4. l \in Cell /\ n \in Cell /\ l # n /\ InList(L, l) /\ ListOf(L, l) = l /\ ~InList(L, n)
      BY <1>2 DEF Cell, InList, ListOf, Distinct
    <3>5. CASE ~InList(M, x)
      BY <3>5, <3>1, <3>3, <3>4, <2>2 DEF Sound
    <3>6. CASE x = n
      BY <3>6, <3>1, <3>2, <3>3, <3>4, <2>2
    <3>7. CASE InList(L, x) /\ x # n
      <4>1. /\ L.next[x] \in Cell /\ L.prev[x] \in Cell
            /\ InList(L, L.next[x]) /\ InList(L, L.prev[x])
            /\ L.prev[L.next[x]] = x /\ L.next[L.prev[x]] = x
            /\ ListOf(L, L.next[x]) = ListOf(L, x) /\ ListOf(L, L.prev[x]) = ListOf(L, x)
        BY <3>7 DEF Sound
      <4>2. L.next[x] # n /\ L.prev[x] # n
        BY <4>1, <3>4
      <4>3. /\ M.next[x] \in Cell /\ InList(M, M.next[x]) /\ M.prev[M.next[x]] = x
            /\ ListOf(M, M.next[x]) = ListOf(M, x)
        BY <4>1, <4>2, <3>7, <3>1, <3>2, <3>3, <3>4, <2>2
      <4>4. /\ M.prev[x] \in Cell /\ InList(M, M.prev[x]) /\ M.next[M.prev[x]] = x
            /\ ListOf(M, M.prev[x]) = ListOf(M, x)
        BY <4>1, <4>2, <3>7, <3>1, <3>2, <3>3, <3>4, <2>2
      <4> QED BY <4>3, <4>4, <3>7, <3>1
    <3> QED BY <3>1, <3>5, <3>6, <3>7
  <2> QED BY <2>4, <2>5
<1> QED BY <1>1, <1>2

\* So does Remove (linklist.h:153), which the destructor of a node calls too.
THEOREM RemoveSound ==
  ASSUME Distinct, NEW L, Typed(L), Sound(L), NEW n \in Node
  PROVE  /\ Typed(Remove(L, n)) /\ Sound(Remove(L, n))
         /\ ~Linked(Remove(L, n), n)
<1> DEFINE M == Remove(L, n)
           p == L.prev[n]
           q == L.next[n]
<1>1. CASE ~Linked(L, n)
  BY <1>1 DEF Remove
<1>2. CASE Linked(L, n)
  <2>1. /\ n \in Cell /\ n \notin List /\ InList(L, n) /\ L.owner[n] \in List
        /\ ListOf(L, n) = L.owner[n]
    BY <1>2 DEF Linked, InList, ListOf, Cell, Distinct, Typed
  <2>2. /\ p \in Cell /\ q \in Cell /\ InList(L, p) /\ InList(L, q)
        /\ L.prev[q] = n /\ L.next[p] = n
        /\ ListOf(L, p) = L.owner[n] /\ ListOf(L, q) = L.owner[n]
    BY <2>1 DEF Sound
  <2>3. p = n <=> q = n
    BY <2>2
  <2>4. /\ M.next = [L.next EXCEPT ![p] = q, ![n] = Null]
        /\ M.prev = [L.prev EXCEPT ![q] = p, ![n] = Null]
        /\ M.owner = [L.owner EXCEPT ![n] = Null]
        /\ M.count = [L.count EXCEPT ![L.owner[n]] = @ - 1]
        /\ DOMAIN M = {"next", "prev", "owner", "count"}
    BY <1>2 DEF Remove
  <2>5. Typed(M)
    BY <2>1, <2>2, <2>4 DEF Typed, Cell
  <2>6. \A y \in Cell : /\ M.next[y] = IF y = n THEN Null ELSE IF y = p THEN q ELSE L.next[y]
                        /\ M.prev[y] = IF y = n THEN Null ELSE IF y = q THEN p ELSE L.prev[y]
    BY <2>1, <2>2, <2>4 DEF Typed
  <2>7. \A y \in Cell : /\ InList(M, y) <=> InList(L, y) /\ y # n
                        /\ y # n => ListOf(M, y) = ListOf(L, y)
    BY <2>1, <2>4 DEF InList, Linked, ListOf, Typed, Cell
  <2>8. ~Linked(M, n)
    BY <2>4 DEF Linked, Typed
  <2>9. Sound(M)
    <3> SUFFICES ASSUME NEW x \in Cell
                 PROVE  IF InList(M, x)
                        THEN /\ M.next[x] \in Cell /\ M.prev[x] \in Cell
                             /\ InList(M, M.next[x]) /\ InList(M, M.prev[x])
                             /\ M.prev[M.next[x]] = x /\ M.next[M.prev[x]] = x
                             /\ ListOf(M, M.next[x]) = ListOf(M, x)
                             /\ ListOf(M, M.prev[x]) = ListOf(M, x)
                        ELSE M.next[x] = Null /\ M.prev[x] = Null
      BY DEF Sound
    <3>1. CASE ~InList(M, x)
      <4>1. x = n \/ ~InList(L, x)
        BY <3>1, <2>7
      <4>2. ~InList(L, x) => x # p /\ x # q /\ L.next[x] = Null /\ L.prev[x] = Null
        BY <2>2 DEF Sound
      <4> QED BY <3>1, <4>1, <4>2, <2>6
    <3>2. CASE InList(M, x)
      <4>1. InList(L, x) /\ x # n
        BY <3>2, <2>7
      <4>2. /\ L.next[x] \in Cell /\ L.prev[x] \in Cell
            /\ InList(L, L.next[x]) /\ InList(L, L.prev[x])
            /\ L.prev[L.next[x]] = x /\ L.next[L.prev[x]] = x
            /\ ListOf(L, L.next[x]) = ListOf(L, x) /\ ListOf(L, L.prev[x]) = ListOf(L, x)
        BY <4>1 DEF Sound
      <4>3. /\ M.next[x] \in Cell /\ M.next[x] # n /\ InList(L, M.next[x])
            /\ M.prev[M.next[x]] = x /\ ListOf(L, M.next[x]) = ListOf(L, x)
        BY <4>1, <4>2, <2>1, <2>2, <2>3, <2>6
      <4>4. /\ M.prev[x] \in Cell /\ M.prev[x] # n /\ InList(L, M.prev[x])
            /\ M.next[M.prev[x]] = x /\ ListOf(L, M.prev[x]) = ListOf(L, x)
        BY <4>1, <4>2, <2>1, <2>2, <2>3, <2>6
      <4> QED BY <3>2, <4>1, <4>3, <4>4, <2>7
    <3> QED BY <3>1, <3>2
  <2> QED BY <2>5, <2>8, <2>9
<1> QED BY <1>1, <1>2

\* count_ stays the number of nodes in the list (linklist.h:106, 171).
THEOREM CountKept ==
  ASSUME Distinct, IsFiniteSet(Node), NEW L, Typed(L), Counted(L),
         NEW l \in List, NEW n \in Node
  PROVE  Counted(Push(L, l, n)) /\ Counted(Remove(L, n))
<1>1. \A k \in List : Members(L, k) \subseteq Node /\ IsFiniteSet(Members(L, k))
  BY FS_Subset DEF Members
<1>2. Counted(Push(L, l, n))
  <2>1. CASE Linked(L, n)
    BY <2>1 DEF Push
  <2>2. CASE ~Linked(L, n)
    <3> DEFINE M == Push(L, l, n)
    <3>1. M.owner = [L.owner EXCEPT ![n] = l] /\ M.count = [L.count EXCEPT ![l] = @ + 1]
      BY <2>2 DEF Push
    <3>2. n \notin Members(L, l) /\ Members(M, l) = Members(L, l) \cup {n}
      BY <2>2, <3>1 DEF Members, Linked, Typed, Distinct, Cell
    <3>3. \A k \in List \ {l} : Members(M, k) = Members(L, k) /\ M.count[k] = L.count[k]
      BY <2>2, <3>1 DEF Members, Linked, Typed, Distinct, Cell
    <3>4. M.count[l] = L.count[l] + 1
      BY <3>1 DEF Typed
    <3>5. Cardinality(Members(M, l)) = Cardinality(Members(L, l)) + 1
      BY <1>1, <3>2, FS_AddElement
    <3> QED BY <3>3, <3>4, <3>5 DEF Counted
  <2> QED BY <2>1, <2>2
<1>3. Counted(Remove(L, n))
  <2>1. CASE ~Linked(L, n)
    BY <2>1 DEF Remove
  <2>2. CASE Linked(L, n)
    <3> DEFINE M == Remove(L, n)
               o == L.owner[n]
    <3>1. /\ o \in List
          /\ M.owner = [L.owner EXCEPT ![n] = Null] /\ M.count = [L.count EXCEPT ![o] = @ - 1]
      BY <2>2 DEF Remove, Linked, Typed
    <3>2. n \in Members(L, o) /\ Members(M, o) = Members(L, o) \ {n}
      BY <3>1 DEF Members, Typed, Distinct, Cell
    <3>3. \A k \in List \ {o} : Members(M, k) = Members(L, k) /\ M.count[k] = L.count[k]
      BY <3>1 DEF Members, Typed, Distinct, Cell
    <3>4. M.count[o] = L.count[o] - 1
      BY <3>1 DEF Typed
    <3>5. Cardinality(Members(M, o)) = Cardinality(Members(L, o)) - 1
      <4>1. IsFiniteSet(Members(L, o))
        BY <1>1, <3>1
      <4>2. Cardinality(Members(L, o) \ {n}) = Cardinality(Members(L, o)) - 1
        BY <3>2, <4>1, FS_RemoveElement
      <4> QED BY <3>2, <4>2
    <3> QED BY <3>1, <3>3, <3>4, <3>5 DEF Counted
  <2> QED BY <2>1, <2>2
<1> QED BY <1>2, <1>3

-----------------------------------------------------------------------------
(* Induction, as a fact about sets of numbers: the theorems of             *)
(* NaturalsInduction take an operator.                                     *)

\* Otherwise the intervals up to a number outside S have a smallest one.
LEMMA SetInduction ==
  ASSUME NEW S, 0 \in S, \A n \in Nat : n \in S => n + 1 \in S
  PROVE  Nat \subseteq S
<1> SUFFICES ASSUME ~(Nat \subseteq S) PROVE FALSE
  OBVIOUS
<1> DEFINE Bad == {0..n : n \in Nat \ S}
           R   == StrictSubsetOrdering(Nat)
<1>1. Bad \subseteq FiniteSubsetsOf(Nat) /\ Bad # {}
  <2>1. \A n \in Nat : 0..n \in SUBSET Nat /\ IsFiniteSet(0..n)
    BY FS_Interval
  <2> QED BY <2>1 DEF FiniteSubsetsOf
<1>2. \E x \in Bad : \A y \in Bad : <<y, x>> \notin R
  <2> HIDE DEF Bad
  <2> QED BY <1>1, WFMin, FS_StrictSubsetOrderingWellFounded
<1>3. PICK n \in Nat \ S : \A m \in Nat \ S : <<0..m, 0..n>> \notin R
  BY <1>2
<1>4. n # 0 /\ n - 1 \in Nat \ S
  BY <1>3
<1>5. /\ 0..(n-1) \subseteq 0..n /\ 0..(n-1) # 0..n
      /\ 0..(n-1) \subseteq Nat /\ 0..n \subseteq Nat
  BY <1>4
<1>6. <<0..(n-1), 0..n>> \in R
  BY <1>5 DEF StrictSubsetOrdering
<1> QED BY <1>3, <1>4, <1>6

-----------------------------------------------------------------------------
(* The order of the nodes in a list.                                       *)

\* a numbers the cells of list l: the head, count_ nodes one after the other,
\* and the tail.
Chain(L, a, l) ==
  /\ L.count[l] \in Nat
  /\ a[0] = l
  /\ \A i \in Nat : i > L.count[l] => a[i] = l
  /\ \A i \in 1..L.count[l] : a[i] \in Node /\ L.owner[a[i]] = l
  /\ \A i \in 0..L.count[l] : L.next[a[i]] = a[i + 1] /\ L.prev[a[i + 1]] = a[i]
  /\ \A i, j \in 1..L.count[l] : a[i] = a[j] => i = j

\* Every node with an owner is in the chain of its owner.
InOrder(L, at) ==
  /\ at \in [List -> [Nat -> Cell]]
  /\ \A l \in List : Chain(L, at[l], l)
  /\ \A n \in Node : IF Linked(L, n)
                     THEN \E i \in 1..L.count[L.owner[n]] : at[L.owner[n]][i] = n
                     ELSE L.next[n] = Null /\ L.prev[n] = Null

\* n comes after k others; the k-th leaves.
With(at, l, k, n) == [at EXCEPT ![l] = [i \in Nat |-> IF i = k + 1 THEN n ELSE at[l][i]]]
Without(at, l, k) == [at EXCEPT ![l] = [i \in Nat |-> IF i < k THEN at[l][i] ELSE at[l][i + 1]]]

\* A chain does not see changes of cells that are not in it.
LEMMA ChainStays ==
  ASSUME Distinct, NEW L, NEW M, NEW m \in List, NEW a \in [Nat -> Cell], Chain(L, a, m),
         M.count[m] = L.count[m],
         \A x \in Cell : ListOf(L, x) = m =>
           /\ M.next[x] = L.next[x] /\ M.prev[x] = L.prev[x]
           /\ x \in Node => M.owner[x] = L.owner[x]
  PROVE  Chain(M, a, m)
<1>1. \A i \in Nat : ListOf(L, a[i]) = m /\ a[i] \in Cell
  <2>1. \A i \in Nat : i \in 1..L.count[m] \/ a[i] = m
    BY DEF Chain
  <2> QED BY <2>1 DEF Chain, ListOf, Distinct
<1>2. \A i \in 1..L.count[m] : M.owner[a[i]] = L.owner[a[i]]
  BY <1>1 DEF Chain
<1>3. \A i \in 0..L.count[m] : M.next[a[i]] = L.next[a[i]] /\ M.prev[a[i + 1]] = L.prev[a[i + 1]]
  BY <1>1 DEF Chain
<1> QED BY <1>2, <1>3 DEF Chain

\* Push adds its node behind the last (linklist.h:82).
THEOREM PushOrder ==
  ASSUME Distinct, NEW L, Typed(L), NEW at, InOrder(L, at), NEW l \in List, NEW n \in Node,
         ~Linked(L, n)
  PROVE  Typed(Push(L, l, n)) /\ InOrder(Push(L, l, n), With(at, l, L.count[l], n))
<1> DEFINE M == Push(L, l, n)
           c == L.count[l]
           a == at[l]
           p == a[c]
           b == With(at, l, c, n)
<1>1. /\ Chain(L, a, l) /\ a \in [Nat -> Cell]
      /\ c \in Nat /\ p \in Cell /\ L.prev[l] = p /\ L.next[p] = l /\ ListOf(L, p) = l
      /\ p # n /\ l # n /\ l \in Cell /\ n \in Cell /\ l \notin Node
      /\ a[c + 1] = l /\ L.owner[n] = Null
  BY DEF InOrder, Chain, Linked, ListOf, Distinct, Cell
<1>2. /\ M.next = [L.next EXCEPT ![p] = n, ![n] = l]
      /\ M.prev = [L.prev EXCEPT ![n] = p, ![l] = n]
      /\ M.owner = [L.owner EXCEPT ![n] = l]
      /\ M.count = [L.count EXCEPT ![l] = @ + 1]
      /\ DOMAIN M = {"next", "prev", "owner", "count"}
  BY <1>1 DEF Push
<1>3. Typed(M)
  BY <1>1, <1>2 DEF Typed, Cell
<1>4. /\ \A y \in Cell : M.next[y] = IF y = n THEN l ELSE IF y = p THEN n ELSE L.next[y]
      /\ \A y \in Cell : M.prev[y] = IF y = l THEN n ELSE IF y = n THEN p ELSE L.prev[y]
      /\ \A y \in Node : M.owner[y] = IF y = n THEN l ELSE L.owner[y]
      /\ \A y \in List : M.count[y] = IF y = l THEN c + 1 ELSE L.count[y]
  BY <1>1, <1>2 DEF Typed
<1>5. /\ b \in [List -> [Nat -> Cell]]
      /\ \A m \in List \ {l} : b[m] = at[m]
      /\ \A i \in Nat : b[l][i] = IF i = c + 1 THEN n ELSE a[i]
  BY <1>1 DEF With, InOrder
<1>6. ASSUME NEW m \in List \ {l} PROVE Chain(M, b[m], m)
  <2>1. /\ M.count[m] = L.count[m] /\ b[m] = at[m]
        /\ at[m] \in [Nat -> Cell] /\ Chain(L, at[m], m)
    BY <1>4, <1>5 DEF InOrder
  <2>2. ASSUME NEW x \in Cell, ListOf(L, x) = m PROVE x # n /\ x # p /\ x # l
    BY <2>2, <1>1 DEF ListOf, Distinct, Cell
  <2>3. \A x \in Cell : ListOf(L, x) = m =>
          /\ M.next[x] = L.next[x] /\ M.prev[x] = L.prev[x]
          /\ x \in Node => M.owner[x] = L.owner[x]
    BY <2>2, <1>4
  <2> QED BY <2>1, <2>3, ChainStays
<1>7. Chain(M, b[l], l)
  <2>1. M.count[l] = c + 1
    BY <1>4
  <2>2. /\ a[0] = l
        /\ \A i \in Nat : i > c => a[i] = l
        /\ \A i \in 1..c : a[i] \in Node /\ L.owner[a[i]] = l
        /\ \A i \in 0..c : L.next[a[i]] = a[i + 1] /\ L.prev[a[i + 1]] = a[i]
        /\ \A i, j \in 1..c : a[i] = a[j] => i = j
    BY <1>1 DEF Chain
  <2>3. \A i \in 0..c : a[i] # n
    BY <2>2, <1>1 DEF Distinct, Cell
  <2>4. \A i \in 0..(c - 1) : a[i] # p
    BY <2>2, <1>1
  <2>5. \A i \in 1..c : a[i] # l
    BY <2>2, <1>1
  <2>6. \A i \in 1..(c + 1) : b[l][i] \in Node /\ M.owner[b[l][i]] = l
    BY <2>2, <2>3, <1>1, <1>4, <1>5
  <2>7. ASSUME NEW i \in 0..(c + 1)
        PROVE  M.next[b[l][i]] = b[l][i + 1] /\ M.prev[b[l][i + 1]] = b[l][i]
    <3>1. CASE i \in 0..(c - 1)
      <4>1. b[l][i] = a[i] /\ b[l][i + 1] = a[i + 1]
        BY <3>1, <1>1, <1>5
      <4>2. /\ a[i] # n /\ a[i + 1] # n /\ a[i] # p /\ a[i + 1] # l
            /\ a[i] \in Cell /\ a[i + 1] \in Cell
        BY <3>1, <1>1, <2>2, <2>3, <2>4, <2>5
      <4>3. L.next[a[i]] = a[i + 1] /\ L.prev[a[i + 1]] = a[i]
        BY <3>1, <2>2, <1>1
      <4> QED BY <4>1, <4>2, <4>3, <1>4
    <3>2. CASE i = c
      BY <3>2, <1>1, <1>4, <1>5
    <3>3. CASE i = c + 1
      BY <3>3, <1>1, <1>4, <1>5, <2>2
    <3> QED BY <3>1, <3>2, <3>3, <1>1
  <2>8. \A i, j \in 1..(c + 1) : b[l][i] = b[l][j] => i = j
    BY <2>2, <2>3, <1>1, <1>5
  <2>9. b[l][0] = l /\ \A i \in Nat : i > c + 1 => b[l][i] = l
    BY <2>2, <1>1, <1>5
  <2> QED BY <2>1, <2>6, <2>7, <2>8, <2>9, <1>1 DEF Chain
<1>8. ASSUME NEW y \in Node
      PROVE  IF Linked(M, y) THEN \E i \in 1..M.count[M.owner[y]] : b[M.owner[y]][i] = y
             ELSE M.next[y] = Null /\ M.prev[y] = Null
  <2>1. CASE y = n
    <3>1. M.owner[n] = l /\ c + 1 \in 1..M.count[l] /\ b[l][c + 1] = n /\ Linked(M, n)
      BY <1>1, <1>4, <1>5 DEF Linked, Distinct
    <3> QED BY <2>1, <3>1
  <2>2. CASE y # n
    <3>1. M.owner[y] = L.owner[y] /\ (Linked(M, y) <=> Linked(L, y))
      BY <2>2, <1>4 DEF Linked
    <3>2. CASE Linked(L, y)
      <4>1. PICK i \in 1..L.count[L.owner[y]] : at[L.owner[y]][i] = y
        BY <3>2 DEF InOrder
      <4>2. L.owner[y] \in List
        BY <3>2 DEF Linked, Typed
      <4>3. i \in 1..M.count[L.owner[y]] /\ b[L.owner[y]][i] = y
        BY <4>1, <4>2, <1>1, <1>4, <1>5
      <4> QED BY <4>3, <3>1, <3>2
    <3>3. CASE ~Linked(L, y)
      <4>1. L.next[y] = Null /\ L.prev[y] = Null
        BY <3>3 DEF InOrder
      <4>2. y # p /\ y # l
        BY <4>1, <1>1 DEF Distinct
      <4> QED BY <4>1, <4>2, <3>1, <3>3, <2>2, <1>4 DEF Cell
    <3> QED BY <3>2, <3>3
  <2> QED BY <2>1, <2>2
<1>9. InOrder(M, b)
  BY <1>5, <1>6, <1>7, <1>8 DEF InOrder
<1> QED BY <1>3, <1>9

\* Remove takes out one node and leaves the order of the others (linklist.h:153).
THEOREM RemoveOrder ==
  ASSUME Distinct, NEW L, Typed(L), NEW at, InOrder(L, at), NEW l \in List,
         NEW k \in 1..L.count[l]
  PROVE  LET n == at[l][k]
         IN  Typed(Remove(L, n)) /\ InOrder(Remove(L, n), Without(at, l, k))
<1> DEFINE n == at[l][k]
           M == Remove(L, n)
           c == L.count[l]
           a == at[l]
           p == a[k - 1]
           q == a[k + 1]
           b == Without(at, l, k)
<1>1. /\ Chain(L, a, l) /\ a \in [Nat -> Cell] /\ k \in Nat /\ k - 1 \in Nat
      /\ c \in Nat /\ l \in Cell /\ l \notin Node
      /\ n \in Node /\ n \in Cell /\ n # l /\ L.owner[n] = l /\ l # Null
  BY DEF InOrder, Chain, Distinct, Cell
<1>2. /\ a[0] = l
      /\ \A i \in Nat : i > c => a[i] = l
      /\ \A i \in 1..c : a[i] \in Node /\ L.owner[a[i]] = l
      /\ \A i \in 0..c : L.next[a[i]] = a[i + 1] /\ L.prev[a[i + 1]] = a[i]
      /\ \A i, j \in 1..c : a[i] = a[j] => i = j
  BY <1>1 DEF Chain
<1>3. /\ p \in Cell /\ q \in Cell /\ L.prev[n] = p /\ L.next[n] = q
      /\ p # n /\ q # n
      /\ ListOf(L, p) = l /\ ListOf(L, q) = l
  <2>1. \A i \in Nat : ListOf(L, a[i]) = l
    <3>1. \A i \in Nat : i \in 1..c \/ a[i] = l
      BY <1>1, <1>2
    <3> QED BY <3>1, <1>1, <1>2 DEF ListOf, Distinct
  <2>2. \A i \in 0..(c + 1) : i # k => a[i] # n
    BY <1>1, <1>2
  <2>3. k - 1 \in 0..(c + 1) /\ k + 1 \in 0..(c + 1) /\ k \in 0..c /\ k - 1 \in 0..c
    BY <1>1
  <2>4. L.next[a[k]] = a[k + 1] /\ L.prev[a[(k - 1) + 1]] = a[k - 1]
    BY <2>3, <1>2
  <2> QED BY <1>1, <2>1, <2>2, <2>3, <2>4
<1>4. /\ M.next = [L.next EXCEPT ![p] = q, ![n] = Null]
      /\ M.prev = [L.prev EXCEPT ![q] = p, ![n] = Null]
      /\ M.owner = [L.owner EXCEPT ![n] = Null]
      /\ M.count = [L.count EXCEPT ![l] = @ - 1]
      /\ DOMAIN M = {"next", "prev", "owner", "count"}
  BY <1>1, <1>3 DEF Remove, Linked
<1>5. Typed(M)
  BY <1>1, <1>3, <1>4 DEF Typed
<1>6. /\ \A y \in Cell : M.next[y] = IF y = n THEN Null ELSE IF y = p THEN q ELSE L.next[y]
      /\ \A y \in Cell : M.prev[y] = IF y = n THEN Null ELSE IF y = q THEN p ELSE L.prev[y]
      /\ \A y \in Node : M.owner[y] = IF y = n THEN Null ELSE L.owner[y]
      /\ \A y \in List : M.count[y] = IF y = l THEN c - 1 ELSE L.count[y]
  BY <1>1, <1>3, <1>4 DEF Typed
<1>7. /\ b \in [List -> [Nat -> Cell]]
      /\ \A m \in List \ {l} : b[m] = at[m]
      /\ \A i \in Nat : b[l][i] = IF i < k THEN a[i] ELSE a[i + 1]
  BY <1>1 DEF Without, InOrder
<1>8. ASSUME NEW m \in List \ {l} PROVE Chain(M, b[m], m)
  <2>1. /\ M.count[m] = L.count[m] /\ b[m] = at[m]
        /\ at[m] \in [Nat -> Cell] /\ Chain(L, at[m], m)
    BY <1>6, <1>7 DEF InOrder
  <2>2. ASSUME NEW x \in Cell, ListOf(L, x) = m PROVE x # n /\ x # p /\ x # q
    BY <2>2, <1>1, <1>3 DEF ListOf, Distinct
  <2>3. \A x \in Cell : ListOf(L, x) = m =>
          /\ M.next[x] = L.next[x] /\ M.prev[x] = L.prev[x]
          /\ x \in Node => M.owner[x] = L.owner[x]
    BY <2>2, <1>6
  <2> QED BY <2>1, <2>3, ChainStays
<1>9. Chain(M, b[l], l)
  <2>1. M.count[l] = c - 1 /\ c - 1 \in Nat
    BY <1>1, <1>6
  <2>2. \A i \in 1..(c - 1) : b[l][i] \in Node /\ M.owner[b[l][i]] = l
    BY <1>1, <1>2, <1>6, <1>7
  <2>3. ASSUME NEW i \in 0..(c - 1)
        PROVE  M.next[b[l][i]] = b[l][i + 1] /\ M.prev[b[l][i + 1]] = b[l][i]
    <3>1. CASE i < k - 1
      <4>1. b[l][i] = a[i] /\ b[l][i + 1] = a[i + 1]
        BY <3>1, <1>1, <1>7
      <4>2. a[i] # n /\ a[i + 1] # n /\ a[i] # p /\ a[i + 1] # q
        BY <3>1, <1>1, <1>2
      <4>3. a[i] \in Cell /\ a[i + 1] \in Cell /\ L.next[a[i]] = a[i + 1] /\ L.prev[a[i + 1]] = a[i]
        BY <3>1, <1>1, <1>2
      <4> QED BY <4>1, <4>2, <4>3, <1>6
    <3>2. CASE i = k - 1
      BY <3>2, <1>1, <1>3, <1>6, <1>7
    <3>3. CASE i > k - 1
      <4>1. b[l][i] = a[i + 1] /\ b[l][i + 1] = a[i + 2]
        BY <3>3, <1>1, <1>7
      <4>2. a[i + 1] # n /\ a[i + 2] # n /\ a[i + 1] # p /\ a[i + 2] # q
        BY <3>3, <1>1, <1>2
      <4>3. /\ a[i + 1] \in Cell /\ a[i + 2] \in Cell
            /\ L.next[a[i + 1]] = a[i + 2] /\ L.prev[a[i + 2]] = a[i + 1]
        BY <3>3, <1>1, <1>2
      <4> QED BY <4>1, <4>2, <4>3, <1>6
    <3> QED BY <3>1, <3>2, <3>3, <1>1
  <2>4. \A i, j \in 1..(c - 1) : b[l][i] = b[l][j] => i = j
    BY <1>1, <1>2, <1>7
  <2>5. b[l][0] = l /\ \A i \in Nat : i > c - 1 => b[l][i] = l
    BY <1>1, <1>2, <1>7
  <2> QED BY <2>1, <2>2, <2>3, <2>4, <2>5 DEF Chain
<1>10. ASSUME NEW y \in Node
       PROVE  IF Linked(M, y) THEN \E i \in 1..M.count[M.owner[y]] : b[M.owner[y]][i] = y
              ELSE M.next[y] = Null /\ M.prev[y] = Null
  <2>1. CASE y = n
    BY <2>1, <1>1, <1>6 DEF Linked
  <2>2. CASE y # n
    <3>1. M.owner[y] = L.owner[y] /\ (Linked(M, y) <=> Linked(L, y))
      BY <2>2, <1>6 DEF Linked
    <3>2. CASE Linked(L, y)
      <4>1. PICK i \in 1..L.count[L.owner[y]] : at[L.owner[y]][i] = y
        BY <3>2 DEF InOrder
      <4>2. L.owner[y] \in List
        BY <3>2 DEF Linked, Typed
      <4>3. CASE L.owner[y] # l
        BY <4>1, <4>2, <4>3, <1>6, <1>7, <3>1, <3>2
      <4>4. CASE L.owner[y] = l
        <5>1. i # k
          BY <4>1, <4>4, <2>2
        <5>2. CASE i < k
          <6>1. i \in 1..(c - 1) /\ b[l][i] = y
            BY <5>2, <4>1, <4>4, <1>1, <1>7
          <6> QED BY <6>1, <4>4, <1>6, <3>1, <3>2
        <5>3. CASE i > k
          <6>1. i - 1 \in 1..(c - 1) /\ b[l][i - 1] = y
            BY <5>3, <4>1, <4>4, <1>1, <1>7
          <6> QED BY <6>1, <4>4, <1>6, <3>1, <3>2
        <5> QED BY <5>1, <5>2, <5>3, <1>1, <4>1, <4>4
      <4> QED BY <4>3, <4>4
    <3>3. CASE ~Linked(L, y)
      <4>1. L.next[y] = Null /\ L.prev[y] = Null /\ L.owner[y] = Null
        BY <3>3 DEF InOrder, Linked
      <4>2. y # p /\ y # q
        BY <4>1, <1>1, <1>3 DEF ListOf, Distinct
      <4> QED BY <4>1, <4>2, <3>1, <3>3, <2>2, <1>6 DEF Cell
    <3> QED BY <3>2, <3>3
  <2> QED BY <2>1, <2>2
<1>11. InOrder(M, b)
  BY <1>7, <1>8, <1>9, <1>10 DEF InOrder
<1> QED BY <1>5, <1>11

LEMMA NoLinksOrdered ==
  ASSUME Distinct
  PROVE  Typed(NoLinks) /\ InOrder(NoLinks, [l \in List |-> [i \in Nat |-> l]])
<1> DEFINE at == [l \in List |-> [i \in Nat |-> l]]
<1>1. Typed(NoLinks)
  BY DEF Typed, NoLinks, Cell
<1>2. at \in [List -> [Nat -> Cell]]
  BY DEF Cell
<1>3. ASSUME NEW l \in List PROVE Chain(NoLinks, at[l], l)
  <2>1. /\ NoLinks.count[l] = 0 /\ NoLinks.next[l] = l /\ NoLinks.prev[l] = l
        /\ \A i \in Nat : at[l][i] = l
    BY DEF NoLinks, Cell
  <2> QED BY <2>1 DEF Chain
<1>4. \A n \in Node : ~Linked(NoLinks, n) /\ NoLinks.next[n] = Null /\ NoLinks.prev[n] = Null
  BY DEF NoLinks, Linked, Cell, Distinct
<1> QED BY <1>1, <1>2, <1>3, <1>4 DEF InOrder

\* What can be read off the ends of a list.
LEMMA Ends ==
  ASSUME Distinct, NEW L, NEW at, InOrder(L, at), NEW l \in List
  PROVE  /\ IsEmpty(L, l) <=> L.count[l] = 0
         /\ Size(L, l) = L.count[l] /\ L.count[l] \in Nat
         /\ GetFirst(L, l) = at[l][1]
         /\ L.count[l] > 0 => /\ GetFirst(L, l) \in Node
                              /\ Pop(L, l) = Remove(L, at[l][1]) /\ 1 \in 1..L.count[l]
         /\ L.count[l] = 0 => Pop(L, l) = L
<1>1. Chain(L, at[l], l)
  BY DEF InOrder
<1>2. L.count[l] \in Nat /\ L.next[l] = at[l][1]
  <2>1. 0 \in 0..L.count[l]
    BY <1>1 DEF Chain
  <2> QED BY <1>1, <2>1 DEF Chain
<1>3. L.count[l] = 0 => at[l][1] = l
  BY <1>1 DEF Chain
<1>4. L.count[l] > 0 => at[l][1] \in Node /\ at[l][1] # l /\ 1 \in 1..L.count[l]
  BY <1>1, <1>2 DEF Chain, Distinct
<1> QED BY <1>2, <1>3, <1>4 DEF IsEmpty, Size, GetFirst, Pop

\* The nodes that a list owns are those of its chain.
LEMMA OwnedInChain ==
  ASSUME Distinct, NEW L, NEW at, InOrder(L, at), NEW l \in List
  PROVE  {at[l][i] : i \in 1..L.count[l]} = {n \in Node : L.owner[n] = l}
<1>1. Chain(L, at[l], l)
  BY DEF InOrder
<1>2. ASSUME NEW n \in Node, L.owner[n] = l
      PROVE  \E i \in 1..L.count[l] : at[l][i] = n
  <2>1. Linked(L, n)
    BY <1>2 DEF Linked, Distinct, Cell
  <2> QED BY <1>2, <2>1 DEF InOrder
<1> QED BY <1>1, <1>2 DEF Chain

\* Going from next to next, from the head of a list, meets the cells of its chain.
THEOREM WalkIsChain ==
  ASSUME NEW L, NEW l \in List, NEW a \in [Nat -> Cell], Chain(L, a, l),
         NEW f, f = CHOOSE g : g = [n \in 0..(L.count[l] + 1) |-> IF n = 0 THEN l ELSE L.next[g[n - 1]]]
  PROVE  \A n \in 0..(L.count[l] + 1) : f[n] = a[n]
<1> DEFINE c == L.count[l]
           g == [n \in 0..(c + 1) |-> a[n]]
           S == {n \in Nat : n <= c + 1 => f[n] = a[n]}
<1>1. /\ c \in Nat /\ a[0] = l
      /\ \A i \in 0..c : L.next[a[i]] = a[i + 1]
  BY DEF Chain
<1>2. g = [n \in 0..(c + 1) |-> IF n = 0 THEN l ELSE L.next[g[n - 1]]]
  <2>1. ASSUME NEW n \in 0..(c + 1) PROVE g[n] = IF n = 0 THEN l ELSE L.next[g[n - 1]]
    <3>1. CASE n = 0
      BY <3>1, <1>1
    <3>2. CASE n # 0
      <4>1. n - 1 \in 0..c /\ g[n - 1] = a[n - 1] /\ g[n] = a[n] /\ (n - 1) + 1 = n
        BY <3>2, <1>1
      <4> QED BY <3>2, <4>1, <1>1
    <3> QED BY <3>1, <3>2
  <2> QED BY <2>1
<1>3. f = [n \in 0..(c + 1) |-> IF n = 0 THEN l ELSE L.next[f[n - 1]]]
  <2> HIDE DEF g
  <2> QED BY <1>2
<1>4. f[0] = l /\ \A n \in 0..c : f[n + 1] = L.next[f[n]]
  <2> HIDE DEF g, c
  <2>1. \A n \in 0..(c + 1) : f[n] = IF n = 0 THEN l ELSE L.next[f[n - 1]]
    BY <1>3, Zenon
  <2>2. \A n \in 0..c : n + 1 \in 0..(c + 1) /\ n + 1 # 0 /\ (n + 1) - 1 = n
    BY <1>1
  <2>3. 0 \in 0..(c + 1)
    BY <1>1
  <2> QED BY <2>1, <2>2, <2>3
<1>5. 0 \in S
  BY <1>1, <1>4
<1>6. ASSUME NEW n \in Nat, n \in S PROVE n + 1 \in S
  <2> HIDE DEF g, c
  <2> SUFFICES ASSUME n + 1 <= c + 1 PROVE f[n + 1] = a[n + 1]
    OBVIOUS
  <2>1. n \in 0..c /\ n <= c + 1
    BY <1>1
  <2> QED BY <2>1, <1>6, <1>1, <1>4
<1>7. Nat \subseteq S
  <2> HIDE DEF S
  <2> QED BY <1>5, <1>6, SetInduction
<1> QED BY <1>1, <1>7

\* Pop takes the first node out, if there is one (linklist.h:132).
LEMMA PopLeaves ==
  ASSUME Distinct, NEW L, Typed(L), NEW at, InOrder(L, at), NEW l \in List, L.count[l] > 0
  PROVE  LET n == at[l][1]
             M == Pop(L, l)
         IN  /\ Typed(M) /\ InOrder(M, Without(at, l, 1))
             /\ n \in Node /\ L.owner[n] = l
             /\ M.owner = [L.owner EXCEPT ![n] = Null]
             /\ M.count[l] = L.count[l] - 1
<1> DEFINE n == at[l][1]
           M == Remove(L, n)
<1>1. Pop(L, l) = M /\ 1 \in 1..L.count[l]
  BY Ends
<1>2. Typed(M) /\ InOrder(M, Without(at, l, 1))
  BY <1>1, RemoveOrder
<1>3. n \in Node /\ L.owner[n] = l
  BY <1>1 DEF InOrder, Chain
<1>4. Linked(L, n)
  BY <1>3 DEF Linked, Distinct, Cell
<1>5. M.owner = [L.owner EXCEPT ![n] = Null] /\ M.count = [L.count EXCEPT ![l] = @ - 1]
  BY <1>3, <1>4 DEF Remove
<1>6. M.count[l] = L.count[l] - 1
  BY <1>5 DEF Typed
<1> QED BY <1>1, <1>2, <1>3, <1>5, <1>6

\* Some function gives the list after each number of pops.
LEMMA PopsExist ==
  ASSUME NEW L, NEW l, NEW c \in Nat
  PROVE  \E g : g = [n \in 0..c |-> IF n = 0 THEN L ELSE Pop(g[n - 1], l)]
<1> DEFINE Pops(g, m) == g = [n \in 0..m |-> IF n = 0 THEN L ELSE Pop(g[n - 1], l)]
           S          == {m \in Nat : \E g : Pops(g, m)}
<1>1. 0 \in S
  <2> DEFINE g == [n \in 0..0 |-> L]
  <2>1. Pops(g, 0)
    <3>1. \A n \in 0..0 : (IF n = 0 THEN L ELSE Pop(g[n - 1], l)) = L
      OBVIOUS
    <3> QED BY <3>1
  <2> QED BY <2>1
<1>2. ASSUME NEW m \in Nat, m \in S PROVE m + 1 \in S
  <2>1. PICK g : Pops(g, m)
    BY <1>2
  <2>2. \A n \in 0..m : g[n] = IF n = 0 THEN L ELSE Pop(g[n - 1], l)
    BY <2>1, Zenon
  <2> DEFINE h == [n \in 0..(m + 1) |-> IF n = m + 1 THEN Pop(g[m], l) ELSE g[n]]
  <2>3. ASSUME NEW n \in 0..(m + 1) PROVE h[n] = IF n = 0 THEN L ELSE Pop(h[n - 1], l)
    <3>1. CASE n = 0
      <4>1. n \in 0..m /\ n # m + 1
        BY <3>1
      <4> QED BY <3>1, <4>1, <2>2
    <3>2. CASE n = m + 1
      <4>1. n # 0 /\ n - 1 = m /\ m \in 0..(m + 1) /\ m # m + 1
        BY <3>2
      <4>2. h[m] = g[m] /\ h[n] = Pop(g[m], l)
        BY <3>2, <4>1
      <4> QED BY <4>1, <4>2
    <3>3. CASE n # 0 /\ n # m + 1
      <4>1. n \in 0..m /\ n - 1 \in 0..(m + 1) /\ n - 1 # m + 1
        BY <3>3
      <4>2. h[n] = g[n] /\ h[n - 1] = g[n - 1]
        BY <3>3, <4>1
      <4> QED BY <3>3, <4>1, <4>2, <2>2
    <3> QED BY <3>1, <3>2, <3>3
  <2>4. h = [n \in 0..(m + 1) |-> h[n]]
    OBVIOUS
  <2>5. Pops(h, m + 1)
    <3> HIDE DEF h
    <3>1. [n \in 0..(m + 1) |-> h[n]] =
            [n \in 0..(m + 1) |-> IF n = 0 THEN L ELSE Pop(h[n - 1], l)]
      BY <2>3, Zenon
    <3> QED BY <2>4, <3>1, Zenon
  <2>6. \E k : Pops(k, m + 1)
    <3> HIDE DEF h, Pops
    <3> QED BY <2>5
  <2> HIDE DEF h, Pops
  <2> QED BY <2>6
<1>3. Nat \subseteq S
  <2> HIDE DEF S
  <2> QED BY <1>1, <1>2, SetInduction
<1> QED BY <1>3

\* The destructor of a list lets go of all of its nodes, and of no others
\* (linklist.h:52).
THEOREM ClearEmpties ==
  ASSUME Distinct, NEW L, Typed(L), NEW at, InOrder(L, at), NEW l \in List
  PROVE  LET M == Clear(L, l)
         IN  /\ Typed(M) /\ \E b : InOrder(M, b)
             /\ IsEmpty(M, l) /\ Size(M, l) = 0
             /\ \A n \in Node : M.owner[n] = IF L.owner[n] = l THEN Null ELSE L.owner[n]
<1> DEFINE c == L.count[l]
<1>1. c \in Nat /\ Size(L, l) = c
  BY Ends
<1>2. PICK f : /\ f = [n \in 0..c |-> IF n = 0 THEN L ELSE Pop(f[n - 1], l)]
               /\ Clear(L, l) = f[c]
  <2> DEFINE f == CHOOSE g : g = [n \in 0..c |-> IF n = 0 THEN L ELSE Pop(g[n - 1], l)]
  <2>1. Clear(L, l) = f[c]
    BY <1>1 DEF Clear
  <2>2. f = [n \in 0..c |-> IF n = 0 THEN L ELSE Pop(f[n - 1], l)]
    BY <1>1, PopsExist
  <2> QED BY <2>1, <2>2
<1>3. \A n \in 0..c : f[n] = IF n = 0 THEN L ELSE Pop(f[n - 1], l)
  BY <1>2, Zenon
\* After n pops: the nodes still in the list were there, the others untouched.
<1> DEFINE After(n, b) == /\ Typed(f[n]) /\ InOrder(f[n], b)
                          /\ f[n].count[l] = c - n
                          /\ \A x \in Node : IF L.owner[x] = l
                                             THEN f[n].owner[x] \in {l, Null}
                                             ELSE f[n].owner[x] = L.owner[x]
           S == {n \in Nat : n <= c => \E b : After(n, b)}
<1>4. 0 \in S
  <2>1. f[0] = L
    BY <1>1, <1>3
  <2>2. After(0, at)
    BY <1>1, <2>1
  <2> QED BY <2>2
<1>5. ASSUME NEW n \in Nat, n \in S PROVE n + 1 \in S
  <2> SUFFICES ASSUME n + 1 <= c PROVE \E b : After(n + 1, b)
    OBVIOUS
  <2>1. n <= c /\ n + 1 \in 0..c /\ n + 1 # 0 /\ (n + 1) - 1 = n
    BY <1>1
  <2>2. PICK b : After(n, b)
    BY <1>5, <2>1
  <2> DEFINE x == b[l][1]
             M == Pop(f[n], l)
  <2>3. f[n + 1] = M
    BY <1>3, <2>1
  <2>4. f[n].count[l] > 0
    BY <1>1, <2>1, <2>2
  <2>5. /\ Typed(M) /\ InOrder(M, Without(b, l, 1))
        /\ x \in Node /\ f[n].owner[x] = l
        /\ M.owner = [f[n].owner EXCEPT ![x] = Null]
        /\ M.count[l] = f[n].count[l] - 1
    <3> HIDE DEF M
    <3> QED BY <2>2, <2>4, PopLeaves DEF M
  <2>6. M.count[l] = c - (n + 1)
    BY <1>1, <2>2, <2>5
  <2>7. ASSUME NEW y \in Node
        PROVE  IF L.owner[y] = l THEN M.owner[y] \in {l, Null} ELSE M.owner[y] = L.owner[y]
    <3>1. M.owner[y] = IF y = x THEN Null ELSE f[n].owner[y]
      BY <2>2, <2>5 DEF Typed
    <3>2. IF L.owner[y] = l THEN f[n].owner[y] \in {l, Null} ELSE f[n].owner[y] = L.owner[y]
      BY <2>2
    <3> QED BY <2>5, <3>1, <3>2
  <2>8. After(n + 1, Without(b, l, 1))
    BY <2>3, <2>5, <2>6, <2>7
  <2> QED BY <2>8
<1>6. Nat \subseteq S
  <2> HIDE DEF S
  <2> QED BY <1>4, <1>5, SetInduction
<1>7. PICK b : After(c, b)
  BY <1>1, <1>6
<1> DEFINE M == f[c]
<1>8. Typed(M) /\ InOrder(M, b) /\ M.count[l] = 0
  BY <1>1, <1>7
<1>9. IsEmpty(M, l) /\ Size(M, l) = 0
  BY <1>8, Ends
<1>10. ASSUME NEW n \in Node
       PROVE  M.owner[n] = IF L.owner[n] = l THEN Null ELSE L.owner[n]
  <2>1. M.owner[n] # l
    <3>1. {b[l][i] : i \in 1..M.count[l]} = {k \in Node : M.owner[k] = l}
      BY <1>8, OwnedInChain
    <3>2. 1..M.count[l] = {}
      BY <1>8
    <3> QED BY <3>1, <3>2
  <2> QED BY <1>7, <2>1
<1> QED BY <1>2, <1>8, <1>9, <1>10

\* A list in order has sound pointers.
THEOREM OrderIsSound ==
  ASSUME Distinct, NEW L, Typed(L), NEW at, InOrder(L, at)
  PROVE  Sound(L)
<1> SUFFICES ASSUME NEW x \in Cell
             PROVE  IF InList(L, x)
                    THEN /\ L.next[x] \in Cell /\ L.prev[x] \in Cell
                         /\ InList(L, L.next[x]) /\ InList(L, L.prev[x])
                         /\ L.prev[L.next[x]] = x /\ L.next[L.prev[x]] = x
                         /\ ListOf(L, L.next[x]) = ListOf(L, x)
                         /\ ListOf(L, L.prev[x]) = ListOf(L, x)
                    ELSE L.next[x] = Null /\ L.prev[x] = Null
  BY DEF Sound
<1>1. CASE ~InList(L, x)
  BY <1>1 DEF InList, InOrder, Cell
<1>2. CASE InList(L, x)
  <2> DEFINE l == ListOf(L, x)
             a == at[l]
             c == L.count[l]
  <2>1. l \in List
    BY <1>2 DEF InList, ListOf, Linked, Typed, Cell
  <2>2. /\ Chain(L, a, l) /\ a \in [Nat -> Cell] /\ c \in Nat /\ a[0] = l /\ a[c + 1] = l
    BY <2>1 DEF InOrder, Chain
  <2>3. \A i \in Nat : InList(L, a[i]) /\ ListOf(L, a[i]) = l
    <3>1. \A i \in Nat : i \in 1..c \/ a[i] = l
      BY <2>2 DEF Chain
    <3>2. \A i \in 1..c : InList(L, a[i]) /\ ListOf(L, a[i]) = l
      BY <2>1, <2>2 DEF Chain, InList, ListOf, Linked, Distinct, Cell
    <3>3. InList(L, l) /\ ListOf(L, l) = l
      BY <2>1 DEF InList, ListOf
    <3> QED BY <3>1, <3>2, <3>3
  <2>4. PICK i \in 0..c : a[i] = x
    <3>1. CASE x \in List
      BY <3>1, <2>2 DEF ListOf
    <3>2. CASE x \notin List
      <4>1. x \in Node /\ Linked(L, x) /\ L.owner[x] = l
        BY <3>2, <1>2 DEF InList, ListOf, Cell
      <4>2. \E i \in 1..L.count[L.owner[x]] : at[L.owner[x]][i] = x
        BY <4>1 DEF InOrder
      <4> QED BY <4>1, <4>2, <2>2
    <3> QED BY <3>1, <3>2
  <2>5. PICK j \in 1..(c + 1) : a[j] = x
    BY <2>2, <2>4
  <2>6. i + 1 \in Nat /\ j - 1 \in Nat /\ j - 1 \in 0..c /\ (j - 1) + 1 = j
    BY <2>2, <2>4, <2>5
  <2>7. L.next[x] = a[i + 1] /\ L.prev[a[i + 1]] = x
    BY <2>2, <2>4 DEF Chain
  <2>8. L.prev[x] = a[j - 1] /\ L.next[a[j - 1]] = x
    BY <2>2, <2>5, <2>6 DEF Chain
  <2>9. a[i + 1] \in Cell /\ a[j - 1] \in Cell
    BY <2>2, <2>6
  <2> QED BY <1>2, <2>3, <2>6, <2>7, <2>8, <2>9
<1> QED BY <1>1, <1>2
=============================================================================
