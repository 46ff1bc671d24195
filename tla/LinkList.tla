------------------------------ MODULE LinkList ------------------------------
(***************************************************************************)
(* src/src/timer/linklist.h: lists that hang their nodes on pointers in    *)
(* the nodes themselves.  All nodes and lists make one record of           *)
(*                                                                         *)
(*   next, prev   the pointers of nodes, and of the ends of lists: next[l] *)
(*                is head_.next of list l, prev[l] its tail_.prev, and a   *)
(*                node points to l when it points to &head_ or &tail_      *)
(*                (head_.prev and tail_.next are never used)               *)
(*   owner        owner of each node                                       *)
(*   count        count_ of each list                                      *)
(***************************************************************************)
EXTENDS Naturals

CONSTANTS Node, List, Null

Cell == Node \cup List

NoLinks == [next  |-> [x \in Cell |-> IF x \in List THEN x ELSE Null],
            prev  |-> [x \in Cell |-> IF x \in List THEN x ELSE Null],
            owner |-> [n \in Node |-> Null],
            count |-> [l \in List |-> 0]]

\* A node with any pointer set has all of them set (Linked below).
Linked(L, n) == L.owner[n] # Null

\* Push returns without an effect on a node that hangs in a list.
Push(L, l, n) ==
  IF Linked(L, n) THEN L
  ELSE [next  |-> [L.next EXCEPT ![L.prev[l]] = n, ![n] = l],
        prev  |-> [L.prev EXCEPT ![n] = L.prev[l], ![l] = n],
        owner |-> [L.owner EXCEPT ![n] = l],
        count |-> [L.count EXCEPT ![l] = @ + 1]]

\* PushFront, which nothing calls, is Push at the other end.
PushFront(L, l, n) ==
  IF Linked(L, n) THEN L
  ELSE [next  |-> [L.next EXCEPT ![n] = L.next[l], ![l] = n],
        prev  |-> [L.prev EXCEPT ![L.next[l]] = n, ![n] = l],
        owner |-> [L.owner EXCEPT ![n] = l],
        count |-> [L.count EXCEPT ![l] = @ + 1]]

\* Mutant: the next node still points back to the one that leaves.
Remove_KeepsPrev(L, n) ==
  IF ~Linked(L, n) THEN L
  ELSE [next  |-> [L.next EXCEPT ![L.prev[n]] = L.next[n], ![n] = Null],
        prev  |-> [L.prev EXCEPT ![n] = Null],
        owner |-> [L.owner EXCEPT ![n] = Null],
        count |-> [L.count EXCEPT ![L.owner[n]] = @ - 1]]

Remove(L, n) ==
  IF ~Linked(L, n) THEN L
  ELSE [next  |-> [L.next EXCEPT ![L.prev[n]] = L.next[n], ![n] = Null],
        prev  |-> [L.prev EXCEPT ![L.next[n]] = L.prev[n], ![n] = Null],
        owner |-> [L.owner EXCEPT ![n] = Null],
        count |-> [L.count EXCEPT ![L.owner[n]] = @ - 1]]

\* ~DoubLinkNode().
Destruct(L, n) == IF L.owner[n] # Null THEN Remove(L, n) ELSE L

Size(L, l)     == L.count[l]
IsEmpty(L, l)  == L.next[l] = l
GetFirst(L, l) == L.next[l]

\* What Pop leaves of the list; it returns GetFirst, or null if IsEmpty.
Pop(L, l) == IF IsEmpty(L, l) THEN L ELSE Remove(L, GetFirst(L, l))

\* What ~DoubLink() does: nodes are popped until there is none.
Clear(L, l) ==
  LET popped[n \in 0..Size(L, l)] == IF n = 0 THEN L ELSE Pop(popped[n - 1], l)
  IN popped[Size(L, l)]

-----------------------------------------------------------------------------
\* The list a cell belongs to, itself being one.
ListOf(L, x) == IF x \in List THEN x ELSE L.owner[x]

InList(L, x) == x \in List \/ Linked(L, x)

\* Pointers are sound: those of a linked cell lead to a cell of the same list
\* that points back, and those of a node that hangs nowhere are null.
Sound(L) ==
  \A x \in Cell :
    IF InList(L, x)
    THEN /\ L.next[x] \in Cell /\ L.prev[x] \in Cell
         /\ InList(L, L.next[x]) /\ InList(L, L.prev[x])
         /\ L.prev[L.next[x]] = x /\ L.next[L.prev[x]] = x
         /\ ListOf(L, L.next[x]) = ListOf(L, x) /\ ListOf(L, L.prev[x]) = ListOf(L, x)
    ELSE L.next[x] = Null /\ L.prev[x] = Null
=============================================================================
