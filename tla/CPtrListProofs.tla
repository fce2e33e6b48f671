--------------------------- MODULE CPtrListProofs ---------------------------
(***************************************************************************)
(* Proofs about the pointer list for every capacity and every word size.   *)
(***************************************************************************)
EXTENDS CPtrList, WellFoundedInduction, TLAPS

\* The expression of _cptrlist_resize, which goes through a complement and wraps
\* twice, adds exactly twice the alignment as long as the result is a size_t.
THEOREM NewCapacityExact ==
    ASSUME NEW capacity \in Nat, NEW align \in Nat \ {0},
           capacity + 2 * align <= SizeMax
    PROVE  NewCapacity(capacity, align) = capacity + 2 * align
<1>1. Minus(align, 1) = align - 1
  BY SizeMaxAssumption DEF Minus
<1>2. Complement(align - 1) = SizeMax - (align - 1)
  BY DEF Complement
<1>3. Plus(capacity, align) = capacity + align
  BY SizeMaxAssumption DEF Plus
<1>4. Minus(capacity + align, SizeMax - (align - 1)) =
        capacity + align - (SizeMax - (align - 1)) + (SizeMax + 1)
  BY SizeMaxAssumption DEF Minus
<1> QED
  BY <1>1, <1>2, <1>3, <1>4, SizeMaxAssumption DEF NewCapacity

LEMMA NewListType ==
    ASSUME NEW capacity \in 0..SizeMax, NEW Item
    PROVE  IsList(NewList(capacity), Item)
  BY SizeMaxAssumption DEF NewList, IsList

\* Growing a full list makes room and loses no item.
THEOREM ResizeKeeps ==
    ASSUME NEW Item, NEW l, IsList(l, Item), NEW align \in Nat \ {0},
           l.capacity + 2 * align <= SizeMax
    PROVE  /\ IsList(Resize(l, align), Item)
           /\ ~Full(Resize(l, align))
           /\ Resize(l, align).size = l.size
           /\ \A i \in 0..(l.size - 1) : Resize(l, align).items[i] = l.items[i]
<1> DEFINE newcap == NewCapacity(l.capacity, align)
           items == [i \in 0..(newcap - 1) |-> IF i < l.size THEN l.items[i] ELSE NULL]
<1>1. l.capacity \in Nat /\ l.size \in Nat /\ l.size <= l.capacity
      /\ l.items \in [0..(l.capacity - 1) -> Item \cup {NULL}]
  BY SizeMaxAssumption DEF IsList
<1>2. newcap = l.capacity + 2 * align
  BY <1>1, NewCapacityExact
<1> HIDE DEF newcap
<1>3. newcap \in 0..SizeMax /\ l.size < newcap
  BY <1>1, <1>2, SizeMaxAssumption
<1>4. items \in [0..(newcap - 1) -> Item \cup {NULL}]
      /\ \A i \in 0..(l.size - 1) : items[i] = l.items[i]
  <2>1. newcap \in Nat
    BY <1>3, SizeMaxAssumption
  <2>2. \A i \in 0..(newcap - 1) : i < l.size => i \in 0..(l.capacity - 1)
    BY <1>1, <2>1
  <2>3. \A i \in 0..(newcap - 1) :
          (IF i < l.size THEN l.items[i] ELSE NULL) \in Item \cup {NULL}
    BY <1>1, <2>2
  <2>4. \A i \in 0..(l.size - 1) : i \in 0..(newcap - 1) /\ i < l.size
    BY <1>1, <1>3, <2>1
  <2> QED
    BY <2>3, <2>4
<1>5. /\ Resize(l, align).capacity = newcap
      /\ Resize(l, align).size = l.size
      /\ Resize(l, align).items = items
  <2>1. Resize(l, align) = [capacity |-> newcap, size |-> l.size, items |-> items]
    BY Zenon DEF Resize, newcap
  <2> HIDE DEF items
  <2> QED
    BY <2>1
<1> HIDE DEF items
<1> QED
  BY <1>1, <1>3, <1>4, <1>5 DEF IsList, Full

\* Whatever the order of cptrlist_append's two assignments, both lead to a list
\* that is one item longer and keeps what it had.
THEOREM AppendKeeps ==
    ASSUME NEW Item, NEW l, IsList(l, Item), ~Full(l), NEW x \in Item,
           l = [capacity |-> l.capacity, size |-> l.size, items |-> l.items]
    PROVE  LET one == Count(Store(l, l.size, x))
               two == Store(Count(l), l.size, x)
           IN  /\ one = two
               /\ IsList(one, Item)
               /\ one.size = l.size + 1
               /\ one.items[l.size] = x
               /\ \A i \in 0..(l.size - 1) : one.items[i] = l.items[i]
<1> DEFINE items == [l.items EXCEPT ![l.size] = x]
           r == [capacity |-> l.capacity, size |-> l.size + 1, items |-> items]
<1>1. l.capacity \in Nat /\ l.capacity <= SizeMax /\ l.size \in Nat /\ l.size < l.capacity
      /\ l.items \in [0..(l.capacity - 1) -> Item \cup {NULL}]
  BY SizeMaxAssumption DEF IsList, Full
<1>2. Count(Store(l, l.size, x)) = r
  <2>1. Store(l, l.size, x) = [capacity |-> l.capacity, size |-> l.size, items |-> items]
    <3>1. [l EXCEPT !.items = items] =
            [capacity |-> l.capacity, size |-> l.size, items |-> items]
      OBVIOUS
    <3>2. Store(l, l.size, x) = [l EXCEPT !.items = items]
      BY DEF Store
    <3> QED
      BY <3>1, <3>2
  <2> HIDE DEF items
  <2> QED
    BY <2>1 DEF Count
<1>3. Store(Count(l), l.size, x) = r
  <2>1. Count(l) = [capacity |-> l.capacity, size |-> l.size + 1, items |-> l.items]
    BY DEF Count
  <2>2. Count(l).items = l.items
    BY <2>1
  <2>3. Store(Count(l), l.size, x) = [Count(l) EXCEPT !.items = items]
    BY <2>2 DEF Store
  <2> HIDE DEF items
  <2> QED
    BY <2>1, <2>3
<1>4. /\ items \in [0..(l.capacity - 1) -> Item \cup {NULL}]
      /\ items[l.size] = x
      /\ \A i \in 0..(l.size - 1) : items[i] = l.items[i]
  BY <1>1
<1>5. r.capacity = l.capacity /\ r.size = l.size + 1 /\ r.items = items
  OBVIOUS
<1> HIDE DEF items
<1>6. IsList(r, Item)
  BY <1>1, <1>4, <1>5 DEF IsList
<1> QED
  BY <1>2, <1>3, <1>4, <1>5, <1>6

-----------------------------------------------------------------------------
(* Searching the list.                                                     *)

LEMMA LessThanWellFounded ==
    \E R : IsWellFoundedOn(R, Nat) /\ \A x, y \in Nat : x < y => <<x, y>> \in R
<1>1. IsWellFoundedOn(OpToRel(<, Nat), Nat)
  BY NatLessThanWellFounded
<1>2. \A x, y \in Nat : x < y => <<x, y>> \in OpToRel(<, Nat)
  BY DEF OpToRel
<1> QED
  BY <1>1, <1>2, Zenon

LEMMA LeastNumber ==
    ASSUME NEW T, T \subseteq Nat, T # {}
    PROVE  \E x \in T : \A y \in T : x <= y
<1>1. PICK R : IsWellFoundedOn(R, Nat) /\ \A x, y \in Nat : x < y => <<x, y>> \in R
  BY LessThanWellFounded
<1>2. IsWellFoundedOn(R, Nat)
  BY <1>1
<1>3. PICK x \in T : \A y \in T : <<y, x>> \notin R
  BY <1>2, WFMin
<1>4. \A y \in T : ~(y < x)
  BY <1>1, <1>3
<1> QED
  BY <1>4

\* cptrlist_find returns the first of the items its search accepts, and no item
\* when it accepts none: -1, the largest size_t, is not below the size of any list.
THEOREM FindFirst ==
    ASSUME NEW Item, NEW l, IsList(l, Item), NEW found \in SUBSET (0..(l.size - 1))
    PROVE  /\ AsSize(Find(found)) \in 0..SizeMax
           /\ found # {} => /\ AsSize(Find(found)) \in found
                            /\ \A k \in found : AsSize(Find(found)) <= k
           /\ found = {} => ~Freeable(l, AsSize(Find(found)))
<1>1. l.size \in Nat /\ l.size <= SizeMax /\ SizeMax \in Nat
  BY SizeMaxAssumption DEF IsList
<1>2. CASE found = {}
  <2>1. Find(found) = -1
    BY <1>2 DEF Find
  <2>2. AsSize(-1) = SizeMax
    BY <1>1 DEF AsSize
  <2> QED
    BY <1>1, <1>2, <2>1, <2>2 DEF Freeable
<1>3. CASE found # {}
  <2>1. \E i \in found : \A k \in found : i <= k
    <3>1. found \subseteq Nat
      BY <1>1
    <3> QED
      BY <1>3, <3>1, LeastNumber
  <2>2. Find(found) \in found /\ \A k \in found : Find(found) <= k
    BY <1>3, <2>1 DEF Find
  <2>3. Find(found) \in 0..(l.size - 1)
    BY <2>2
  <2>4. Find(found) >= 0 /\ Find(found) \in 0..SizeMax
    BY <1>1, <2>3
  <2>5. AsSize(Find(found)) = Find(found)
    BY <2>4 DEF AsSize
  <2> QED
    BY <1>3, <2>2, <2>4, <2>5
<1> QED
  BY <1>2, <1>3

-----------------------------------------------------------------------------
(* The parts of appending and shortening, for callers that may be           *)
(* interrupted between them.                                               *)

\* A list is a record of these fields, and of no others.
IsRecord(l) == l = [capacity |-> l.capacity, size |-> l.size, items |-> l.items]

LEMMA NewListRecord ==
    ASSUME NEW capacity
    PROVE  IsRecord(NewList(capacity)) /\ NewList(capacity).size = 0
  BY DEF NewList, IsRecord

LEMMA ResizeRecord ==
    ASSUME NEW l, NEW align
    PROVE  IsRecord(Resize(l, align))
<1>1. \A c, s, i : IsRecord([capacity |-> c, size |-> s, items |-> i])
  BY DEF IsRecord
<1> QED
  BY <1>1 DEF Resize

LEMMA StoreFacts ==
    ASSUME NEW Item, NEW l, IsList(l, Item), IsRecord(l),
           NEW k \in 0..(l.capacity - 1), NEW x \in Item \cup {NULL}
    PROVE  LET s == Store(l, k, x)
           IN  /\ IsList(s, Item) /\ IsRecord(s)
               /\ s.capacity = l.capacity /\ s.size = l.size
               /\ s.items[k] = x
               /\ \A i \in 0..(l.capacity - 1) : i # k => s.items[i] = l.items[i]
<1> DEFINE items == [l.items EXCEPT ![k] = x]
           r == [capacity |-> l.capacity, size |-> l.size, items |-> items]
<1>1. Store(l, k, x) = r
  <2>1. [l EXCEPT !.items = items] = r
    BY DEF IsRecord
  <2>2. Store(l, k, x) = [l EXCEPT !.items = items]
    BY DEF Store
  <2> QED
    BY <2>1, <2>2
<1>2. /\ l.items \in [0..(l.capacity - 1) -> Item \cup {NULL}]
      /\ l.capacity \in 0..SizeMax /\ l.size \in 0..l.capacity
  BY DEF IsList
<1>3. /\ items \in [0..(l.capacity - 1) -> Item \cup {NULL}]
      /\ items[k] = x
      /\ \A i \in 0..(l.capacity - 1) : i # k => items[i] = l.items[i]
  BY <1>2
<1>4. r.capacity = l.capacity /\ r.size = l.size /\ r.items = items
  OBVIOUS
<1> HIDE DEF items
<1>5. IsRecord(r) /\ IsList(r, Item)
  BY <1>2, <1>3, <1>4 DEF IsRecord, IsList
<1> QED
  BY <1>1, <1>3, <1>4, <1>5

LEMMA ResizedBy ==
    ASSUME NEW Item, NEW l, IsList(l, Item), IsRecord(l), NEW size \in 0..l.capacity
    PROVE  LET r == [l EXCEPT !.size = size]
           IN  /\ IsList(r, Item) /\ IsRecord(r)
               /\ r.capacity = l.capacity /\ r.size = size /\ r.items = l.items
<1>1. [l EXCEPT !.size = size] =
        [capacity |-> l.capacity, size |-> size, items |-> l.items]
  BY DEF IsRecord
<1> QED
  BY <1>1 DEF IsList, IsRecord

LEMMA CountFacts ==
    ASSUME NEW Item, NEW l, IsList(l, Item), IsRecord(l), l.size < l.capacity
    PROVE  /\ IsList(Count(l), Item) /\ IsRecord(Count(l))
           /\ Count(l).capacity = l.capacity
           /\ Count(l).size = l.size + 1
           /\ Count(l).items = l.items
<1>1. l.size + 1 \in 0..l.capacity
  BY SizeMaxAssumption DEF IsList
<1>2. Count(l) = [l EXCEPT !.size = l.size + 1]
  BY DEF Count
<1> QED
  BY <1>1, <1>2, ResizedBy

LEMMA ShrinkFacts ==
    ASSUME NEW Item, NEW l, IsList(l, Item), IsRecord(l), l.size > 0
    PROVE  /\ IsList(Shrink(l), Item) /\ IsRecord(Shrink(l))
           /\ Shrink(l).capacity = l.capacity
           /\ Shrink(l).size = l.size - 1
           /\ Shrink(l).items = l.items
<1>1. l.size - 1 \in 0..l.capacity
  BY SizeMaxAssumption DEF IsList
<1>2. Shrink(l) = [l EXCEPT !.size = l.size - 1]
  BY DEF Shrink
<1> QED
  BY <1>1, <1>2, ResizedBy
=============================================================================
