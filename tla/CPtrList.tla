------------------------------ MODULE CPtrList ------------------------------
(***************************************************************************)
(* The pointer list of src/src/cptrlist.c as operators on a record with    *)
(* its capacity, its size and its items. An item is the address of a piece *)
(* of memory; whether that is allocated is up to the caller's heap.        *)
(* Allocation does not fail. Sizes are size_t: they wrap behind SizeMax.   *)
(***************************************************************************)
EXTENDS Integers

CONSTANTS
    NULL,       \* the null pointer
    SizeMax     \* the largest size_t

ASSUME SizeMaxAssumption == SizeMax \in Nat

\* size_t arithmetic
Plus(x, y)  == IF x + y <= SizeMax THEN x + y ELSE x + y - (SizeMax + 1)
Minus(x, y) == IF y <= x THEN x - y ELSE x - y + (SizeMax + 1)
Complement(x) == SizeMax - x
AsSize(x) == IF x < 0 THEN x + (SizeMax + 1) ELSE x

\* A list whose items are in the set Item.
IsList(l, Item) ==
    /\ l.capacity \in 0..SizeMax
    /\ l.size \in 0..l.capacity
    /\ l.items \in [0..(l.capacity - 1) -> Item \cup {NULL}]

\* cptrlist_init
NewList(capacity) ==
    [capacity |-> capacity, size |-> 0, items |-> [i \in 0..(capacity - 1) |-> NULL]]

\* (list->capacity + list->resize_align) - ~(list->resize_align - 1)
NewCapacity(capacity, align) ==
    Minus(Plus(capacity, align), Complement(Minus(align, 1)))

\* _cptrlist_resize
Resize(l, align) ==
    LET newcap == NewCapacity(l.capacity, align)
    IN  [capacity |-> newcap, size |-> l.size,
         items |-> [i \in 0..(newcap - 1) |-> IF i < l.size THEN l.items[i] ELSE NULL]]

\* Mistake: room for one more than there is.
FullTooLate(l) == l.size > l.capacity

\* cptrlist_append resizes the list first when it is full.
Full(l) == l.size = l.capacity

\* The two assignments of cptrlist_append.
Store(l, ix, item) == [l EXCEPT !.items[ix] = item]
Count(l) == [l EXCEPT !.size = @ + 1]

\* cptrlist_find: the first of the indices found, or -1.
Find(found) ==
    IF found = {} THEN -1 ELSE CHOOSE i \in found : \A k \in found : i <= k

\* cptrlist_free_at does something.
Freeable(l, ix) == ix < l.size /\ l.items[ix] # NULL

\* Mistake: whatever was freed, the last item is dropped.
ShrinksAlways(l, ix) == TRUE

\* Mistake: the size stays as it is.
ShrinksNever(l, ix) == FALSE

\* cptrlist_free_at makes the list shorter only at its end; in front of it the
\* pointer stays.
Shrinks(l, ix) == ix = l.size - 1
Shrink(l) == [l EXCEPT !.size = @ - 1]
=============================================================================
