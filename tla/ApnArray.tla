------------------------------- MODULE ApnArray -------------------------------
(***************************************************************************)
(* apn_array_t as a value, for the modules that keep one in a variable:    *)
(* its slots, their capacity, and whether it has a destructor and a        *)
(* constructor for its items.  Every item is a block of its own on the     *)
(* heap; a slot says what following its pointer would find.                *)
(***************************************************************************)
EXTENDS Naturals, Sequences

\* "live": the block is there.  "null": NULL.  "junk": nothing was ever stored
\* in the slot.  "dangling": the block has been freed.
Slots == {"live", "null", "junk", "dangling"}

Arrays == [items : Seq(Slots), size : Nat, dtor : BOOLEAN, ctor : BOOLEAN,
           store : {"held", "freed"}]

NoArray == [items |-> <<>>, size |-> 0, dtor |-> FALSE, ctor |-> FALSE, store |-> "none"]

\* apn_array_init
NewArray(minsize, dtor, ctor) ==
    [items |-> <<>>, size |-> minsize, dtor |-> dtor, ctor |-> ctor, store |-> "held"]

IsFull(a) == Len(a.items) = a.size

\* Mutant: the capacity is raised by one, and only once.
GrowToTwo(a) == IF IsFull(a) THEN [a EXCEPT !.size = 2] ELSE a

\* Twice the room for a full array.  Twice nothing is nothing: apn_mem_realloc
\* then frees the store, which the array keeps pointing to.
Grow(a) ==
    IF ~IsFull(a) THEN a
    ELSE IF a.size = 0 THEN [a EXCEPT !.store = "freed"]
    ELSE [a EXCEPT !.size = 2 * a.size]

\* APN_ERROR: there is no room.
InsertFails(a) == Grow(a).store = "freed"

\* The store is freed once more.
BadToInsert(a) == IsFull(a) /\ a.store = "freed"

\* apn_array_insert
Insert(a, slot) ==
    IF InsertFails(a) THEN Grow(a) ELSE [Grow(a) EXCEPT !.items = Append(a.items, slot)]

\* apn_array_insert_at_index: the item there is destroyed and replaced, and yet
\* count goes up, over a slot nobody has written.
InsertAt(a, index, slot) ==
    IF InsertFails(a) THEN Grow(a)
    ELSE [Grow(a) EXCEPT !.items = Append([a.items EXCEPT ![index] = slot], "junk")]

\* Mutant: the slot keeps its pointer.
RemoveKeeping(a, index) ==
    IF a.dtor THEN [a EXCEPT !.items[index] = IF @ = "live" THEN "dangling" ELSE @] ELSE a

\* apn_array_remove: the slot stays, as NULL.
Remove(a, index) == [a EXCEPT !.items[index] = "null"]

\* Destroying the item in this slot is undefined.
BadToDestroy(a, slot) == a.dtor /\ slot \in {"junk", "dangling"}

\* apn_array_free is undefined: it frees the store, or an item, twice, or what
\* was never allocated.
BadToFree(a) ==
    \/ a.store = "freed"
    \/ \E k \in 1 .. Len(a.items) : BadToDestroy(a, a.items[k])

\* apn_array_copy takes the success of apn_array_insert for a failure: the copy
\* of an array with items ends after the first one.
CopyAborts(a) == a.items # <<>>

\* What the caller gets: NULL, or an empty array.
Copied(a) == IF CopyAborts(a) THEN NoArray ELSE NewArray(a.size, a.dtor, a.ctor)

\* Giving up, it destroys the first item.  Without a constructor that is the
\* item of the array it was to copy.
CopySource(a) ==
    IF CopyAborts(a) /\ a.dtor /\ ~a.ctor /\ a.items[1] = "live"
    THEN [a EXCEPT !.items[1] = "dangling"]
    ELSE a

\* apn_array_copy hands a junk or dangling pointer to the constructor, or to the
\* destructor.
BadToCopy(a) ==
    CopyAborts(a) /\ (a.dtor \/ a.ctor) /\ a.items[1] \in {"junk", "dangling"}
=============================================================================
