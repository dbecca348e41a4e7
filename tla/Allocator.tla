------------------------------ MODULE Allocator ------------------------------
(***************************************************************************)
(* What a client of IAllocator relies on: Alloc and Reserve hand out a     *)
(* block that overlaps no block already handed out, a block keeps its      *)
(* place and its extent for as long as the client holds it, and Free takes *)
(* back exactly the block the client names.  BFCArena implements this.     *)
(***************************************************************************)
EXTENDS Integers

CONSTANTS Addr,   \* The addresses a block may start at
          Sizes   \* The sizes a client may ask for

VARIABLE held     \* The blocks the clients hold

Block == [ptr : Addr, size : Sizes]

\* Two blocks share no byte.
Apart(a, b) == a.ptr + a.size <= b.ptr \/ b.ptr + b.size <= a.ptr

Init == held = {}

\* Alloc or Reserve: any place will do that no held block reaches into.
Grant(b) == /\ \A h \in held : Apart(b, h)
            /\ held' = held \cup {b}

\* Free(p): nothing but the named block is given back.
Return(b) == /\ b \in held
             /\ held' = held \ {b}

Next == \E b \in Block : Grant(b) \/ Return(b)

Spec == Init /\ [][Next]_held
=============================================================================
