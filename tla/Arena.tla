------------------------------- MODULE Arena --------------------------------
(***************************************************************************)
(* What a storage allocator promises, without free lists: a set of free    *)
(* cells, and users that own disjoint runs of cells.  A request is refused *)
(* only when no run of free cells is long enough for it.                   *)
(***************************************************************************)
EXTENDS Integers

CONSTANT
  Cell     \* the cells, an interval of integers

VARIABLES
  free,    \* the free cells
  refused  \* the length that was refused by the last request, or 0

HasRoom(n) == \E c \in free : c .. c + n - 1 \subseteq free

Init == free = Cell /\ refused = 0

\* A run of free cells gets an owner.
Allocate ==
  \E c, d \in free :
    /\ c <= d /\ c .. d \subseteq free
    /\ free' = free \ (c .. d) /\ refused' = 0

Refuse ==
  /\ refused' \in Nat \ {0} /\ ~HasRoom(refused')
  /\ UNCHANGED free

\* Cells that somebody owns become free; nothing that is free is freed again.
Release ==
  \E c, d \in Cell :
    /\ c <= d /\ c .. d \subseteq Cell \ free
    /\ free' = free \cup c .. d /\ refused' = 0

\* The last refusal is forgotten.
Forget == refused' = 0 /\ UNCHANGED free

Next == Allocate \/ Refuse \/ Release \/ Forget

Spec == Init /\ [][Next]_<<free, refused>>
=============================================================================
