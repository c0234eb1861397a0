----------------------------- MODULE FifoQueue ------------------------------
(***************************************************************************)
(* What a user of queue.ConcurrentQueue is promised: an unbounded first-   *)
(* in, first-out queue.  An item is pushed at the back and popped at the   *)
(* front, and nothing else ever happens to it.                             *)
(***************************************************************************)
EXTENDS Sequences

CONSTANT Item

VARIABLES
    items,  \* pushed and not yet popped, oldest first
    taken   \* popped, in the order of the pops

vars == <<items, taken>>

Init == items = <<>> /\ taken = <<>>

Push(i) ==
    /\ items' = Append(items, i)
    /\ UNCHANGED taken

Pop ==
    /\ items # <<>>
    /\ items' = Tail(items)
    /\ taken' = Append(taken, Head(items))

Next == Pop \/ \E i \in Item : Push(i)

Spec == Init /\ [][Next]_vars
=============================================================================
