-------------------------- MODULE ConcurrentQueue ---------------------------
(***************************************************************************)
(* The queue of queue/queue.go: a goroutine moves items from an unbuffered *)
(* channel to a buffered one and keeps what does not fit in a list.  Every *)
(* item stands for one send by one goroutine, blocked until it is          *)
(* received.                                                               *)
(***************************************************************************)
EXTENDS Naturals, Sequences, FiniteSets

CONSTANTS
    Item,       \* the items that may be sent
    BufferSize  \* capacity of chanOut

VARIABLES
    offers,     \* sends blocked on chanIn
    sent,       \* sends begun
    inClosed,   \* chanIn is closed
    chanOut,    \* buffered items of chanOut
    outClosed,  \* chanOut is closed
    overflow,   \* the list
    worker,     \* the goroutine: "reading", "emptying", "returned"
    quit,       \* quit is closed
    taken       \* the items received from chanOut

qvars == <<offers, sent, inClosed, chanOut, outClosed, overflow, worker, quit, taken>>

QueueInit ==
    /\ offers = {} /\ sent = {} /\ inClosed = FALSE
    /\ chanOut = <<>> /\ outClosed = FALSE /\ overflow = <<>>
    /\ worker = "reading" /\ quit = FALSE /\ taken = <<>>
-----------------------------------------------------------------------------
\* A goroutine starts to send i.
Send(i) ==
    /\ i \notin sent /\ ~inClosed
    /\ sent' = sent \cup {i}
    /\ offers' = offers \cup {i}
    /\ UNCHANGED <<inClosed, chanOut, outClosed, overflow, worker, quit, taken>>

\* Tries chanOut first, whatever waits in the list.
Receive_direct(i) ==
    /\ worker = "reading" /\ i \in offers
    /\ offers' = offers \ {i}
    /\ IF Len(chanOut) < BufferSize
       THEN chanOut' = Append(chanOut, i) /\ UNCHANGED overflow
       ELSE overflow' = Append(overflow, i) /\ UNCHANGED chanOut
    /\ UNCHANGED <<sent, inClosed, outClosed, worker, quit, taken>>

\* An item is received: straight to chanOut when nothing waits in the list and
\* there is room, otherwise to the back of the list.
Receive(i) ==
    /\ worker = "reading" /\ i \in offers
    /\ offers' = offers \ {i}
    /\ IF overflow = <<>> /\ Len(chanOut) < BufferSize
       THEN chanOut' = Append(chanOut, i) /\ UNCHANGED overflow
       ELSE overflow' = Append(overflow, i) /\ UNCHANGED chanOut
    /\ UNCHANGED <<sent, inClosed, outClosed, worker, quit, taken>>

\* The front of the list moves to chanOut, while reading and while emptying.
Forward ==
    /\ worker # "returned" /\ overflow # <<>> /\ Len(chanOut) < BufferSize
    /\ chanOut' = Append(chanOut, Head(overflow))
    /\ overflow' = Tail(overflow)
    /\ UNCHANGED <<offers, sent, inClosed, outClosed, worker, quit, taken>>

\* The worker sees that chanIn is closed and leaves readLoop.
LeaveLoop ==
    /\ worker = "reading" /\ inClosed
    /\ worker' = "emptying"
    /\ UNCHANGED <<offers, sent, inClosed, chanOut, outClosed, overflow, quit, taken>>

\* Closes chanOut without emptying the list first.
CloseOut_early ==
    /\ worker = "emptying"
    /\ outClosed' = TRUE /\ worker' = "returned"
    /\ UNCHANGED <<offers, sent, inClosed, chanOut, overflow, quit, taken>>

\* The list is empty: chanOut is closed and the goroutine returns.
CloseOut ==
    /\ worker = "emptying" /\ overflow = <<>>
    /\ outClosed' = TRUE /\ worker' = "returned"
    /\ UNCHANGED <<offers, sent, inClosed, chanOut, overflow, quit, taken>>

\* Sees quit only when the list is empty.
Return_idle ==
    /\ quit /\ worker = "reading" /\ overflow = <<>>
    /\ worker' = "returned"
    /\ UNCHANGED <<offers, sent, inClosed, chanOut, outClosed, overflow, quit, taken>>

\* Every select of the goroutine returns on quit.
Return ==
    /\ quit
    /\ worker = "reading" \/ (worker = "emptying" /\ overflow # <<>>)
    /\ worker' = "returned"
    /\ UNCHANGED <<offers, sent, inClosed, chanOut, outClosed, overflow, quit, taken>>

\* A user receives from chanOut.
Take ==
    /\ chanOut # <<>>
    /\ taken' = Append(taken, Head(chanOut))
    /\ chanOut' = Tail(chanOut)
    /\ UNCHANGED <<offers, sent, inClosed, outClosed, overflow, worker, quit>>

\* The user closes chanIn; nobody may be sending.
CloseIn ==
    /\ ~inClosed /\ offers = {}
    /\ inClosed' = TRUE
    /\ UNCHANGED <<offers, sent, chanOut, outClosed, overflow, worker, quit, taken>>

\* Stop begins: quit is closed.  It returns when the goroutine has.
Stop ==
    /\ ~quit
    /\ quit' = TRUE
    /\ UNCHANGED <<offers, sent, inClosed, chanOut, outClosed, overflow, worker, taken>>

Move == (\E i \in Item : Receive(i)) \/ Forward \/ LeaveLoop \/ CloseOut \/ Return
QueueNext == Move \/ Take \/ CloseIn \/ Stop \/ \E i \in Item : Send(i)

QueueSpec == QueueInit /\ [][QueueNext]_qvars

-----------------------------------------------------------------------------
(* Properties *)

Fifo == INSTANCE FifoQueue WITH items <- chanOut \o overflow

\* The queue implements FifoQueue: whatever mix of direct pushes, list and
\* buffer the goroutine uses, items leave in the order in which it received
\* them, none is lost or doubled, and stopping or closing changes neither.
FifoOrder == Fifo!Spec

\* After the user has closed chanIn, a queue that is not stopped closes chanOut,
\* and by then every item it received has been handed on.
DrainedOnClose == inClosed ~> quit \/ (outClosed /\ Len(taken) = Cardinality(sent))
=============================================================================
