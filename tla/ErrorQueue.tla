----------------------------- MODULE ErrorQueue -----------------------------
(***************************************************************************)
(* How a fatal error of a component reaches litd's main goroutine and how  *)
(* litd stops: the goroutines of rpcmiddleware.Manager and the goroutine   *)
(* that runs lnd send their errors to errQueue, start (terminal.go) waits  *)
(* for the first one, and Run stops the manager, drains the queue, waits   *)
(* for its own goroutines and stops the queue last.                        *)
(***************************************************************************)
EXTENDS ConcurrentQueue

CONSTANT Lnd  \* the goroutine that runs an integrated lnd

ASSUME LndAssumption == Lnd \in Item

Interceptors == Item \ {Lnd}

VARIABLES
    mw,        \* goroutine of each interceptor: "running", "sending", "returned"
    mwQuit,    \* Manager.quit is closed and its context cancelled
    lnd,       \* goroutine of lnd: "running", "sending", "returned"
    main,      \* where Run is
    shutdown   \* the shutdown signal was given

errVars == <<qvars, mw, mwQuit, lnd, main, shutdown>>

ErrInit ==
    /\ QueueInit
    /\ mw = [i \in Interceptors |-> "running"] /\ mwQuit = FALSE
    /\ lnd = "running"
    /\ main = "started" /\ shutdown = FALSE
-----------------------------------------------------------------------------
\* An interceptor's stream reports an error, which the goroutine sends on.
InterceptorError(i) ==
    /\ mw[i] = "running"
    /\ mw' = [mw EXCEPT ![i] = "sending"]
    /\ Send(i)
    /\ UNCHANGED <<mwQuit, lnd, main, shutdown>>

\* Both selects of the goroutine also wait for quit; a send is given up.
InterceptorQuits(i) ==
    /\ mwQuit /\ mw[i] # "returned"
    /\ mw' = [mw EXCEPT ![i] = "returned"]
    /\ offers' = offers \ {i}
    /\ UNCHANGED <<sent, inClosed, chanOut, outClosed, overflow, worker, quit, taken>>
    /\ UNCHANGED <<mwQuit, lnd, main, shutdown>>

\* lnd.Main returns an error at any time, or nil once shutdown was requested.
LndError ==
    /\ lnd = "running"
    /\ lnd' = "sending"
    /\ Send(Lnd)
    /\ UNCHANGED <<mw, mwQuit, main, shutdown>>

LndStops ==
    /\ lnd = "running" /\ shutdown
    /\ lnd' = "returned"
    /\ UNCHANGED <<qvars, mw, mwQuit, main, shutdown>>

\* The queue's goroutine receives an error; the sender returns.
Received(i) ==
    /\ Receive(i)
    /\ mw' = IF i \in Interceptors THEN [mw EXCEPT ![i] = "returned"] ELSE mw
    /\ lnd' = IF i = Lnd THEN "returned" ELSE lnd
    /\ UNCHANGED <<mwQuit, main, shutdown>>

QueueMoves ==
    /\ Forward \/ Return
    /\ UNCHANGED <<mw, mwQuit, lnd, main, shutdown>>

\* Waits for the signal only.
StartFails_signal ==
    /\ main = "started" /\ shutdown
    /\ Take
    /\ main' = "errored"
    /\ UNCHANGED <<mw, mwQuit, lnd, shutdown>>

\* start returns with the first error; LiT is set errored and Run goes on to
\* wait for the shutdown signal.
StartFails ==
    /\ main = "started"
    /\ Take
    /\ main' = "errored"
    /\ UNCHANGED <<mw, mwQuit, lnd, shutdown>>

ShutdownSignal ==
    /\ ~shutdown
    /\ shutdown' = TRUE
    /\ UNCHANGED <<qvars, mw, mwQuit, lnd, main>>

\* shutdownSubServers: Manager.Stop closes quit and cancels the context ...
StopManager ==
    /\ main \in {"started", "errored"} /\ shutdown
    /\ main' = "stopManager" /\ mwQuit' = TRUE
    /\ UNCHANGED <<qvars, mw, lnd, shutdown>>

\* ... and waits for the interceptors' goroutines.
ManagerStopped ==
    /\ main = "stopManager" /\ \A i \in Interceptors : mw[i] = "returned"
    /\ main' = "drain"
    /\ UNCHANGED <<qvars, mw, mwQuit, lnd, shutdown>>

\* Errors that are in chanOut are logged, until it is empty.
DrainOne ==
    /\ main = "drain"
    /\ Take
    /\ UNCHANGED <<mw, mwQuit, lnd, main, shutdown>>

Drained ==
    /\ main = "drain" /\ chanOut = <<>>
    /\ main' = "wait"
    /\ UNCHANGED <<qvars, mw, mwQuit, lnd, shutdown>>

\* wg.Wait, and then the deferred errQueue.Stop closes quit.
WaitAll ==
    /\ main = "wait" /\ lnd = "returned"
    /\ main' = "stopQueue"
    /\ Stop
    /\ UNCHANGED <<mw, mwQuit, lnd, shutdown>>

QueueStopped ==
    /\ main = "stopQueue" /\ worker = "returned"
    /\ main' = "down"
    /\ UNCHANGED <<qvars, mw, mwQuit, lnd, shutdown>>

MainStep == StartFails \/ StopManager \/ ManagerStopped \/ DrainOne \/ Drained \/ WaitAll \/ QueueStopped
QueueStep == QueueMoves \/ \E i \in Item : Received(i)

ErrNext ==
    \/ \E i \in Interceptors : InterceptorError(i) \/ InterceptorQuits(i)
    \/ LndError \/ LndStops
    \/ QueueStep
    \/ MainStep
    \/ ShutdownSignal

ErrSpec == ErrInit /\ [][ErrNext]_errVars

-----------------------------------------------------------------------------
(* Properties *)

\* The variables stay in the ranges of the code's types, and no item is in two
\* places of the queue.
ErrTypeOK ==
    /\ offers \subseteq sent /\ sent \subseteq Item
    /\ chanOut \in Seq(Item) /\ Len(chanOut) <= BufferSize
    /\ overflow \in Seq(Item) /\ taken \in Seq(Item)
    /\ inClosed \in BOOLEAN /\ outClosed \in BOOLEAN /\ quit \in BOOLEAN
    /\ worker \in {"reading", "emptying", "returned"}
    /\ mw \in [Interceptors -> {"running", "sending", "returned"}]
    /\ mwQuit \in BOOLEAN /\ shutdown \in BOOLEAN
    /\ lnd \in {"running", "sending", "returned"}
    /\ main \in {"started", "errored", "stopManager", "drain", "wait", "stopQueue", "down"}

\* After the shutdown signal Run returns, whatever errors are on their way and
\* however full the queue is: no component that Run waits for stays blocked on
\* sending its error, because the queue runs until all of them have returned.
StopReturns == shutdown ~> main = "down"

\* An error that a component has reported while litd runs ends the wait of
\* start: litd does not keep running as if nothing had happened.
ErrorNoticed == taken = <<>> /\ sent # {} ~> main # "started"
=============================================================================
