------------------------------ MODULE MCDaemon ------------------------------
(***************************************************************************)
(* Small instances of four parts of litd, checked in one run: each         *)
(* behaviour is of one part, chosen at the start, and the others rest. The *)
(* parts share no state in the code. The sessions are run twice: one       *)
(* session of either kind, and two autopilot sessions that may be linked.  *)
(***************************************************************************)
EXTENDS ErrorQueue, Sessions, OnChainBudget

CONSTANT FirstSession

VARIABLE part

\* Amounts of requests: with TwoTo63 = 8, the uint64 of -1 is 15.
OfBothSigns == {-1, 1, 2}

userVars == <<mw, mwQuit, lnd, main, shutdown>>
allVars == <<part, errVars, vars, budgetVars>>

DaemonInit ==
    /\ part \in {"queue", "errors", "session", "group", "budget"}
    /\ ErrInit /\ Init /\ BudgetInit
    /\ part # "budget" => amount = [r \in Requests |-> CHOOSE a \in Amounts : TRUE]

DaemonNext ==
    /\ UNCHANGED part
    /\ \/ /\ part = "queue" /\ QueueNext
          /\ UNCHANGED <<userVars, vars, budgetVars>>
       \/ part = "errors" /\ ErrNext /\ UNCHANGED <<vars, budgetVars>>
       \/ /\ part = "session" /\ Next
          /\ \A s \in Sessions \ {FirstSession} : state'[s] = "none"
          /\ UNCHANGED <<errVars, budgetVars>>
       \/ /\ part = "group" /\ Next
          /\ \A s \in Sessions : state'[s] # "none" => kind'[s] = "autopilot"
          /\ UNCHANGED <<errVars, budgetVars>>
       \/ part = "budget" /\ BudgetNext /\ UNCHANGED <<errVars, vars>>

(***************************************************************************)
(* Queue: its goroutine runs, and its user goes on receiving. Errors:      *)
(* every goroutine that can go on does, and lnd ends after the signal; the *)
(* signal itself and errors are not owed. Sessions: see Fairness there;    *)
(* sessions that rest owe nothing.                                         *)
(***************************************************************************)
DaemonFairness ==
    /\ WF_qvars(part = "queue" /\ Move) /\ WF_qvars(part = "queue" /\ Take)
    /\ WF_errVars(part = "errors" /\ QueueStep) /\ WF_errVars(part = "errors" /\ MainStep)
    /\ WF_errVars(part = "errors" /\ (LndStops \/ (shutdown /\ LndError)))
    /\ \A i \in Interceptors : WF_errVars(part = "errors" /\ InterceptorQuits(i))
    /\ Fairness

DaemonSpec == DaemonInit /\ [][DaemonNext]_allVars /\ DaemonFairness
-----------------------------------------------------------------------------
\* The types of all variables: of the queue and its users, of sessions, of the
\* budget.
DaemonTypeOK == ErrTypeOK /\ TypeOK /\ BudgetTypeOK

\* Errors: an error that was reported ends the wait of start. (A queue that is
\* run by itself has no such reader.)
ErrorReachesMain == part = "errors" => ErrorNoticed
=============================================================================
