-------------------------- MODULE AccountPayments ---------------------------
(***************************************************************************)
(* The payment side of the off-chain accounts service                      *)
(* (accounts/service.go, checkers.go, interceptor.go): a send request is   *)
(* checked against the account's available balance and reserved, lnd runs  *)
(* the payment, the intercepted answer starts a tracking goroutine, and    *)
(* that goroutine debits the account or releases the reservation.  litd    *)
(* may crash anywhere and resumes tracking in Start.                       *)
(*                                                                         *)
(* An action is one critical section of the service lock.  Intercept holds *)
(* requestMtx across two of them: a request in state "checked" or          *)
(* "replying" is the one that holds it.                                    *)
(***************************************************************************)
EXTENDS AccountStore, FiniteSets

CONSTANTS
    Accounts,      \* account IDs; their order is the order Start reads them in
    InitAccts,     \* the accounts that exist before the first request
    Hashes,        \* payment hashes
    Reqs,          \* RPC request IDs, each used once
    NoReq,         \* no request
    Kinds,         \* send RPCs in use: "v2", "sync", "route"
    Values,        \* payment amounts
    FeeLimits,     \* fee limits
    InitBalance,   \* balance of a new account
    AdminAmounts,  \* amounts the operator credits, debits or sets
    MaxBalance,    \* bound: the operator credits no account above this
    MaxCrashes,    \* bound: crashes of litd
    Faults         \* which of FaultKinds can happen

\* Operator calls, expiry, removal; a failing TrackPayment RPC or stream; a
\* failing write, or second write of a settlement; two accounts paying the
\* same hash; lnd taking up, after litd's restart, what was accepted before.
FaultKinds == {"admin", "expire", "remove", "router", "stream", "store", "settle",
               "share", "late"}

ASSUME AccountsAssumption == Accounts \subseteq Nat \ {0} /\ InitAccts \subseteq Accounts
ASSUME RequestsAssumption == NoReq \notin Reqs /\ Kinds \subseteq {"v2", "sync", "route"}
ASSUME AmountsAssumption ==
    /\ Values \subseteq Nat /\ FeeLimits \subseteq Nat /\ AdminAmounts \subseteq Nat
    /\ InitBalance \in Nat /\ MaxBalance \in Nat /\ MaxCrashes \in Nat
ASSUME FaultsAssumption == Faults \subseteq FaultKinds

NoAcct == 0

VARIABLES
    accts, gone, expired,   \* store: existing, removed and expired accounts
    balance, payments,      \* store: the rest of an account row
    phase,                  \* litd: "down", "starting", "up", or "stopped" after a failed Start
    enabled,                \* isEnabled
    startQ,                 \* payments Start read and has not resumed yet
    pending,                \* pendingPayments: hash -> account
    tracker,                \* per hash: the goroutine of pending[hash], by its mailbox
    stale,                  \* per hash: mailboxes of cancelled goroutines that still run
    reqVals,                \* requests with registered values
    req,                    \* send requests
    lnd,                    \* external: lnd's payment per hash
    crashes

storeVars   == <<accts, gone, expired, balance, payments>>
serviceVars == <<phase, enabled, startQ, pending, tracker, stale, reqVals>>
vars == <<storeVars, serviceVars, req, lnd, crashes>>
-----------------------------------------------------------------------------
ReqStates == {"new", "checked", "accepted", "started", "refused", "payerr", "replying", "done"}

Mailboxes == {"none", "watching", "SUCCEEDED", "FAILED", "notInitiated"}

\* What a tracking goroutine has received and not acted on yet.
Undelivered(m) == {m} \cap {"SUCCEEDED", "FAILED", "notInitiated"}

Request(st, a, h, kind, val, fee) ==
    [st |-> st, acct |-> a, hash |-> h, kind |-> kind, val |-> val, fee |-> fee,
     resp |-> "none", amt |-> 0]

\* Request q in state st, with status and amount of the answer it got.
Answered(q, st, resp, amt) ==
    [st |-> st, acct |-> q.acct, hash |-> q.hash, kind |-> q.kind, val |-> q.val, fee |-> q.fee,
     resp |-> resp, amt |-> amt]

Moved(q, st) == Answered(q, st, q.resp, q.amt)

NewReq == Request("new", NoAcct, "none", "none", 0, 0)

MtxFree == \A r \in Reqs : req[r].st \notin {"checked", "replying"}

StoreResults ==
    {"ok"} \cup (IF "store" \in Faults THEN {"failRead", "failWrite"} ELSE {})
           \cup (IF "settle" \in Faults THEN {"failSecond"} ELSE {})

RouterResults == IF "router" \in Faults THEN BOOLEAN ELSE {TRUE}

\* Variant for BalanceCovered: the check ignores the fee.
SendAmt_noFee(kind, val, fee) == val

\* The amount checkSend (v2, sync) or checkSendToRoute (route) requires: the
\* fee limit on top of the value; a route's total already contains its fees.
SendAmt(kind, val, fee) == IF kind = "route" THEN (val + fee) + fee ELSE val + fee

\* Intercept's checks, made again for every request and every response.
Admits(a) == enabled /\ a \in accts \ expired

Init ==
    /\ accts = InitAccts /\ gone = {} /\ expired = {}
    /\ balance = [a \in Accounts |-> IF a \in InitAccts THEN InitBalance ELSE 0]
    /\ payments = [a \in Accounts |-> [h \in Hashes |-> NotAssociated]]
    /\ phase = "up" /\ enabled = TRUE /\ startQ = {}
    /\ pending = [h \in Hashes |-> NoAcct]
    /\ tracker = [h \in Hashes |-> "none"]
    /\ stale = [h \in Hashes |-> {}]
    /\ reqVals = {}
    /\ req = [r \in Reqs |-> NewReq]
    /\ lnd = [h \in Hashes |-> [st |-> "none", req |-> NoReq, amt |-> 0]]
    /\ crashes = 0
-----------------------------------------------------------------------------
(***************************************************************************)
(* TrackPayment.  TrackResult names the way it returns; TrackEffect is     *)
(* what it has done by then.  "critical" also disables the service: the    *)
(* payment was not known to the account.  The disabled check comes after   *)
(* the write, so a disabled service still stores the entry.                *)
(***************************************************************************)
TrackOpts(amt) ==
    {"ErrIfAlreadySucceeded"} \cup (IF amt = 0 THEN {"UsePendingAmount"} ELSE {})

TrackResult(a, h, amt, db, router) ==
    LET e == payments[a][h] IN
    IF pending[h] # NoAcct                            THEN "alreadyTracked"
    ELSE IF a \notin accts \/ db = "failRead"         THEN "critical"
    ELSE IF UpsertError(e, TrackOpts(amt)) # "ok"     THEN "alreadySucceeded"
    ELSE IF db = "failWrite" THEN IF Known(e) THEN "notStored" ELSE "critical"
    ELSE IF ~enabled                                  THEN "disabled"
    ELSE IF router THEN "started" ELSE "routerError"

TrackFailed(result) == result \in {"critical", "notStored", "disabled", "routerError"}

\* Variant for RemovedNeverSucceeds: a payment in flight counts as terminal.
FirstStatus_terminal(h) ==
    CASE lnd[h].st = "none"      -> "notInitiated"
      [] lnd[h].st = "succeeded" -> "SUCCEEDED"
      [] OTHER                   -> "FAILED"

\* What the goroutine does first with lnd's TrackPayment stream: wait while the
\* payment is in flight, or act on a terminal status or "not initiated".
FirstStatus(h) ==
    CASE lnd[h].st = "none"      -> "notInitiated"
      [] lnd[h].st = "inflight"  -> "watching"
      [] lnd[h].st = "succeeded" -> "SUCCEEDED"
      [] lnd[h].st = "failed"    -> "FAILED"

TrackEffect(a, h, amt, result) ==
    /\ payments' = IF result \in {"started", "disabled", "routerError"}
                   THEN [payments EXCEPT ![a][h] = UpsertEntry(@, amt, "UNKNOWN", TrackOpts(amt))]
                   ELSE payments
    /\ pending' = IF result = "started" THEN [pending EXCEPT ![h] = a] ELSE pending
    /\ tracker' = IF result = "started" THEN [tracker EXCEPT ![h] = FirstStatus(h)] ELSE tracker

(***************************************************************************)
(* removePayment of the hashes in S, all tracked.  cancel() reaches the    *)
(* goroutine's context, not a status it has received before: Cancel keeps  *)
(* that one as stale.                                                      *)
(***************************************************************************)
RemoveOpts == {"ErrIfUnknown", "UsePendingAmount"}

\* Variant for ReleaseEventually: the status is not written.
RemovedEntry_unwritten(e, status) == e

RemovedEntry(e, status) ==
    IF UpsertError(e, RemoveOpts) = "ok" THEN UpsertEntry(e, 0, status, RemoveOpts) ELSE e

\* Variant for TrackedReserved: the payment stays in pendingPayments.
removePayment_keepsPending(S, status) ==
    /\ payments' = [a \in Accounts |-> [h \in Hashes |->
                        IF h \in S /\ pending[h] = a THEN RemovedEntry(payments[a][h], status)
                                                     ELSE payments[a][h]]]
    /\ UNCHANGED pending

removePayment(S, status) ==
    /\ payments' = [a \in Accounts |-> [h \in Hashes |->
                        IF h \in S /\ pending[h] = a THEN RemovedEntry(payments[a][h], status)
                                                     ELSE payments[a][h]]]
    /\ pending' = [h \in Hashes |-> IF h \in S THEN NoAcct ELSE pending[h]]

Cancel(S) ==
    /\ tracker' = [h \in Hashes |-> IF h \in S THEN "none" ELSE tracker[h]]
    /\ stale' = [h \in Hashes |-> IF h \in S THEN stale[h] \cup Undelivered(tracker[h]) ELSE stale[h]]
-----------------------------------------------------------------------------
(***************************************************************************)
(* A send request: Intercept and CheckBalance, then AssociatePayment and   *)
(* RegisterValues.  A request refused by the first pair changes nothing.   *)
(***************************************************************************)
CheckSend(r, a, h, kind, val, fee) ==
    /\ phase = "up" /\ MtxFree
    /\ req[r].st = "new"
    /\ Admits(a)
    /\ calcAvailableAccountBalance(balance[a], payments[a]) >= SendAmt(kind, val, fee)
    /\ "share" \in Faults \/ \A q \in Reqs : req[q].hash = h => req[q].acct = a
    /\ req' = [req EXCEPT ![r] = Request("checked", a, h, kind, val, fee)]
    /\ UNCHANGED <<storeVars, serviceVars, lnd, crashes>>

\* Variant for PaymentsResumable: a pending payment is associated again.
AssociateOpts_again == {}

AssociateOpts == {"ErrIfAlreadyPending"}

AssociatePayment(r, db) ==
    LET a == req[r].acct
        h == req[r].hash
        stored == a \in accts /\ UpsertError(payments[a][h], AssociateOpts) = "ok" /\ db = "ok"
        amt == SendAmt(req[r].kind, req[r].val, req[r].fee)
    IN
    /\ req[r].st = "checked"
    /\ payments' = IF stored
                   THEN [payments EXCEPT ![a][h] = UpsertEntry(@, amt, "UNKNOWN", AssociateOpts)]
                   ELSE payments
    /\ reqVals' = IF stored THEN reqVals \cup {r} ELSE reqVals
    /\ req' = [req EXCEPT ![r] = Moved(@, IF stored THEN "accepted" ELSE "done")]
    /\ UNCHANGED <<accts, gone, expired, balance, phase, enabled, startQ, pending, tracker,
                   stale, lnd, crashes>>

(***************************************************************************)
(* lnd, external: it runs one payment per hash at a time and never pays a  *)
(* hash twice.  What it refuses it answers with an error, or for a         *)
(* SendResponse RPC with a payment error.  TrackPayment streams deliver a  *)
(* payment's terminal status.                                              *)
(***************************************************************************)
LndBusy(h) == lnd[h].st \in {"inflight", "succeeded"}

LndStart(r) ==
    /\ req[r].st = "accepted"
    /\ ~LndBusy(req[r].hash)
    /\ lnd' = [lnd EXCEPT ![req[r].hash] = [st |-> "inflight", req |-> r, amt |-> 0]]
    /\ req' = [req EXCEPT ![r] = Moved(@, "started")]
    /\ UNCHANGED <<storeVars, serviceVars, crashes>>

LndRefuse(r) ==
    /\ req[r].st = "accepted"
    /\ req' = [req EXCEPT ![r] = Moved(@, IF req[r].kind = "sync" /\ LndBusy(req[r].hash)
                                          THEN "payerr" ELSE "refused")]
    /\ UNCHANGED <<storeVars, serviceVars, lnd, crashes>>

\* The fee paid is within the limit; a route's fee is fixed.
LndResolve(h, ok, fee) ==
    LET q == req[lnd[h].req] IN
    /\ lnd[h].st = "inflight"
    /\ fee \in (IF q.kind = "route" THEN {q.fee} ELSE 0 .. q.fee)
    /\ lnd' = [lnd EXCEPT ![h] = [st |-> IF ok THEN "succeeded" ELSE "failed", req |-> @.req,
                                  amt |-> IF ok THEN q.val + fee ELSE 0]]
    /\ tracker' = [tracker EXCEPT ![h] = IF @ # "watching" THEN @
                                         ELSE IF ok THEN "SUCCEEDED" ELSE "FAILED"]
    /\ UNCHANGED <<storeVars, phase, enabled, startQ, pending, stale, reqVals, req, crashes>>

(***************************************************************************)
(* The answers lnd can give to request r, as the response handlers read    *)
(* them: status and full amount.  SendPaymentV2 streams an in-flight       *)
(* payment with the fee known so far; the SendResponse RPCs and            *)
(* SendToRouteV2 answer at the end, with the route's total plus its fees.  *)
(***************************************************************************)
Answer(status, amt) == [status |-> status, amt |-> amt]

\* lnd's status for the payment of request r.
LndStatus(r) == IF lnd[req[r].hash].req = r THEN lnd[req[r].hash].st ELSE "failed"

PaymentAnswers(r) ==
    {Answer("IN_FLIGHT", req[r].val + fee) : fee \in 0 .. req[r].fee}
    \cup (IF LndStatus(r) = "succeeded" THEN {Answer("SUCCEEDED", lnd[req[r].hash].amt)}
          ELSE IF LndStatus(r) = "failed" THEN {Answer("FAILED", 0)} ELSE {})

ResponseAnswers(r) ==
    LET q == req[r]
        paid == lnd[q.hash].amt
    IN
    IF LndStatus(r) = "succeeded"   THEN {Answer("IN_FLIGHT", paid + (paid - q.val))}
    ELSE IF LndStatus(r) # "failed" THEN {}
    ELSE IF q.kind = "sync"         THEN {Answer("FAILED", 0)}
    ELSE {Answer("IN_FLIGHT", SendAmt("route", q.val, q.fee))}

Answers(r) ==
    IF req[r].st = "refused"     THEN {Answer("ERROR", 0)}
    ELSE IF req[r].st = "payerr" THEN {Answer("FAILED", 0)}
    ELSE IF req[r].kind = "v2"   THEN PaymentAnswers(r)
    ELSE ResponseAnswers(r)

(***************************************************************************)
(* An intercepted answer.  Intercept runs its checks and finds the request *)
(* values, or the answer changes nothing and ends the request; then the    *)
(* handler acts: erroredPaymentHandler for an error, checkSendResponse or  *)
(* sendToRouteHTLCResponseHandler otherwise.  A handler that fails keeps   *)
(* the request values.                                                     *)
(***************************************************************************)
Intercept(r) ==
    /\ phase \in {"up", "stopped"} /\ MtxFree
    /\ req[r].st \in {"started", "refused", "payerr"}
    /\ \E answer \in Answers(r) :
          req' = IF Admits(req[r].acct) /\ r \in reqVals
                 THEN [req EXCEPT ![r] = Answered(@, "replying", answer.status, answer.amt)]
                 ELSE [req EXCEPT ![r] = Moved(@, "done")]
    /\ UNCHANGED <<storeVars, serviceVars, lnd, crashes>>

Replied(r) == req' = [req EXCEPT ![r] = Answered(@, "done", @.resp, 0)]

PaymentErrored(r, db) ==
    LET a == req[r].acct
        h == req[r].hash
        deleted == pending[h] = NoAcct /\ a \in accts /\ Known(payments[a][h]) /\ db = "ok"
    IN
    /\ req[r].st = "replying" /\ req[r].resp = "ERROR"
    /\ payments' = IF deleted THEN [payments EXCEPT ![a][h] = NotAssociated] ELSE payments
    /\ reqVals' = IF deleted THEN reqVals \ {r} ELSE reqVals
    /\ Replied(r)
    /\ UNCHANGED <<accts, gone, expired, balance, phase, enabled, startQ, pending, tracker,
                   stale, lnd, crashes>>

SendFailed(r, db) ==
    LET h == req[r].hash
        S == IF pending[h] # NoAcct /\ db = "ok" THEN {h} ELSE {}
    IN
    /\ req[r].st = "replying" /\ req[r].resp = "FAILED"
    /\ reqVals' = reqVals \ {r}
    /\ removePayment(S, "FAILED") /\ Cancel(S)
    /\ Replied(r)
    /\ UNCHANGED <<accts, gone, expired, balance, phase, enabled, startQ, lnd, crashes>>

SendTracked(r, db, router) ==
    LET q == req[r]
        result == TrackResult(q.acct, q.hash, q.amt, db, router)
    IN
    /\ q.st = "replying" /\ q.resp \in {"IN_FLIGHT", "SUCCEEDED"}
    /\ TrackEffect(q.acct, q.hash, q.amt, result)
    /\ enabled' = (enabled /\ result # "critical")
    /\ reqVals' = IF TrackFailed(result) THEN reqVals ELSE reqVals \ {r}
    /\ Replied(r)
    /\ UNCHANGED <<accts, gone, expired, balance, phase, startQ, stale, lnd, crashes>>
-----------------------------------------------------------------------------
(***************************************************************************)
(* paymentUpdate with a terminal status m.  A disabled service ignores it; *)
(* a payment that is not tracked, or a failed write, disables the service. *)
(* A success is two writes: the debit, and removePayment's status update;  *)
(* when only the second one fails the payment stays in pendingPayments.    *)
(***************************************************************************)
Untracks(h, m, db) == pending[h] # NoAcct /\ db = "ok" /\ (enabled \/ m = "notInitiated")

Debits(h, m, db) ==
    m = "SUCCEEDED" /\ pending[h] # NoAcct /\ enabled /\ db \in {"ok", "failSecond"}

\* Variant for DebitsAreReal: the reserved amount is debited.
DebitOpts_reserved == {"DebitAccount", "UsePendingAmount"}

DebitOpts == {"DebitAccount"}

\* Variant for DebitOnce: removePayment first, then the debit.
paymentUpdate_swapped(h, m, db) ==
    LET a == pending[h] IN
    /\ enabled' = (enabled /\ Untracks(h, m, db))
    /\ removePayment(IF Debits(h, m, db) \/ Untracks(h, m, db) THEN {h} ELSE {},
                     IF m = "SUCCEEDED" THEN m ELSE "FAILED")
    /\ balance' = IF Debits(h, m, db) /\ db = "ok"
                  THEN [balance EXCEPT ![a] = @ - lnd[h].amt] ELSE balance

paymentUpdate(h, m, db) ==
    LET a == pending[h]
        debited == UpsertEntry(payments[a][h], lnd[h].amt, "SUCCEEDED", DebitOpts)
    IN
    /\ enabled' = (enabled /\ Untracks(h, m, db))
    /\ IF Debits(h, m, db)
       THEN /\ payments' = [payments EXCEPT ![a][h] = RemovedEntry(debited, "SUCCEEDED")]
            /\ balance' = [balance EXCEPT ![a] = UpsertBalance(@, debited, DebitOpts)]
            /\ pending' = [pending EXCEPT ![h] = IF Untracks(h, m, db) THEN NoAcct ELSE @]
       ELSE /\ removePayment(IF Untracks(h, m, db) THEN {h} ELSE {}, "FAILED")
            /\ UNCHANGED balance

\* The goroutine that tracks h acts on the status in its mailbox and returns.
TrackerUpdate(h, db) ==
    /\ tracker[h] \in {"SUCCEEDED", "FAILED"}
    /\ paymentUpdate(h, tracker[h], db)
    /\ tracker' = [tracker EXCEPT ![h] = "none"]
    /\ UNCHANGED <<accts, gone, expired, phase, startQ, stale, reqVals, req, lnd, crashes>>

\* Variants of TrackerNotInitiated: for StaysEnabled, the error disables the
\* service like any other; for SoleAttemptResumable, the entry is deleted.
TrackerNotInitiated_disables(h, db) ==
    /\ tracker[h] = "notInitiated"
    /\ tracker' = [tracker EXCEPT ![h] = "none"]
    /\ enabled' = FALSE
    /\ UNCHANGED <<storeVars, phase, startQ, pending, stale, reqVals, req, lnd, crashes>>

TrackerNotInitiated_deletes(h, db) ==
    /\ tracker[h] = "notInitiated" /\ pending[h] # NoAcct
    /\ payments' = [payments EXCEPT ![pending[h]][h] = NotAssociated]
    /\ pending' = [pending EXCEPT ![h] = NoAcct]
    /\ tracker' = [tracker EXCEPT ![h] = "none"]
    /\ UNCHANGED <<accts, gone, expired, balance, phase, enabled, startQ, stale, reqVals, req,
                   lnd, crashes>>

\* The stream says that lnd never saw the payment: RemovePayment, by hash.
TrackerNotInitiated(h, db) ==
    /\ tracker[h] = "notInitiated"
    /\ removePayment(IF Untracks(h, "notInitiated", db) THEN {h} ELSE {}, "FAILED")
    /\ tracker' = [tracker EXCEPT ![h] = "none"]
    /\ UNCHANGED <<accts, gone, expired, balance, phase, enabled, startQ, stale, reqVals, req,
                   lnd, crashes>>

\* Any other error of the stream disables the service.
TrackerError(h) ==
    /\ "stream" \in Faults
    /\ tracker[h] # "none"
    /\ enabled' = FALSE
    /\ tracker' = [tracker EXCEPT ![h] = "none"]
    /\ UNCHANGED <<storeVars, phase, startQ, pending, stale, reqVals, req, lnd, crashes>>

\* Stop, after a failed Start, has closed quit: the goroutines return.
TrackerQuit(h) ==
    /\ phase = "stopped"
    /\ tracker[h] # "none"
    /\ tracker' = [tracker EXCEPT ![h] = "none"]
    /\ UNCHANGED <<storeVars, phase, enabled, startQ, pending, stale, reqVals, req, lnd, crashes>>

(***************************************************************************)
(* A cancelled goroutine whose select still finds a received message: it   *)
(* acts on it, against whatever pendingPayments says about the hash by     *)
(* then, or notices the cancelled context.                                 *)
(***************************************************************************)
StaleUpdate(h, m, db) ==
    /\ m \in stale[h]
    /\ IF m = "notInitiated"
       THEN /\ removePayment(IF Untracks(h, m, db) THEN {h} ELSE {}, "FAILED")
            /\ UNCHANGED <<balance, enabled>>
       ELSE paymentUpdate(h, m, db)
    /\ tracker' = [tracker EXCEPT ![h] = IF Untracks(h, m, db) THEN "none" ELSE @]
    /\ stale' = [stale EXCEPT ![h] = (@ \ {m}) \cup
                     (IF Untracks(h, m, db) THEN Undelivered(tracker[h]) ELSE {})]
    /\ UNCHANGED <<accts, gone, expired, phase, startQ, reqVals, req, lnd, crashes>>

StaleExit(h, m) ==
    /\ m \in stale[h]
    /\ stale' = [stale EXCEPT ![h] = @ \ {m}]
    /\ UNCHANGED <<storeVars, phase, enabled, startQ, pending, tracker, reqVals, req, lnd, crashes>>
-----------------------------------------------------------------------------
(***************************************************************************)
(* The operator's RPCs (accounts/rpcserver.go).  They are served as soon   *)
(* as litd starts.  Balance changes need an enabled service, NewAccount    *)
(* and RemoveAccount do not; account IDs are never reused.                 *)
(***************************************************************************)
Serving == phase \in {"starting", "up", "stopped"}

NewAccount(a) ==
    /\ Serving
    /\ a \notin accts \cup gone
    /\ accts' = accts \cup {a}
    /\ balance' = [balance EXCEPT ![a] = InitBalance]
    /\ UNCHANGED <<gone, expired, payments, serviceVars, req, lnd, crashes>>

AdjustBalance(a, new) ==
    /\ "admin" \in Faults
    /\ Serving /\ enabled
    /\ a \in accts
    /\ balance' = [balance EXCEPT ![a] = new]
    /\ UNCHANGED <<accts, gone, expired, payments, serviceVars, req, lnd, crashes>>

UpdateBalance(a, amt) == AdjustBalance(a, amt)

CreditAccount(a, amt) == balance[a] + amt <= MaxBalance /\ AdjustBalance(a, balance[a] + amt)

DebitAccount(a, amt) == DebitAllowed(balance[a], amt) /\ AdjustBalance(a, balance[a] - amt)

\* UpdateAccount with a new expiration date.
UpdateExpiry(a) ==
    /\ "expire" \in Faults
    /\ Serving /\ enabled
    /\ a \in accts
    /\ expired' = expired \ {a}
    /\ UNCHANGED <<accts, gone, balance, payments, serviceVars, req, lnd, crashes>>

\* The account's expiration date passes.
Expire(a) ==
    /\ "expire" \in Faults
    /\ a \in accts
    /\ expired' = expired \cup {a}
    /\ UNCHANGED <<accts, gone, balance, payments, serviceVars, req, lnd, crashes>>

\* The tracked payments of the account are removed one by one; a failed write
\* stops in between and leaves the account.
RemoveAccount(a, S, db) ==
    LET tracked == {h \in Hashes : pending[h] = a} IN
    /\ "remove" \in Faults
    /\ Serving
    /\ a \in accts
    /\ S \subseteq tracked
    /\ db = "ok" => S = tracked
    /\ Cancel(S)
    /\ IF db = "ok"
       THEN /\ accts' = accts \ {a} /\ gone' = gone \cup {a} /\ expired' = expired \ {a}
            /\ balance' = [balance EXCEPT ![a] = 0]
            /\ payments' = [payments EXCEPT ![a] = [h \in Hashes |-> NotAssociated]]
            /\ pending' = [h \in Hashes |-> IF h \in S THEN NoAcct ELSE pending[h]]
       ELSE removePayment(S, "FAILED") /\ UNCHANGED <<accts, gone, expired, balance>>
    /\ UNCHANGED <<phase, enabled, startQ, reqVals, req, lnd, crashes>>
-----------------------------------------------------------------------------
(***************************************************************************)
(* A crash loses the memory of the service and the request it was serving. *)
(* Start reads all accounts once and resumes, account by account, every    *)
(* payment that has not succeeded; an error ends it, and litd then stops   *)
(* the service.  By the time litd is back lnd has taken up or dropped the  *)
(* requests accepted before the crash, unless "late".                      *)
(***************************************************************************)
Crash ==
    /\ phase # "down"
    /\ crashes < MaxCrashes
    /\ crashes' = crashes + 1
    /\ phase' = "down" /\ enabled' = FALSE /\ startQ' = {} /\ reqVals' = {}
    /\ pending' = [h \in Hashes |-> NoAcct]
    /\ tracker' = [h \in Hashes |-> "none"]
    /\ stale' = [h \in Hashes |-> {}]
    /\ req' = [r \in Reqs |-> IF req[r].st \in {"checked", "replying"}
                              THEN Answered(req[r], "done", "none", 0) ELSE req[r]]
    /\ UNCHANGED <<storeVars, lnd>>

\* Variants of Resumed: for SettleEventually, nothing is resumed; for OwnDebits,
\* every payment is resumed for the last account of the loop.
Resumed_nothing == {}

Resumed_lastAccount ==
    {[acct |-> CHOOSE a \in accts : \A b \in accts : b <= a, hash |-> p[2],
      amt |-> payments[p[1]][p[2]].amt] :
        p \in {x \in accts \X Hashes : inflightState(payments[x[1]][x[2]].status)}}

\* The payments that Start resumes.
Resumed ==
    {[acct |-> p[1], hash |-> p[2], amt |-> payments[p[1]][p[2]].amt] :
        p \in {x \in accts \X Hashes : /\ Known(payments[x[1]][x[2]])
                                       /\ ~successState(payments[x[1]][x[2]].status)}}

Start ==
    /\ phase = "down"
    /\ phase' = "starting" /\ enabled' = TRUE
    /\ startQ' = Resumed
    /\ req' = [r \in Reqs |-> IF req[r].st = "accepted" /\ "late" \notin Faults
                              THEN Moved(req[r], "done") ELSE req[r]]
    /\ UNCHANGED <<storeVars, pending, tracker, stale, reqVals, lnd, crashes>>

StartTrack(p, db, router) ==
    LET result == TrackResult(p.acct, p.hash, p.amt, db, router) IN
    /\ phase = "starting"
    /\ p \in startQ
    /\ \A x \in startQ : p.acct <= x.acct
    /\ TrackEffect(p.acct, p.hash, p.amt, result)
    /\ enabled' = (enabled /\ ~TrackFailed(result))
    /\ startQ' = IF TrackFailed(result) THEN {} ELSE startQ \ {p}
    /\ phase' = IF TrackFailed(result) THEN "stopped" ELSE "starting"
    /\ UNCHANGED <<accts, gone, expired, balance, stale, reqVals, req, lnd, crashes>>

\* The invoice subscription follows and the interceptor is registered.
StartDone ==
    /\ phase = "starting"
    /\ startQ = {}
    /\ phase' = "up"
    /\ UNCHANGED <<storeVars, enabled, startQ, pending, tracker, stale, reqVals, req, lnd, crashes>>
-----------------------------------------------------------------------------
RequestStep(r) ==
    \/ \E a \in Accounts, h \in Hashes, k \in Kinds, v \in Values, f \in FeeLimits :
          CheckSend(r, a, h, k, v, f)
    \/ Intercept(r)
    \/ \E db \in StoreResults :
          \/ AssociatePayment(r, db)
          \/ PaymentErrored(r, db)
          \/ SendFailed(r, db)
          \/ \E router \in RouterResults : SendTracked(r, db, router)

LndStep ==
    \/ \E r \in Reqs : LndStart(r) \/ LndRefuse(r)
    \/ \E h \in Hashes, ok \in BOOLEAN, fee \in UNION {0 .. f : f \in FeeLimits} :
          LndResolve(h, ok, fee)

TrackerStep(h) ==
    \/ \E db \in StoreResults :
          \/ TrackerUpdate(h, db)
          \/ TrackerNotInitiated(h, db)
          \/ \E m \in stale[h] : StaleUpdate(h, m, db)
    \/ \E m \in stale[h] : StaleExit(h, m)
    \/ TrackerError(h)
    \/ TrackerQuit(h)

AdminStep(a) ==
    \/ NewAccount(a)
    \/ \E amt \in AdminAmounts :
          UpdateBalance(a, amt) \/ CreditAccount(a, amt) \/ DebitAccount(a, amt)
    \/ UpdateExpiry(a)
    \/ Expire(a)
    \/ \E S \in SUBSET Hashes, db \in StoreResults : RemoveAccount(a, S, db)

StartStep ==
    \/ Start
    \/ \E p \in startQ, db \in StoreResults, router \in RouterResults : StartTrack(p, db, router)
    \/ StartDone

Next ==
    \/ \E r \in Reqs : RequestStep(r)
    \/ LndStep
    \/ \E h \in Hashes : TrackerStep(h)
    \/ \E a \in Accounts : AdminStep(a)
    \/ Crash
    \/ StartStep

Spec == Init /\ [][Next]_vars

(***************************************************************************)
(* What the scheduler owes: a handler that holds requestMtx and goroutines *)
(* with a message finish, lnd takes up or refuses an accepted request and  *)
(* its answers are intercepted, and litd is restarted after a crash.       *)
(* Clients, operators, the outcome of payments and failures owe nothing.   *)
(***************************************************************************)
Fairness ==
    /\ \A r \in Reqs :
          /\ WF_vars(AssociatePayment(r, "ok"))
          /\ WF_vars(LndStart(r) \/ LndRefuse(r))
          /\ WF_vars(Intercept(r))
          /\ WF_vars(PaymentErrored(r, "ok"))
          /\ WF_vars(SendFailed(r, "ok"))
          /\ WF_vars(SendTracked(r, "ok", TRUE))
    /\ \A h \in Hashes :
          /\ WF_vars(TrackerUpdate(h, "ok"))
          /\ WF_vars(TrackerNotInitiated(h, "ok"))
    /\ WF_vars(Start)
    /\ WF_vars(\E p \in startQ : StartTrack(p, "ok", TRUE))
    /\ WF_vars(StartDone)

FairSpec == Spec /\ Fairness
-----------------------------------------------------------------------------
(* Properties *)

\* The account whose request lnd is running, or has run, for hash h.
Payer(h) == IF lnd[h].req = NoReq THEN NoAcct ELSE req[lnd[h].req].acct

\* The entry of that account for hash h.
PayerEntry(h) == IF Payer(h) = NoAcct THEN NotAssociated ELSE payments[Payer(h)][h]

Requests ==
    [st : ReqStates, acct : Accounts \cup {NoAcct}, hash : Hashes \cup {"none"},
     kind : Kinds \cup {"none"}, val : Nat, fee : Nat,
     resp : {"none", "ERROR", "FAILED", "IN_FLIGHT", "SUCCEEDED"}, amt : Nat]

\* The variables stay in the ranges the code's types and life cycles give them.
TypeOK ==
    /\ accts \subseteq Accounts /\ gone \subseteq Accounts /\ expired \subseteq accts
    /\ balance \in [Accounts -> Int]
    /\ payments \in [Accounts -> [Hashes -> PaymentEntry]]
    /\ phase \in {"down", "starting", "up", "stopped"}
    /\ enabled \in BOOLEAN
    /\ startQ \subseteq [acct : Accounts, hash : Hashes, amt : Nat]
    /\ pending \in [Hashes -> Accounts \cup {NoAcct}]
    /\ tracker \in [Hashes -> Mailboxes]
    /\ stale \in [Hashes -> SUBSET {"SUCCEEDED", "FAILED", "notInitiated"}]
    /\ reqVals \subseteq Reqs
    /\ req \in [Reqs -> Requests]
    /\ lnd \in [Hashes -> [st : {"none", "inflight", "succeeded", "failed"},
                           req : Reqs \cup {NoReq}, amt : Nat]]
    /\ crashes \in 0 .. MaxCrashes

(***************************************************************************)
(* pendingPayments agrees with the store: a tracked payment belongs to an  *)
(* existing account and is stored as in flight, so its amount is reserved  *)
(* for as long as it is tracked.  Only a failed second write of a          *)
(* settlement, which disables the service, leaves a settled one tracked.   *)
(***************************************************************************)
TrackedReserved ==
    \A h \in Hashes : pending[h] # NoAcct =>
        /\ pending[h] \in accts
        /\ \/ inflightState(payments[pending[h]][h].status)
           \/ successState(payments[pending[h]][h].status) /\ ~enabled

(***************************************************************************)
(* Settling is final and debits once: an entry becomes SUCCEEDED only from *)
(* in flight, in the step that takes exactly its amount off the balance,   *)
(* and never changes again while the account exists: no restart, retry,    *)
(* late status or second goroutine can debit it a second time.             *)
(***************************************************************************)
SettlesOnce(a) ==
    \A h \in Hashes :
        /\ successState(payments[a][h].status) => payments'[a][h] = payments[a][h]
        /\ successState(payments'[a][h].status) /\ ~successState(payments[a][h].status) =>
              /\ inflightState(payments[a][h].status)
              /\ balance'[a] = balance[a] - payments'[a][h].amt

DebitOnce == [][\A a \in accts \cap accts' : SettlesOnce(a)]_vars

\* An account is debited only for a payment that lnd completed, and with the
\* value and fee that lnd reports for it.
DebitsAreReal ==
    \A a \in accts, h \in Hashes : successState(payments[a][h].status) =>
        lnd[h].st = "succeeded" /\ payments[a][h].amt = lnd[h].amt

\* An account is debited only for a payment of its own.
OwnDebits ==
    \A a \in accts, h \in Hashes : successState(payments[a][h].status) => Payer(h) = a

\* What lnd is paying, or has paid, for an account stays in the account's
\* payment list, so that it is debited now or resumed at the next start.
PaymentsResumable ==
    \A h \in Hashes : LndBusy(h) /\ Payer(h) \in accts => Known(PayerEntry(h))

\* The same for a hash that only one request has used.
SoleAttemptResumable ==
    \A h \in Hashes :
        /\ LndBusy(h) /\ Payer(h) \in accts
        /\ \A r \in Reqs : req[r].hash = h => r = lnd[h].req
        => Known(PayerEntry(h))

\* Reserving the fee limit keeps an account from going into a negative balance.
BalanceNonNegative == \A a \in accts : balance[a] >= 0

\* It does so for requests that wait for their payment: each of them reserves
\* before the next one is checked.
BalanceCovered == (\A r \in Reqs : req[r].kind # "v2") => BalanceNonNegative

\* A payment whose failure the interceptor has seen is no longer in flight
\* for the account, so that it can be retried.
FailureReleases ==
    \A r \in Reqs :
        /\ req[r].st = "done" /\ req[r].resp = "FAILED"
        /\ lnd[req[r].hash].req = r /\ lnd[req[r].hash].st = "failed"
        => ~inflightState(payments[req[r].acct][req[r].hash].status)

\* A payment that was removed as failed is certain to never succeed.
RemovedNeverSucceeds ==
    \A h \in Hashes : LndBusy(h) /\ Payer(h) \in accts => PayerEntry(h).status # "FAILED"

\* Nothing but an error of the database or of lnd's streams, the removal of an
\* account, or a hash that two accounts pay disables a service that has started.
StaysEnabled == phase = "up" => enabled

\* A payment that lnd completed is eventually debited, across crashes and
\* restarts of litd.
SettleEventually ==
    []<>(\A h \in Hashes : lnd[h].st = "succeeded" => successState(PayerEntry(h).status))

\* All attempts at a payment are SendToRouteV2 requests.
OnlyRouted(h) == \A r \in Reqs : req[r].hash = h => req[r].kind = "route"

\* A SendToRouteV2 payment that failed in lnd eventually stops reserving its
\* amount, or is attempted again. (The other RPCs do not release a payment that
\* fails before it is tracked: see FailureReleases.)
ReleaseEventually ==
    []<>(\A h \in Hashes :
            lnd[h].st = "failed" /\ OnlyRouted(h) => ~inflightState(PayerEntry(h).status))
=============================================================================
