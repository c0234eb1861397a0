------------------------ MODULE AccountPaymentsProofs ------------------------
(***************************************************************************)
(* Proofs about AccountPayments, for every value of its constants: every   *)
(* number of accounts, hashes and requests, all amounts, any number of     *)
(* crashes and any of the fault kinds. First the inductive invariant, and  *)
(* the steps of a request (checkSend, AssociatePayment, lnd, the           *)
(* interceptor, the answers that end a payment); then the tracking of a    *)
(* payment and its updates; then the other steps and the theorems.         *)
(***************************************************************************)
EXTENDS AccountPayments, TLAPS

\* The backends, in turn, of each leaf below that names none of its own.
USE ZenonT(20), SMTT(20), Z3T(20)

\* A request whose values are registered and whose answer is not handled yet.
Live(r) == r \in reqVals /\ req[r].st # "done"

\* lnd's payment of a hash is the one of a request for that hash.
LndInv ==
    \A h \in Hashes :
        /\ lnd[h].st # "none" <=> lnd[h].req # NoReq
        /\ lnd[h].req # NoReq =>
              /\ req[lnd[h].req].st # "new"
              /\ req[lnd[h].req].hash = h
              /\ lnd[h].st = "succeeded" => lnd[h].amt >= req[lnd[h].req].val

\* A request in progress names a hash and an account that exists or existed.
ReqInv ==
    \A r \in Reqs : req[r].st # "new" => req[r].hash \in Hashes /\ req[r].acct \in accts \cup gone

\* Rows that do not exist hold no payments.
StoreInv == \A a \in Accounts \ accts, h \in Hashes : payments[a][h] = NotAssociated

\* Request values exist, and requestMtx is held, only while the service is up;
\* before Start nothing is tracked.
PhaseInv ==
    /\ phase # "up" => reqVals = {} /\ MtxFree
    /\ phase = "down" => \A h \in Hashes : pending[h] = NoAcct

\* An answer is being handled only for a request with registered values.
ValuesInv ==
    \A r \in Reqs :
        /\ req[r].st = "replying" => r \in reqVals
        /\ r \in reqVals => req[r].st \notin {"new", "checked"}

\* The payment of a live request is reserved, not yet tracked for its account,
\* and no other live request shares it.
LiveInv ==
    \A r \in Reqs : Live(r) =>
        /\ req[r].acct \in accts =>
              /\ inflightState(payments[req[r].acct][req[r].hash].status)
              /\ pending[req[r].hash] # req[r].acct
        /\ \A q \in Reqs : Live(q) /\ q # r => req[q].acct # req[r].acct \/ req[q].hash # req[r].hash

\* A goroutine holds "succeeded" only for a payment that lnd completed.
MailboxInv ==
    \A h \in Hashes : tracker[h] = "SUCCEEDED" \/ "SUCCEEDED" \in stale[h] => lnd[h].st = "succeeded"

\* Unless second writes fail, what is tracked is in flight.
TrackedInflight ==
    "settle" \notin Faults =>
        \A h \in Hashes : pending[h] # NoAcct => inflightState(payments[pending[h]][h].status)

IInv ==
    /\ TypeOK /\ LndInv /\ ReqInv /\ StoreInv /\ PhaseInv /\ ValuesInv /\ LiveInv /\ MailboxInv
    /\ TrackedReserved /\ TrackedInflight /\ DebitsAreReal
-----------------------------------------------------------------------------
\* Moving a request to another state keeps it well formed.
LEMMA MovedType ==
    ASSUME NEW q \in Requests, NEW st \in ReqStates
    PROVE  Moved(q, st) \in Requests
  BY DEF Requests, Moved, Answered

\* So does recording the answer it got.
LEMMA AnsweredType ==
    ASSUME NEW q \in Requests, NEW st \in ReqStates, NEW amt \in Nat,
           NEW resp \in {"none", "ERROR", "FAILED", "IN_FLIGHT", "SUCCEEDED"}
    PROVE  Answered(q, st, resp, amt) \in Requests
  BY DEF Requests, Answered

\* A request that goes on or gets its answer keeps its payment.
LEMMA RequestChange ==
    ASSUME IInv, NEW r \in Reqs, req[r].st # "new",
           NEW st \in ReqStates \ {"new"}, NEW amt \in Nat,
           NEW resp \in {"none", "ERROR", "FAILED", "IN_FLIGHT", "SUCCEEDED"},
           req' = [req EXCEPT ![r] = Answered(req[r], st, resp, amt)]
    PROVE  /\ req' \in [Reqs -> Requests]
           /\ \A q \in Reqs : /\ req'[q].acct = req[q].acct /\ req'[q].hash = req[q].hash
                              /\ req'[q].val = req[q].val
                              /\ req'[q].st = "new" <=> req[q].st = "new"
<1>1. req \in [Reqs -> Requests]
  BY DEF IInv, TypeOK
<1>2. Answered(req[r], st, resp, amt) \in Requests
  BY <1>1, AnsweredType
<1>3. /\ Answered(req[r], st, resp, amt).acct = req[r].acct
      /\ Answered(req[r], st, resp, amt).hash = req[r].hash
      /\ Answered(req[r], st, resp, amt).val = req[r].val
      /\ Answered(req[r], st, resp, amt).st = st
  BY DEF Answered
<1>4. /\ req'[r] = Answered(req[r], st, resp, amt)
      /\ \A q \in Reqs : q # r => req'[q] = req[q]
  BY <1>1
<1> QED
  BY <1>1, <1>2, <1>3, <1>4

\* What lnd holds and the rows that requests name stay right when no request
\* begins and none changes its payment.
LEMMA RequestsKept ==
    ASSUME IInv, UNCHANGED <<accts, gone, lnd>>,
           \A q \in Reqs : /\ req'[q].acct = req[q].acct /\ req'[q].hash = req[q].hash
                           /\ req'[q].val = req[q].val
                           /\ req'[q].st = "new" <=> req[q].st = "new"
    PROVE  LndInv' /\ ReqInv'
<1>1. UNCHANGED accts /\ UNCHANGED gone /\ UNCHANGED lnd
  OBVIOUS
<1>2. ASSUME NEW h \in Hashes, lnd[h].req # NoReq PROVE lnd[h].req \in Reqs
  BY <1>2 DEF IInv, TypeOK
<1>3. LndInv'
  BY <1>1, <1>2, SMTT(20), Z3T(20) DEF IInv, LndInv
<1>4. ReqInv'
  BY <1>1 DEF IInv, ReqInv
<1> QED
  BY <1>3, <1>4

\* The parts of the invariant about rows and what is tracked for them.
LEMMA RowFacts ==
    ASSUME IInv
    PROVE  /\ accts \subseteq Accounts /\ NoAcct \notin Accounts
           /\ \A h \in Hashes : pending[h] \in Accounts \cup {NoAcct}
           /\ TrackedReserved /\ TrackedInflight /\ DebitsAreReal
  BY AccountsAssumption DEF IInv, TypeOK, NoAcct

\* A step that leaves rows and tracking alone keeps what is said of them, as
\* long as lnd forgets no payment that it completed.
LEMMA RowsUnchanged ==
    ASSUME IInv, UNCHANGED <<accts, payments, pending, enabled>>,
           \A h \in Hashes : lnd[h].st = "succeeded" => lnd'[h] = lnd[h]
    PROVE  (StoreInv /\ TrackedReserved /\ TrackedInflight /\ DebitsAreReal)'
<1>1. StoreInv'
  BY DEF IInv, StoreInv
<1>2. TrackedReserved' /\ TrackedInflight'
  BY RowFacts DEF TrackedReserved, TrackedInflight
<1>3. DebitsAreReal'
  BY RowFacts, SMTT(20), Z3T(20) DEF DebitsAreReal
<1> QED
  BY <1>1, <1>2, <1>3

\* Nor does it disturb the payments of live requests, if none becomes live.
LEMMA LiveKept ==
    ASSUME IInv, UNCHANGED <<accts, payments, pending>>,
           \A q \in Reqs : /\ req'[q].acct = req[q].acct /\ req'[q].hash = req[q].hash
                           /\ Live(q)' => Live(q)
    PROVE  LiveInv'
<1>1. \A q \in Reqs : Live(q)' /\ req'[q].acct \in accts' =>
          /\ inflightState(payments'[req'[q].acct][req'[q].hash].status)
          /\ pending'[req'[q].hash] # req'[q].acct
  BY DEF IInv, LiveInv
<1>2. \A p, q \in Reqs : Live(p)' /\ Live(q)' /\ q # p =>
          req'[q].acct # req'[p].acct \/ req'[q].hash # req'[p].hash
  BY SMTT(20), Z3T(20) DEF IInv, LiveInv
<1> QED
  BY <1>1, <1>2 DEF LiveInv

\* The parts of the invariant about the payment of a live request.
LEMMA LiveFacts ==
    ASSUME IInv, NEW q \in Reqs, Live(q)
    PROVE  /\ req[q].hash \in Hashes
           /\ req[q].acct \in accts =>
                 /\ req[q].acct \in Accounts /\ req[q].acct # NoAcct
                 /\ inflightState(payments[req[q].acct][req[q].hash].status)
                 /\ pending[req[q].hash] # req[q].acct
<1>1. req[q].hash \in Hashes
  BY DEF IInv, ReqInv, ValuesInv, Live
<1>2. req[q].acct \in accts =>
          /\ inflightState(payments[req[q].acct][req[q].hash].status)
          /\ pending[req[q].hash] # req[q].acct
  BY DEF IInv, LiveInv
<1> QED
  BY <1>1, <1>2, RowFacts

\* Nothing is reserved, tracked or debited before the first request.
LEMMA InitIInv == Init => IInv
<1> SUFFICES ASSUME Init PROVE IInv
  OBVIOUS
<1> USE AccountsAssumption, RequestsAssumption, AmountsAssumption
        DEF Init, NoAcct, NewReq, Request, NotAssociated
<1>1. TypeOK
  BY SMTT(20), Z3T(20) DEF TypeOK, PaymentEntry, PaymentStatus, Mailboxes, Requests, ReqStates
<1>2. LndInv /\ ReqInv /\ StoreInv /\ ValuesInv /\ LiveInv
  BY DEF LndInv, ReqInv, StoreInv, ValuesInv, LiveInv, Live
<1>3. PhaseInv /\ MailboxInv /\ TrackedReserved /\ TrackedInflight /\ DebitsAreReal
  BY DEF PhaseInv, MailboxInv, TrackedReserved, TrackedInflight, DebitsAreReal, successState
<1> QED
  BY <1>1, <1>2, <1>3 DEF IInv

\* An expiring account keeps its payments and its tracking.
LEMMA ExpireStep == ASSUME IInv, NEW a \in Accounts, Expire(a) PROVE IInv'
<1>1. TypeOK'
  BY DEF IInv, TypeOK, Expire, serviceVars
<1>2. (LndInv /\ ReqInv /\ StoreInv /\ ValuesInv /\ LiveInv)'
  BY DEF IInv, Expire, serviceVars, LndInv, ReqInv, StoreInv, ValuesInv, LiveInv, Live
<1>3. (PhaseInv /\ MailboxInv /\ TrackedReserved /\ TrackedInflight /\ DebitsAreReal)'
  BY DEF IInv, Expire, serviceVars, PhaseInv, MailboxInv, TrackedReserved, TrackedInflight,
         DebitsAreReal, MtxFree
<1> QED
  BY <1>1, <1>2, <1>3 DEF IInv

\* CheckSend only takes requestMtx and writes down the request.
LEMMA CheckSendStep ==
    ASSUME IInv, NEW r \in Reqs, NEW a \in Accounts, NEW h \in Hashes, NEW k \in Kinds,
           NEW v \in Values, NEW f \in FeeLimits, CheckSend(r, a, h, k, v, f)
    PROVE  IInv'
<1> USE DEF CheckSend, storeVars, serviceVars, Admits, Request
<1>1. TypeOK'
  BY AmountsAssumption DEF IInv, TypeOK, Requests, ReqStates
<1>2. /\ req[r].st = "new" /\ req'[r].st = "checked" /\ req'[r].acct = a /\ req'[r].hash = h
      /\ \A q \in Reqs \ {r} : req'[q] = req[q]
      /\ a \in accts /\ phase = "up"
      /\ UNCHANGED <<storeVars, serviceVars, lnd, crashes>>
  BY DEF IInv, TypeOK
<1> HIDE DEF CheckSend
<1>3. LndInv'
  <2>1. \A g \in Hashes : lnd[g].req # NoReq => lnd[g].req \in Reqs \ {r}
    BY <1>2, SMTT(20), Z3T(20) DEF IInv, TypeOK, LndInv
  <2> QED
    BY <1>2, <2>1 DEF IInv, LndInv
<1>4. ReqInv'
  BY <1>2 DEF IInv, ReqInv
<1>5. ValuesInv'
  BY <1>2 DEF IInv, ValuesInv
<1>6. LiveInv'
  <2>1. ~Live(r) /\ ~Live(r)' /\ \A q \in Reqs \ {r} : Live(q)' <=> Live(q)
    BY <1>2 DEF IInv, ValuesInv, Live
  <2> QED
    BY <1>2, <2>1, SMTT(20), Z3T(20) DEF IInv, LiveInv
<1>7. PhaseInv' /\ MailboxInv'
  BY <1>2 DEF IInv, PhaseInv, MailboxInv
<1>8. (StoreInv /\ TrackedReserved /\ TrackedInflight /\ DebitsAreReal)'
  BY <1>2, RowsUnchanged
<1> QED
  BY <1>1, <1>3, <1>4, <1>5, <1>6, <1>7, <1>8 DEF IInv

\* AssociatePayment reserves a payment that was not in flight or settled, so no
\* other live request has it.
LEMMA AssociatePaymentStep ==
    ASSUME IInv, NEW r \in Reqs, NEW db \in StoreResults, AssociatePayment(r, db) PROVE IInv'
<1> DEFINE a == req[r].acct
           h == req[r].hash
           stored == a \in accts /\ UpsertError(payments[a][h], AssociateOpts) = "ok" /\ db = "ok"
<1>1. a \in accts \cup gone /\ a \in Accounts /\ h \in Hashes /\ req[r].st = "checked"
  BY DEF IInv, ReqInv, TypeOK, AssociatePayment
<1>2. SendAmt(req[r].kind, req[r].val, req[r].fee) \in Nat
  BY SMTT(20), Z3T(20) DEF IInv, TypeOK, Requests, SendAmt
<1>3. /\ req' \in [Reqs -> Requests]
      /\ \A q \in Reqs : /\ req'[q].acct = req[q].acct /\ req'[q].hash = req[q].hash
                         /\ req'[q].val = req[q].val
                         /\ req'[q].st = "new" <=> req[q].st = "new"
  <2>1. PICK st \in {"accepted", "done"} :
            req' = [req EXCEPT ![r] = Answered(req[r], st, req[r].resp, req[r].amt)]
    BY DEF AssociatePayment, Moved
  <2>2. /\ req[r].resp \in {"none", "ERROR", "FAILED", "IN_FLIGHT", "SUCCEEDED"}
        /\ req[r].amt \in Nat
    BY DEF IInv, TypeOK, Requests
  <2>3. st \in ReqStates \ {"new"}
    BY DEF ReqStates
  <2> QED
    BY <1>1, <2>1, <2>2, <2>3, RequestChange
<1>4. TypeOK'
  <2>1. payments' \in [Accounts -> [Hashes -> PaymentEntry]]
    <3>1. payments \in [Accounts -> [Hashes -> PaymentEntry]]
      BY DEF IInv, TypeOK
    <3>2. PICK e \in PaymentEntry : payments' = [payments EXCEPT ![a][h] = e] \/ payments' = payments
      <4>1. UpsertEntry(payments[a][h], SendAmt(req[r].kind, req[r].val, req[r].fee), "UNKNOWN", AssociateOpts)
               \in PaymentEntry
        BY <1>1, <1>2, <3>1 DEF UpsertEntry, PaymentEntry, PaymentStatus
      <4> QED
        BY <4>1 DEF AssociatePayment
    <3> QED
      BY <1>1, <3>1, <3>2, SMTT(20), Z3T(20)
  <2> QED
    BY <2>1, <1>3 DEF IInv, TypeOK, AssociatePayment
<1>5. (LndInv /\ ReqInv /\ StoreInv)'
  <2>1. UNCHANGED <<accts, gone, lnd>>
    BY DEF AssociatePayment
  <2>2. LndInv' /\ ReqInv'
    BY <1>3, <2>1, RequestsKept
  <2>3. \A b \in Accounts \ accts : payments'[b] = payments[b]
    BY DEF IInv, TypeOK, AssociatePayment
  <2>4. StoreInv'
    BY <2>1, <2>3 DEF IInv, StoreInv
  <2> QED
    BY <2>2, <2>4
<1>6. (ValuesInv /\ PhaseInv /\ MailboxInv)'
  BY <1>1 DEF IInv, TypeOK, AssociatePayment, Moved, Answered, ValuesInv, PhaseInv, MtxFree,
              MailboxInv
<1>7. CASE stored
  <2>1. ~inflightState(payments[a][h].status) /\ ~successState(payments[a][h].status)
    BY <1>7 DEF UpsertError, AssociateOpts, Known, inflightState, successState
  <2>2. UNCHANGED <<accts, pending, enabled, lnd>>
    BY <1>7 DEF AssociatePayment
  <2>3. /\ inflightState(payments'[a][h].status) /\ ~successState(payments'[a][h].status)
        /\ \A b \in Accounts, g \in Hashes : b # a \/ g # h => payments'[b][g] = payments[b][g]
    BY <1>1, <1>7 DEF IInv, TypeOK, AssociatePayment, UpsertEntry, inflightState, successState
  <2>4. pending[h] # a
    BY <1>1, <2>1, RowFacts DEF TrackedReserved
  <2>5. TrackedReserved' /\ TrackedInflight'
    <3>1. TrackedReserved'
      BY <2>2, <2>3, <2>4, RowFacts DEF TrackedReserved
    <3>2. TrackedInflight'
      BY <2>2, <2>3, <2>4, RowFacts DEF TrackedReserved, TrackedInflight
    <3> QED
      BY <3>1, <3>2
  <2>6. DebitsAreReal'
    <3>1. ASSUME NEW b \in accts, NEW g \in Hashes, successState(payments'[b][g].status)
          PROVE  payments'[b][g] = payments[b][g]
      BY <2>3, <3>1, RowFacts
    <3> QED
      BY <2>2, <3>1, RowFacts, SMTT(20), Z3T(20) DEF DebitsAreReal
  <2>7. /\ reqVals' = reqVals \cup {r}
        /\ req' = [req EXCEPT ![r] = Moved(@, "accepted")]
    BY <1>7 DEF AssociatePayment
  <2>8. \A q \in Reqs : /\ req'[q].acct = req[q].acct /\ req'[q].hash = req[q].hash
                        /\ Live(q)' => Live(q) \/ q = r
    BY <2>7 DEF IInv, TypeOK, Live, Moved, Answered
  <2>9. \A q \in Reqs : Live(q) => req[q].acct # a \/ req[q].hash # h
    BY <1>7, <2>1 DEF IInv, LiveInv
  <2>10. LiveInv'
    <3>1. \A q \in Reqs : Live(q)' /\ req'[q].acct \in accts' =>
              /\ inflightState(payments'[req'[q].acct][req'[q].hash].status)
              /\ pending'[req'[q].hash] # req'[q].acct
      <4> SUFFICES ASSUME NEW q \in Reqs, Live(q)', req[q].acct \in accts
                   PROVE  /\ inflightState(payments'[req[q].acct][req[q].hash].status)
                          /\ pending[req[q].hash] # req[q].acct
        BY <2>2, <2>8
      <4>1. CASE q = r
        BY <2>3, <2>4, <4>1
      <4>2. CASE q # r
        <5>1. Live(q)
          BY <2>8, <4>2
        <5> QED
          BY <2>3, <2>9, <5>1, LiveFacts
      <4> QED
        BY <4>1, <4>2
    <3>2. \A p, q \in Reqs : Live(p)' /\ Live(q)' /\ q # p =>
              req'[q].acct # req'[p].acct \/ req'[q].hash # req'[p].hash
      BY <2>8, <2>9, SMTT(20), Z3T(20) DEF IInv, LiveInv
    <3> QED
      BY <3>1, <3>2 DEF LiveInv
  <2> QED
    BY <1>4, <1>5, <1>6, <2>5, <2>6, <2>10 DEF IInv
<1>8. CASE ~stored
  <2>1. /\ UNCHANGED <<accts, payments, pending, enabled, lnd, reqVals>>
        /\ req' = [req EXCEPT ![r] = Moved(@, "done")]
    BY <1>8 DEF AssociatePayment
  <2>2. LiveInv'
    BY <2>1 DEF IInv, TypeOK, LiveInv, Live, Moved, Answered
  <2>3. (TrackedReserved /\ TrackedInflight /\ DebitsAreReal)'
    BY <2>1 DEF IInv, TrackedReserved, TrackedInflight, DebitsAreReal
  <2> QED
    BY <1>4, <1>5, <1>6, <2>2, <2>3 DEF IInv
<1> QED
  BY <1>7, <1>8

\* lnd starts a payment only when it is not running or has run one for the hash.
LEMMA LndStartStep == ASSUME IInv, NEW r \in Reqs, LndStart(r) PROVE IInv'
<1> USE DEF LndStart, Moved, Answered, storeVars, serviceVars
<1>1. req[r].hash \in Hashes
  BY DEF IInv, ReqInv
<1>2. TypeOK'
  BY <1>1 DEF IInv, TypeOK, Requests, ReqStates
<1>3. (LndInv /\ ReqInv /\ StoreInv)'
  <2>1. LndInv'
    <3>1. /\ \A g \in Hashes : g # req[r].hash => lnd'[g] = lnd[g]
          /\ lnd'[req[r].hash] = [st |-> "inflight", req |-> r, amt |-> 0]
      BY <1>1 DEF IInv, TypeOK
    <3>2. \A q \in Reqs : /\ req'[q].hash = req[q].hash /\ req'[q].val = req[q].val
                          /\ req'[q].st = "new" <=> req[q].st = "new"
      BY DEF IInv, TypeOK
    <3>3. r # NoReq /\ \A g \in Hashes : lnd[g].req # NoReq => lnd[g].req \in Reqs
      BY RequestsAssumption DEF IInv, TypeOK
    <3> HIDE DEF LndStart
    <3>4. ASSUME NEW g \in Hashes, g # req[r].hash
          PROVE  /\ lnd'[g].st # "none" <=> lnd'[g].req # NoReq
                 /\ lnd'[g].req # NoReq =>
                       /\ req'[lnd'[g].req].st # "new"
                       /\ req'[lnd'[g].req].hash = g
                       /\ lnd'[g].st = "succeeded" => lnd'[g].amt >= req'[lnd'[g].req].val
      BY <3>1, <3>2, <3>3, <3>4, SMTT(20), Z3T(20) DEF IInv, LndInv
    <3>5. req[r].st # "new"
      BY DEF LndStart
    <3> QED
      BY <3>1, <3>2, <3>3, <3>4, <3>5, SMTT(20), Z3T(20) DEF LndInv
  <2>2. ReqInv'
    BY DEF IInv, TypeOK, ReqInv
  <2>3. StoreInv'
    BY DEF IInv, StoreInv
  <2> QED
    BY <2>1, <2>2, <2>3
<1>4. (ValuesInv /\ LiveInv)'
  <2>1. ValuesInv'
    BY DEF IInv, TypeOK, ValuesInv
  <2>2. \A q \in Reqs : /\ req'[q].acct = req[q].acct /\ req'[q].hash = req[q].hash
                        /\ Live(q)' => Live(q)
    BY DEF IInv, TypeOK, Live
  <2>3. LiveInv'
    BY <2>2, LiveKept
  <2> QED
    BY <2>1, <2>3
<1>5. (PhaseInv /\ MailboxInv)'
  BY <1>1 DEF IInv, TypeOK, PhaseInv, MtxFree, MailboxInv, LndBusy
<1>6. (TrackedReserved /\ TrackedInflight /\ DebitsAreReal)'
  <2>1. \A h \in Hashes : lnd[h].st = "succeeded" => lnd'[h] = lnd[h]
    BY <1>1 DEF IInv, TypeOK, LndBusy
  <2> QED
    BY <2>1, RowsUnchanged
<1> QED
  BY <1>2, <1>3, <1>4, <1>5, <1>6 DEF IInv

\* A refused request changes nothing in lnd.
LEMMA LndRefuseStep == ASSUME IInv, NEW r \in Reqs, LndRefuse(r) PROVE IInv'
<1> USE DEF LndRefuse, Moved, Answered, storeVars, serviceVars
<1>1. TypeOK'
  BY MovedType DEF IInv, TypeOK, ReqStates
<1>2. (LndInv /\ ReqInv /\ StoreInv)'
  <2>1. LndInv' /\ ReqInv'
    <3>1. \A q \in Reqs : /\ req'[q].acct = req[q].acct /\ req'[q].hash = req[q].hash
                          /\ req'[q].val = req[q].val
                          /\ req'[q].st = "new" <=> req[q].st = "new"
      BY DEF IInv, TypeOK
    <3> QED
      BY <3>1, RequestsKept
  <2>2. StoreInv'
    BY DEF IInv, StoreInv
  <2> QED
    BY <2>1, <2>2
<1>3. (ValuesInv /\ LiveInv)'
  <2>1. ValuesInv'
    BY DEF IInv, TypeOK, ValuesInv
  <2>2. \A q \in Reqs : /\ req'[q].acct = req[q].acct /\ req'[q].hash = req[q].hash
                        /\ Live(q)' => Live(q)
    BY DEF IInv, TypeOK, Live
  <2>3. LiveInv'
    BY <2>2, LiveKept
  <2> QED
    BY <2>1, <2>3
<1>4. (PhaseInv /\ MailboxInv /\ TrackedReserved /\ TrackedInflight /\ DebitsAreReal)'
  <2>1. PhaseInv' /\ MailboxInv'
    BY DEF IInv, TypeOK, PhaseInv, MtxFree, MailboxInv
  <2> QED
    BY <2>1, RowsUnchanged
<1> QED
  BY <1>1, <1>2, <1>3, <1>4 DEF IInv

\* lnd completes a payment with at least the value that was asked for.
LEMMA LndResolveStep ==
    ASSUME IInv, NEW h \in Hashes, NEW ok \in BOOLEAN, NEW fee \in Nat, LndResolve(h, ok, fee)
    PROVE  IInv'
<1> USE DEF LndResolve, storeVars
<1>1. lnd[h].req \in Reqs /\ req[lnd[h].req].val \in Nat
  BY DEF IInv, TypeOK, Requests, LndInv
<1>2. TypeOK'
  <2>1. req[lnd[h].req].val + fee \in Nat
    BY <1>1, SMTT(20), Z3T(20)
  <2>2. lnd' \in [Hashes -> [st : {"none", "inflight", "succeeded", "failed"},
                             req : Reqs \cup {NoReq}, amt : Nat]]
    BY <1>1, <2>1 DEF IInv, TypeOK
  <2>3. tracker' \in [Hashes -> Mailboxes]
    BY DEF IInv, TypeOK, Mailboxes
  <2> QED
    BY <2>2, <2>3 DEF IInv, TypeOK
<1>3. (LndInv /\ ReqInv /\ StoreInv /\ ValuesInv /\ LiveInv)'
  <2>1. LndInv' /\ ReqInv'
    <3>1. /\ \A g \in Hashes : g # h => lnd'[g] = lnd[g]
          /\ lnd'[h].st \in {"succeeded", "failed"} /\ lnd'[h].req = lnd[h].req
          /\ lnd'[h].st = "succeeded" => lnd'[h].amt = req[lnd[h].req].val + fee
          /\ UNCHANGED <<req, accts, gone>>
      BY DEF IInv, TypeOK
    <3> HIDE DEF LndResolve
    <3>2. lnd'[h].st = "succeeded" => lnd'[h].amt >= req[lnd[h].req].val
      BY <1>1, <3>1, SMTT(20), Z3T(20)
    <3>3. lnd[h].st # "none"
      BY DEF LndResolve
    <3>4. LndInv'
      BY <3>1, <3>2, <3>3 DEF IInv, LndInv
    <3>5. ReqInv'
      BY <3>1 DEF IInv, ReqInv
    <3> QED
      BY <3>4, <3>5
  <2>2. StoreInv' /\ ValuesInv'
    BY <1>1 DEF IInv, TypeOK, StoreInv, ValuesInv
  <2>3. LiveInv'
    BY <1>1 DEF IInv, TypeOK, LiveInv, Live
  <2> QED
    BY <2>1, <2>2, <2>3
<1>4. (PhaseInv /\ MailboxInv)'
  BY <1>1 DEF IInv, TypeOK, PhaseInv, MtxFree, MailboxInv
<1>5. (TrackedReserved /\ TrackedInflight /\ DebitsAreReal)'
  <2>1. \A g \in Hashes : lnd[g].st = "succeeded" => lnd'[g] = lnd[g]
    BY DEF IInv, TypeOK
  <2> QED
    BY <2>1, RowsUnchanged
<1> QED
  BY <1>2, <1>3, <1>4, <1>5 DEF IInv

\* An answer has one of the statuses the handlers tell apart, and an amount.
LEMMA AnswersType ==
    ASSUME IInv, NEW r \in Reqs, req[r].st # "new", NEW answer \in Answers(r)
    PROVE  answer.status \in {"ERROR", "FAILED", "IN_FLIGHT", "SUCCEEDED"} /\ answer.amt \in Nat
<1> DEFINE q == req[r]
           p == lnd[q.hash]
<1>1. q.hash \in Hashes /\ q.val \in Nat /\ q.fee \in Nat /\ p.amt \in Nat
  BY DEF IInv, TypeOK, Requests, ReqInv
<1>2. LndStatus(r) = "succeeded" => p.amt - q.val \in Nat
  BY <1>1, RequestsAssumption, SMTT(20), Z3T(20) DEF IInv, LndInv, LndStatus
<1>3. answer \in PaymentAnswers(r) =>
          answer.status \in {"FAILED", "IN_FLIGHT", "SUCCEEDED"} /\ answer.amt \in Nat
  BY <1>1, SMTT(20), Z3T(20) DEF PaymentAnswers, Answer
<1>4. answer \in ResponseAnswers(r) =>
          answer.status \in {"FAILED", "IN_FLIGHT"} /\ answer.amt \in Nat
  BY <1>1, <1>2, SMTT(20), Z3T(20) DEF ResponseAnswers, Answer, SendAmt
<1> QED
  BY <1>3, <1>4, SMTT(20), Z3T(20) DEF Answers, Answer

\* Intercept lets through only answers of requests with registered values.
LEMMA InterceptStep == ASSUME IInv, NEW r \in Reqs, Intercept(r) PROVE IInv'
<1>1. PICK answer \in Answers(r) :
        req' = IF Admits(req[r].acct) /\ r \in reqVals
               THEN [req EXCEPT ![r] = Answered(@, "replying", answer.status, answer.amt)]
               ELSE [req EXCEPT ![r] = Moved(@, "done")]
  BY DEF Intercept
<1>2. /\ req[r].st \in {"started", "refused", "payerr"} /\ phase \in {"up", "stopped"}
      /\ UNCHANGED <<storeVars, serviceVars, lnd, crashes>>
  BY DEF Intercept
<1>3. answer.status \in {"ERROR", "FAILED", "IN_FLIGHT", "SUCCEEDED"} /\ answer.amt \in Nat
  BY <1>2, AnswersType
<1>4. /\ req' \in [Reqs -> Requests]
      /\ \A q \in Reqs : /\ req'[q].acct = req[q].acct /\ req'[q].hash = req[q].hash
                         /\ req'[q].val = req[q].val
                         /\ req'[q].st = "new" <=> req[q].st = "new"
  <2>1. /\ req[r].resp \in {"none", "ERROR", "FAILED", "IN_FLIGHT", "SUCCEEDED"}
        /\ req[r].amt \in Nat /\ req[r].st # "new"
    BY <1>2 DEF IInv, TypeOK, Requests
  <2>2. "replying" \in ReqStates \ {"new"} /\ "done" \in ReqStates \ {"new"}
    BY DEF ReqStates
  <2>3. CASE req' = [req EXCEPT ![r] = Answered(req[r], "replying", answer.status, answer.amt)]
    BY <1>3, <2>1, <2>2, <2>3, RequestChange
  <2>4. CASE req' = [req EXCEPT ![r] = Answered(req[r], "done", req[r].resp, req[r].amt)]
    BY <2>1, <2>2, <2>4, RequestChange
  <2> QED
    BY <1>1, <2>3, <2>4 DEF Moved
<1> USE <1>1, <1>2 DEF storeVars, serviceVars, Moved, Answered
<1>5. TypeOK' /\ (LndInv /\ ReqInv /\ StoreInv)'
  <2> HIDE <1>1
  <2>1. TypeOK'
    BY <1>4 DEF IInv, TypeOK
  <2>2. LndInv' /\ ReqInv'
    BY <1>4, RequestsKept
  <2>3. StoreInv'
    BY DEF IInv, StoreInv
  <2> QED
    BY <2>1, <2>2, <2>3
<1>6. (ValuesInv /\ LiveInv)'
  <2>1. ValuesInv'
    BY DEF IInv, TypeOK, ValuesInv
  <2>2. \A q \in Reqs : /\ req'[q].acct = req[q].acct /\ req'[q].hash = req[q].hash
                        /\ Live(q)' => Live(q)
    BY DEF IInv, TypeOK, Live
  <2>3. LiveInv'
    BY <2>2, LiveKept
  <2> QED
    BY <2>1, <2>3
<1>7. (PhaseInv /\ MailboxInv /\ TrackedReserved /\ TrackedInflight /\ DebitsAreReal)'
  <2>1. PhaseInv'
    BY DEF IInv, TypeOK, PhaseInv, MtxFree
  <2>2. MailboxInv'
    BY DEF IInv, MailboxInv
  <2> QED
    BY <2>1, <2>2, RowsUnchanged
<1> QED
  BY <1>5, <1>6, <1>7 DEF IInv

-----------------------------------------------------------------------------
\* removePayment changes only tracked entries, to FAILED, and untracks them.
LEMMA RemovedFacts ==
    ASSUME IInv, NEW S \in SUBSET Hashes, \A h \in S : pending[h] # NoAcct,
           removePayment(S, "FAILED")
    PROVE  /\ payments' \in [Accounts -> [Hashes -> PaymentEntry]]
           /\ pending' \in [Hashes -> Accounts \cup {NoAcct}]
           /\ \A a \in Accounts, h \in Hashes :
                 h \notin S \/ pending[h] # a => payments'[a][h] = payments[a][h]
           /\ \A h \in S : payments'[pending[h]][h].status = "FAILED"
           /\ \A h \in Hashes : pending'[h] = IF h \in S THEN NoAcct ELSE pending[h]
<1>1. \A h \in S : pending[h] \in Accounts /\ Known(payments[pending[h]][h])
  BY DEF IInv, TypeOK, TrackedReserved, Known, inflightState, successState
<1>2. \A a \in Accounts, h \in Hashes : RemovedEntry(payments[a][h], "FAILED") \in PaymentEntry
  BY SMTT(20), Z3T(20) DEF IInv, TypeOK, RemovedEntry, UpsertEntry, PaymentEntry, PaymentStatus
<1>3. \A h \in S : RemovedEntry(payments[pending[h]][h], "FAILED").status = "FAILED"
  BY <1>1 DEF RemovedEntry, UpsertEntry, UpsertError, RemoveOpts
<1>4. payments' \in [Accounts -> [Hashes -> PaymentEntry]]
  BY <1>2 DEF IInv, TypeOK, removePayment
<1>5. \A h \in S : payments'[pending[h]][h].status = "FAILED"
  BY <1>1, <1>3 DEF removePayment
<1>6. /\ \A a \in Accounts, h \in Hashes :
            h \notin S \/ pending[h] # a => payments'[a][h] = payments[a][h]
      /\ pending' \in [Hashes -> Accounts \cup {NoAcct}]
      /\ \A h \in Hashes : pending'[h] = IF h \in S THEN NoAcct ELSE pending[h]
  BY RowFacts DEF removePayment
<1> QED
  BY <1>4, <1>5, <1>6

\* What removePayment keeps of the invariant, whatever else the handler does.
LEMMA RemovedInv ==
    ASSUME IInv, NEW S \in SUBSET Hashes, \A h \in S : pending[h] # NoAcct,
           removePayment(S, "FAILED"), UNCHANGED <<accts, lnd>>, enabled' => enabled,
           \A q \in Reqs : /\ req'[q].acct = req[q].acct /\ req'[q].hash = req[q].hash
                           /\ Live(q)' => Live(q)
    PROVE  (StoreInv /\ LiveInv /\ TrackedReserved /\ TrackedInflight /\ DebitsAreReal)'
<1>1. /\ \A a \in Accounts, h \in Hashes :
            h \notin S \/ pending[h] # a => payments'[a][h] = payments[a][h]
      /\ \A h \in S : payments'[pending[h]][h].status = "FAILED"
      /\ \A h \in Hashes : pending'[h] = IF h \in S THEN NoAcct ELSE pending[h]
  BY RemovedFacts
<1>2. \A h \in S : pending[h] \in accts
  BY DEF IInv, TrackedReserved
<1>3. StoreInv'
  BY <1>1, <1>2, SMTT(20), Z3T(20) DEF IInv, StoreInv
<1>4. (TrackedReserved /\ TrackedInflight)'
  BY <1>1, RowFacts, SMTT(20), Z3T(20) DEF TrackedReserved, TrackedInflight
<1>5. DebitsAreReal'
  BY <1>1, <1>2, RowFacts, SMTT(20), Z3T(20) DEF DebitsAreReal, successState
<1>6. LiveInv'
  <2>2. \A q \in Reqs : Live(q) /\ req[q].acct \in accts =>
            /\ payments'[req[q].acct][req[q].hash] = payments[req[q].acct][req[q].hash]
            /\ pending'[req[q].hash] # req[q].acct
    <3> SUFFICES ASSUME NEW q \in Reqs, Live(q), req[q].acct \in accts
                 PROVE  /\ payments'[req[q].acct][req[q].hash] = payments[req[q].acct][req[q].hash]
                        /\ pending'[req[q].hash] # req[q].acct
      OBVIOUS
    <3> QED
      BY <1>1, LiveFacts
  <2>3. \A q \in Reqs : Live(q)' /\ req'[q].acct \in accts' =>
            /\ inflightState(payments'[req'[q].acct][req'[q].hash].status)
            /\ pending'[req'[q].hash] # req'[q].acct
    BY <2>2, LiveFacts
  <2>4. \A p, q \in Reqs : Live(p)' /\ Live(q)' /\ q # p =>
            req'[q].acct # req'[p].acct \/ req'[q].hash # req'[p].hash
    BY SMTT(20), Z3T(20) DEF IInv, LiveInv
  <2> QED
    BY <2>3, <2>4 DEF LiveInv
<1> QED
  BY <1>3, <1>4, <1>5, <1>6

\* Cancel leaves in stale only what the goroutine had received.
LEMMA CancelInv ==
    ASSUME IInv, NEW S \in SUBSET Hashes, Cancel(S), UNCHANGED lnd
    PROVE  /\ tracker' \in [Hashes -> Mailboxes]
           /\ stale' \in [Hashes -> SUBSET {"SUCCEEDED", "FAILED", "notInitiated"}]
           /\ MailboxInv'
  BY DEF IInv, TypeOK, Cancel, Undelivered, Mailboxes, MailboxInv

\* Answering ends the request, while the service is up.
LEMMA RequestReplied ==
    ASSUME IInv, NEW r \in Reqs, req[r].st = "replying", Replied(r)
    PROVE  /\ req' \in [Reqs -> Requests] /\ phase = "up"
           /\ \A q \in Reqs : /\ req'[q].acct = req[q].acct /\ req'[q].hash = req[q].hash
                              /\ req'[q].val = req[q].val
                              /\ req'[q].st = "new" <=> req[q].st = "new"
           /\ req'[r].st = "done" /\ \A q \in Reqs \ {r} : req'[q] = req[q]
<1>1. req' = [req EXCEPT ![r] = Answered(req[r], "done", req[r].resp, 0)]
  BY DEF Replied
<1>2. "done" \in ReqStates \ {"new"} /\ req[r].st # "new"
  BY DEF ReqStates
<1>3. 0 \in Nat /\ req[r].resp \in {"none", "ERROR", "FAILED", "IN_FLIGHT", "SUCCEEDED"}
  BY DEF IInv, TypeOK, Requests
<1>4. /\ req' \in [Reqs -> Requests]
      /\ \A q \in Reqs : /\ req'[q].acct = req[q].acct /\ req'[q].hash = req[q].hash
                         /\ req'[q].val = req[q].val
                         /\ req'[q].st = "new" <=> req[q].st = "new"
  BY <1>1, <1>2, <1>3, RequestChange
<1>5. req'[r].st = "done" /\ \A q \in Reqs \ {r} : req'[q] = req[q]
  BY <1>1 DEF IInv, TypeOK, Answered
<1>6. phase = "up"
  BY DEF IInv, PhaseInv, MtxFree
<1> QED
  BY <1>4, <1>5, <1>6

\* PaymentErrored deletes a reservation that nobody tracks or settles.
LEMMA PaymentErroredStep ==
    ASSUME IInv, NEW r \in Reqs, NEW db \in StoreResults, PaymentErrored(r, db) PROVE IInv'
<1> DEFINE a == req[r].acct
           h == req[r].hash
           deleted == pending[h] = NoAcct /\ a \in accts /\ Known(payments[a][h]) /\ db = "ok"
<1>1. /\ r \in reqVals /\ Live(r) /\ req[r].st = "replying"
      /\ a \in Accounts \cup {NoAcct} /\ h \in Hashes /\ (a \in accts => a \in Accounts)
      /\ req[r].resp \in {"none", "ERROR", "FAILED", "IN_FLIGHT", "SUCCEEDED"}
  BY DEF IInv, TypeOK, Requests, ReqInv, ValuesInv, PaymentErrored, Live
<1>2. /\ req' \in [Reqs -> Requests]
      /\ \A q \in Reqs : /\ req'[q].acct = req[q].acct /\ req'[q].hash = req[q].hash
                         /\ req'[q].val = req[q].val
                         /\ req'[q].st = "new" <=> req[q].st = "new"
  BY <1>1, RequestReplied DEF PaymentErrored
<1>3. TypeOK' /\ (LndInv /\ ReqInv /\ StoreInv)'
  <2>1. payments' \in [Accounts -> [Hashes -> PaymentEntry]]
    <3>1. payments \in [Accounts -> [Hashes -> PaymentEntry]] /\ NotAssociated \in PaymentEntry
      BY DEF IInv, TypeOK, NotAssociated, PaymentEntry, PaymentStatus
    <3>2. \/ payments' = payments
          \/ a \in accts /\ payments' = [payments EXCEPT ![a][h] = NotAssociated]
      BY DEF PaymentErrored
    <3> QED
      BY <1>1, <3>1, <3>2, SMTT(20), Z3T(20)
  <2>2. TypeOK'
    BY <1>2, <2>1 DEF IInv, TypeOK, PaymentErrored
  <2>3. UNCHANGED <<accts, gone, lnd>>
    BY DEF PaymentErrored
  <2>4. LndInv' /\ ReqInv'
    BY <1>2, <2>3, RequestsKept
  <2>5. \A b \in Accounts \ accts : payments'[b] = payments[b]
    BY DEF IInv, TypeOK, PaymentErrored
  <2>6. StoreInv'
    BY <2>3, <2>5 DEF IInv, StoreInv
  <2> QED
    BY <2>2, <2>4, <2>6
<1>4. (ValuesInv /\ PhaseInv /\ MailboxInv)'
  BY <1>1 DEF IInv, TypeOK, PaymentErrored, Replied, Answered, ValuesInv, PhaseInv, MtxFree,
              MailboxInv
<1>5. UNCHANGED <<accts, pending, enabled, lnd>>
  BY DEF PaymentErrored
<1>6. \A b \in Accounts, g \in Hashes : \/ payments'[b][g] = payments[b][g]
                                        \/ /\ b = a /\ g = h /\ pending[g] = NoAcct
                                           /\ payments'[b][g] = NotAssociated
  BY <1>1 DEF IInv, TypeOK, PaymentErrored
<1>7. (TrackedReserved /\ TrackedInflight)'
  BY <1>5, <1>6, RowFacts, SMTT(20), Z3T(20) DEF TrackedReserved, TrackedInflight
<1>8. DebitsAreReal'
  BY <1>5, <1>6, RowFacts, SMTT(20), Z3T(20) DEF DebitsAreReal, NotAssociated, successState
<1>9. \A q \in Reqs : /\ req'[q].acct = req[q].acct /\ req'[q].hash = req[q].hash
                      /\ Live(q)' => Live(q) /\ q # r
  BY <1>1 DEF IInv, TypeOK, PaymentErrored, Replied, Answered, Live
<1>10. LiveInv'
  <2>1. \A q \in Reqs : Live(q) => req[q].hash \in Hashes
    BY DEF IInv, ReqInv, ValuesInv, Live
  <2>2. \A q \in Reqs : Live(q)' /\ req[q].acct \in accts =>
            payments'[req[q].acct][req[q].hash] = payments[req[q].acct][req[q].hash]
    <3> SUFFICES ASSUME NEW q \in Reqs, Live(q)', req[q].acct \in accts
                 PROVE  payments'[req[q].acct][req[q].hash] = payments[req[q].acct][req[q].hash]
      OBVIOUS
    <3>1. req[q].acct \in Accounts /\ req[q].hash \in Hashes
      BY <1>9, <2>1 DEF IInv, TypeOK
    <3>2. req[q].acct # a \/ req[q].hash # h
      BY <1>1, <1>9 DEF IInv, LiveInv
    <3> QED
      BY <1>6, <3>1, <3>2
  <2>3. \A q \in Reqs : Live(q)' /\ req'[q].acct \in accts' =>
            /\ inflightState(payments'[req'[q].acct][req'[q].hash].status)
            /\ pending'[req'[q].hash] # req'[q].acct
    BY <1>5, <1>9, <2>2 DEF IInv, LiveInv
  <2>4. \A p, q \in Reqs : Live(p)' /\ Live(q)' /\ q # p =>
            req'[q].acct # req'[p].acct \/ req'[q].hash # req'[p].hash
    BY <1>9, SMTT(20), Z3T(20) DEF IInv, LiveInv
  <2> QED
    BY <2>3, <2>4 DEF LiveInv
<1> QED
  BY <1>3, <1>4, <1>7, <1>8, <1>10 DEF IInv

\* A failure in the answer ends the tracking, if there is any.
LEMMA SendFailedStep ==
    ASSUME IInv, NEW r \in Reqs, NEW db \in StoreResults, SendFailed(r, db) PROVE IInv'
<1> DEFINE h == req[r].hash
           S == IF pending[h] # NoAcct /\ db = "ok" THEN {h} ELSE {}
<1>1. /\ removePayment(S, "FAILED") /\ Cancel(S) /\ Replied(r)
      /\ reqVals' = reqVals \ {r}
      /\ UNCHANGED <<accts, gone, expired, balance, phase, enabled, startQ, lnd, crashes>>
  BY DEF SendFailed
<1>2. /\ req[r].st = "replying" /\ S \in SUBSET Hashes /\ \A g \in S : pending[g] # NoAcct
      /\ req[r].resp = "FAILED"
  BY DEF IInv, ReqInv, SendFailed
<1>3. \A q \in Reqs : /\ req'[q].acct = req[q].acct /\ req'[q].hash = req[q].hash
                      /\ Live(q)' => Live(q)
  BY <1>1, <1>2 DEF IInv, TypeOK, Replied, Answered, Live
<1> HIDE DEF S, h
<1>4. (StoreInv /\ LiveInv /\ TrackedReserved /\ TrackedInflight /\ DebitsAreReal)'
  BY <1>1, <1>2, <1>3, RemovedInv
<1>5. /\ payments' \in [Accounts -> [Hashes -> PaymentEntry]]
      /\ pending' \in [Hashes -> Accounts \cup {NoAcct}]
      /\ \A g \in Hashes : pending'[g] = IF g \in S THEN NoAcct ELSE pending[g]
  BY <1>1, <1>2, RemovedFacts
<1>6. /\ tracker' \in [Hashes -> Mailboxes]
      /\ stale' \in [Hashes -> SUBSET {"SUCCEEDED", "FAILED", "notInitiated"}]
      /\ MailboxInv'
  BY <1>1, <1>2, CancelInv
<1>7. /\ req' \in [Reqs -> Requests] /\ phase = "up"
      /\ \A q \in Reqs : /\ req'[q].acct = req[q].acct /\ req'[q].hash = req[q].hash
                         /\ req'[q].val = req[q].val
                         /\ req'[q].st = "new" <=> req[q].st = "new"
      /\ req'[r].st = "done" /\ \A q \in Reqs \ {r} : req'[q] = req[q]
  BY <1>1, <1>2, RequestReplied
<1>8. TypeOK' /\ (LndInv /\ ReqInv /\ ValuesInv /\ PhaseInv)'
  <2>1. TypeOK'
    BY <1>1, <1>5, <1>6, <1>7 DEF IInv, TypeOK
  <2>2. LndInv' /\ ReqInv'
    BY <1>1, <1>7, RequestsKept
  <2>3. ValuesInv'
    BY <1>1, <1>7 DEF IInv, ValuesInv
  <2>4. PhaseInv'
    BY <1>1, <1>7 DEF PhaseInv
  <2> QED
    BY <2>1, <2>2, <2>3, <2>4
<1> QED
  BY <1>4, <1>6, <1>8 DEF IInv

-----------------------------------------------------------------------------
(* The steps that track a payment and that handle its updates. *)

\* TrackPayment writes at most the entry of its payment, as in flight, when it
\* had not succeeded and nobody tracked the hash, and tracks only what it wrote.
LEMMA TrackFacts ==
    ASSUME IInv, NEW a \in Accounts, NEW h \in Hashes, NEW amt \in Nat, NEW db, NEW router,
           TrackEffect(a, h, amt, TrackResult(a, h, amt, db, router))
    PROVE  /\ payments' \in [Accounts -> [Hashes -> PaymentEntry]]
           /\ pending' \in [Hashes -> Accounts \cup {NoAcct}]
           /\ tracker' \in [Hashes -> Mailboxes]
           /\ \A b \in Accounts, g \in Hashes :
                 \/ payments'[b][g] = payments[b][g]
                 \/ /\ b = a /\ g = h /\ a \in accts /\ pending[h] = NoAcct
                    /\ ~successState(payments[a][h].status)
                    /\ payments'[a][h].status = "UNKNOWN"
           /\ \A g \in Hashes :
                 \/ pending'[g] = pending[g]
                 \/ g = h /\ pending'[h] = a /\ a \in accts /\ payments'[a][h].status = "UNKNOWN"
           /\ \A g \in Hashes :
                 tracker'[g] = "SUCCEEDED" => tracker[g] = "SUCCEEDED" \/ lnd[g].st = "succeeded"
<1> DEFINE result == TrackResult(a, h, amt, db, router)
           new == UpsertEntry(payments[a][h], amt, "UNKNOWN", TrackOpts(amt))
           writes == result \in {"started", "disabled", "routerError"}
<1>1. writes => a \in accts /\ pending[h] = NoAcct /\ ~successState(payments[a][h].status)
  BY DEF TrackResult, TrackOpts, UpsertError, Known, successState
<1>2. new \in PaymentEntry /\ new.status = "UNKNOWN"
  BY SMTT(20), Z3T(20) DEF IInv, TypeOK, UpsertEntry, PaymentEntry, PaymentStatus
<1>3. FirstStatus(h) \in Mailboxes /\ (FirstStatus(h) = "SUCCEEDED" => lnd[h].st = "succeeded")
  BY DEF IInv, TypeOK, FirstStatus, Mailboxes
<1>4. /\ payments' = IF writes THEN [payments EXCEPT ![a][h] = new] ELSE payments
      /\ pending' = IF result = "started" THEN [pending EXCEPT ![h] = a] ELSE pending
      /\ tracker' = IF result = "started" THEN [tracker EXCEPT ![h] = FirstStatus(h)] ELSE tracker
  BY DEF TrackEffect
<1> HIDE DEF new, result
<1>5. payments' \in [Accounts -> [Hashes -> PaymentEntry]]
  BY <1>2, <1>4 DEF IInv, TypeOK
<1>6. \A b \in Accounts, g \in Hashes :
          \/ payments'[b][g] = payments[b][g]
          \/ b = a /\ g = h /\ writes /\ payments'[a][h].status = "UNKNOWN"
  BY <1>2, <1>4 DEF IInv, TypeOK
<1>7. \A g \in Hashes :
          \/ pending'[g] = pending[g]
          \/ g = h /\ pending'[h] = a /\ writes /\ payments'[a][h].status = "UNKNOWN"
  BY <1>2, <1>4 DEF IInv, TypeOK
<1>8. /\ pending' \in [Hashes -> Accounts \cup {NoAcct}]
      /\ tracker' \in [Hashes -> Mailboxes]
      /\ \A g \in Hashes :
            tracker'[g] = "SUCCEEDED" => tracker[g] = "SUCCEEDED" \/ lnd[g].st = "succeeded"
  BY <1>3, <1>4 DEF IInv, TypeOK
<1> QED
  BY <1>1, <1>5, <1>6, <1>7, <1>8

\* What TrackPayment keeps of the invariant, whatever else the handler does.
LEMMA TrackInv ==
    ASSUME IInv, NEW a \in Accounts, NEW h \in Hashes, NEW amt \in Nat, NEW db, NEW router,
           TrackEffect(a, h, amt, TrackResult(a, h, amt, db, router)),
           UNCHANGED <<accts, lnd, stale>>, enabled' => enabled
    PROVE  (StoreInv /\ MailboxInv /\ TrackedReserved /\ TrackedInflight /\ DebitsAreReal)'
<1>1. /\ \A b \in Accounts, g \in Hashes :
            \/ payments'[b][g] = payments[b][g]
            \/ /\ b = a /\ g = h /\ a \in accts /\ pending[h] = NoAcct
               /\ payments'[a][h].status = "UNKNOWN"
      /\ \A g \in Hashes :
            \/ pending'[g] = pending[g]
            \/ g = h /\ pending'[h] = a /\ a \in accts /\ payments'[a][h].status = "UNKNOWN"
      /\ \A g \in Hashes :
            tracker'[g] = "SUCCEEDED" => tracker[g] = "SUCCEEDED" \/ lnd[g].st = "succeeded"
  BY TrackFacts, SMTT(20), Z3T(20)
<1>2. (StoreInv /\ MailboxInv)'
  BY <1>1, SMTT(20), Z3T(20) DEF IInv, StoreInv, MailboxInv
<1>3. (TrackedReserved /\ TrackedInflight)'
  <2>1. \A g \in Hashes : pending'[g] # NoAcct =>
            \/ pending'[g] = pending[g] /\ payments'[pending'[g]][g] = payments[pending[g]][g]
            \/ pending'[g] \in accts /\ inflightState(payments'[pending'[g]][g].status)
    <3> SUFFICES ASSUME NEW g \in Hashes, pending'[g] # NoAcct
                 PROVE  \/ /\ pending'[g] = pending[g]
                           /\ payments'[pending'[g]][g] = payments[pending[g]][g]
                        \/ /\ pending'[g] \in accts
                           /\ inflightState(payments'[pending'[g]][g].status)
      OBVIOUS
    <3>1. CASE pending'[g] = pending[g]
      <4>1. pending[g] \in Accounts
        BY <3>1 DEF IInv, TypeOK
      <4> QED
        BY <1>1, <3>1, <4>1
    <3>2. CASE pending'[g] # pending[g]
      BY <1>1, <3>2 DEF inflightState
    <3> QED
      BY <3>1, <3>2
  <2> QED
    BY <2>1 DEF IInv, TrackedReserved, TrackedInflight
<1>4. DebitsAreReal'
  BY <1>1, SMTT(20), Z3T(20) DEF IInv, TypeOK, DebitsAreReal, successState
<1> QED
  BY <1>2, <1>3, <1>4

\* An answer starts the tracking of the payment that its request reserved.
LEMMA SendTrackedStep ==
    ASSUME IInv, NEW r \in Reqs, NEW db \in StoreResults, NEW router \in RouterResults,
           SendTracked(r, db, router)
    PROVE  IInv'
<1> DEFINE a == req[r].acct
           h == req[r].hash
           result == TrackResult(a, h, req[r].amt, db, router)
<1>1. /\ TrackEffect(a, h, req[r].amt, result) /\ Replied(r)
      /\ enabled' = (enabled /\ result # "critical")
      /\ reqVals' = IF TrackFailed(result) THEN reqVals ELSE reqVals \ {r}
      /\ UNCHANGED <<accts, gone, expired, balance, phase, startQ, stale, lnd, crashes>>
  BY DEF SendTracked
<1>2. /\ req[r].st = "replying" /\ Live(r) /\ r \in reqVals
      /\ a \in Accounts /\ h \in Hashes /\ req[r].amt \in Nat
  BY DEF IInv, TypeOK, Requests, ReqInv, ValuesInv, SendTracked, Live
<1> HIDE DEF a, h, result
<1>3. (StoreInv /\ MailboxInv /\ TrackedReserved /\ TrackedInflight /\ DebitsAreReal)'
  BY <1>1, <1>2, TrackInv DEF result
<1>4. /\ payments' \in [Accounts -> [Hashes -> PaymentEntry]]
      /\ pending' \in [Hashes -> Accounts \cup {NoAcct}]
      /\ tracker' \in [Hashes -> Mailboxes]
      /\ \A b \in Accounts, g \in Hashes : payments'[b][g] = payments[b][g] \/ (b = a /\ g = h)
      /\ \A g \in Hashes : pending'[g] = pending[g] \/ (g = h /\ pending'[h] = a)
  BY <1>1, <1>2, TrackFacts, SMTT(20), Z3T(20) DEF result
<1>5. TypeOK'
  BY <1>1, <1>2, <1>4 DEF IInv, TypeOK, Replied, Answered, Requests, ReqStates
<1>6. (LndInv /\ ReqInv /\ ValuesInv /\ PhaseInv)'
  <2>1. /\ phase = "up"
        /\ \A q \in Reqs : /\ req'[q].acct = req[q].acct /\ req'[q].hash = req[q].hash
                           /\ req'[q].val = req[q].val
                           /\ req'[q].st = "new" <=> req[q].st = "new"
        /\ req'[r].st = "done" /\ \A q \in Reqs \ {r} : req'[q] = req[q]
    BY <1>1, <1>2, RequestReplied
  <2>2. LndInv' /\ ReqInv'
    BY <1>1, <2>1, RequestsKept
  <2>3. ValuesInv'
    BY <1>1, <2>1 DEF IInv, ValuesInv
  <2>4. PhaseInv'
    BY <1>1, <2>1 DEF PhaseInv
  <2> QED
    BY <2>2, <2>3, <2>4
<1>7. \A q \in Reqs : /\ req'[q].acct = req[q].acct /\ req'[q].hash = req[q].hash
                      /\ Live(q)' => Live(q) /\ q # r
  BY <1>1, <1>2 DEF IInv, TypeOK, Replied, Answered, Live
<1>8. LiveInv'
  <2>2. \A q \in Reqs : Live(q)' /\ req[q].acct \in accts =>
            /\ payments'[req[q].acct][req[q].hash] = payments[req[q].acct][req[q].hash]
            /\ pending[req[q].hash] # req[q].acct => pending'[req[q].hash] # req[q].acct
    <3> SUFFICES ASSUME NEW q \in Reqs, Live(q)', req[q].acct \in accts
                 PROVE  /\ payments'[req[q].acct][req[q].hash] = payments[req[q].acct][req[q].hash]
                        /\ pending[req[q].hash] # req[q].acct => pending'[req[q].hash] # req[q].acct
      OBVIOUS
    <3>1. req[q].acct \in Accounts
      BY DEF IInv, TypeOK
    <3>2. Live(q) /\ q # r
      BY <1>7
    <3>3. req[q].hash \in Hashes /\ (req[q].acct # a \/ req[q].hash # h)
      BY <1>2, <3>2 DEF IInv, ReqInv, ValuesInv, Live, LiveInv, a, h
    <3> QED
      BY <1>4, <3>1, <3>3
  <2>3. \A q \in Reqs : Live(q)' /\ req'[q].acct \in accts' =>
            /\ inflightState(payments'[req'[q].acct][req'[q].hash].status)
            /\ pending'[req'[q].hash] # req'[q].acct
    BY <1>1, <1>7, <2>2 DEF IInv, LiveInv
  <2>4. \A p, q \in Reqs : Live(p)' /\ Live(q)' /\ q # p =>
            req'[q].acct # req'[p].acct \/ req'[q].hash # req'[p].hash
    BY <1>7, SMTT(20), Z3T(20) DEF IInv, LiveInv
  <2> QED
    BY <2>3, <2>4 DEF LiveInv
<1> QED
  BY <1>3, <1>5, <1>6, <1>8 DEF IInv

-----------------------------------------------------------------------------
\* A debit settles the tracked entry with the value and fee lnd reports.
LEMMA DebitFacts ==
    ASSUME IInv, NEW h \in Hashes, NEW m \in {"SUCCEEDED", "FAILED"}, NEW db \in StoreResults,
           paymentUpdate(h, m, db), Debits(h, m, db)
    PROVE  /\ pending[h] \in accts /\ pending[h] \in Accounts /\ enabled
           /\ inflightState(payments[pending[h]][h].status)
           /\ payments' = [payments EXCEPT ![pending[h]][h] =
                               [status |-> "SUCCEEDED", amt |-> lnd[h].amt]]
           /\ balance' = [balance EXCEPT ![pending[h]] = @ - lnd[h].amt]
           /\ pending' = [pending EXCEPT ![h] = IF db = "ok" THEN NoAcct ELSE @]
           /\ enabled' = (db = "ok")
<1>1. pending[h] \in accts /\ pending[h] \in Accounts /\ enabled
  BY DEF IInv, TypeOK, TrackedReserved, Debits
<1>2. inflightState(payments[pending[h]][h].status)
  BY <1>1 DEF IInv, TrackedReserved, Debits
<1>3. Untracks(h, m, db) <=> db = "ok"
  BY <1>1 DEF Debits, Untracks
<1>4. RemovedEntry(UpsertEntry(payments[pending[h]][h], lnd[h].amt, "SUCCEEDED", DebitOpts),
                   "SUCCEEDED")
        = [status |-> "SUCCEEDED", amt |-> lnd[h].amt]
  BY DEF RemovedEntry, UpsertEntry, UpsertError, RemoveOpts, DebitOpts, Known
<1>5. UpsertEntry(payments[pending[h]][h], lnd[h].amt, "SUCCEEDED", DebitOpts).amt = lnd[h].amt
  BY DEF UpsertEntry, DebitOpts
<1>6. payments' = [payments EXCEPT ![pending[h]][h] = [status |-> "SUCCEEDED", amt |-> lnd[h].amt]]
  BY <1>4 DEF paymentUpdate
<1>7. balance' = [balance EXCEPT ![pending[h]] = @ - lnd[h].amt]
  BY <1>5 DEF paymentUpdate, UpsertBalance, DebitOpts
<1>8. pending' = [pending EXCEPT ![h] = IF db = "ok" THEN NoAcct ELSE @] /\ enabled' = (db = "ok")
  BY <1>1, <1>3 DEF paymentUpdate
<1> QED
  BY <1>1, <1>2, <1>6, <1>7, <1>8

\* What paymentUpdate keeps of the invariant.
LEMMA UpdateInv ==
    ASSUME IInv, NEW h \in Hashes, NEW m \in {"SUCCEEDED", "FAILED"}, NEW db \in StoreResults,
           m = "SUCCEEDED" => lnd[h].st = "succeeded",
           paymentUpdate(h, m, db), UNCHANGED <<accts, lnd, req, reqVals>>
    PROVE  /\ payments' \in [Accounts -> [Hashes -> PaymentEntry]]
           /\ pending' \in [Hashes -> Accounts \cup {NoAcct}]
           /\ balance' \in [Accounts -> Int] /\ enabled' \in BOOLEAN
           /\ \A g \in Hashes : pending'[g] \in {pending[g], NoAcct}
           /\ (StoreInv /\ LiveInv /\ TrackedReserved /\ TrackedInflight /\ DebitsAreReal)'
<1>1. CASE Debits(h, m, db)
  <2> DEFINE a == pending[h]
  <2>1. /\ a \in accts /\ a \in Accounts /\ a # NoAcct /\ lnd[h].st = "succeeded" /\ lnd[h].amt \in Nat
        /\ db # "ok" => "settle" \in Faults
    BY <1>1, DebitFacts, AccountsAssumption DEF IInv, TypeOK, Debits, StoreResults, NoAcct
  <2>2. /\ payments' = [payments EXCEPT ![a][h] = [status |-> "SUCCEEDED", amt |-> lnd[h].amt]]
        /\ balance' = [balance EXCEPT ![a] = @ - lnd[h].amt]
        /\ pending' = [pending EXCEPT ![h] = IF db = "ok" THEN NoAcct ELSE @]
        /\ enabled' = (db = "ok")
    BY <1>1, DebitFacts, SMTT(20), Z3T(20)
  <2> HIDE DEF a
  <2>3. /\ payments' \in [Accounts -> [Hashes -> PaymentEntry]]
        /\ balance' \in [Accounts -> Int] /\ enabled' \in BOOLEAN
    BY <2>1, <2>2, SMTT(20), Z3T(20) DEF IInv, TypeOK, PaymentEntry, PaymentStatus
  <2>4. /\ pending' \in [Hashes -> Accounts \cup {NoAcct}]
        /\ \A g \in Hashes : pending'[g] \in {pending[g], NoAcct} /\ (g # h => pending'[g] = pending[g])
        /\ db = "ok" => pending'[h] = NoAcct
    BY <2>2 DEF IInv, TypeOK
  <2>5. /\ \A b \in Accounts, g \in Hashes : b # a \/ g # h => payments'[b][g] = payments[b][g]
        /\ payments'[a][h] = [status |-> "SUCCEEDED", amt |-> lnd[h].amt]
    BY <2>1, <2>2 DEF IInv, TypeOK
  <2>6. StoreInv' /\ DebitsAreReal'
    <3>1. StoreInv'
      BY <2>1, <2>5, SMTT(20), Z3T(20) DEF IInv, StoreInv
    <3>2. accts \subseteq Accounts /\ payments'[a][h].amt = lnd[h].amt
      BY <2>5, SMTT(20), Z3T(20) DEF IInv, TypeOK
    <3>3. DebitsAreReal'
      BY <2>1, <2>5, <3>2, SMTT(20), Z3T(20) DEF IInv, DebitsAreReal
    <3> QED
      BY <3>1, <3>3
  <2>7. \A g \in Hashes : pending'[g] # NoAcct => pending'[g] = pending[g] /\
            \/ g # h /\ payments'[pending[g]][g] = payments[pending[g]][g]
            \/ g = h /\ db # "ok" /\ pending[g] = a /\ successState(payments'[a][g].status)
    BY <2>4, <2>5, SMTT(20), Z3T(20) DEF IInv, TypeOK, a, successState
  <2>8. (TrackedReserved /\ TrackedInflight)'
    <3>1. db # "ok" => ~enabled'
      BY <2>2
    <3>2. TrackedReserved'
      <4>1. enabled
        BY <1>1, DebitFacts
      <4> QED
        BY <2>1, <2>7, <3>1, <4>1 DEF IInv, TrackedReserved
    <3>3. TrackedInflight'
      BY <2>1, <2>7 DEF IInv, TrackedInflight
    <3> QED
      BY <3>2, <3>3
  <2>9. LiveInv'
    <3>1. \A q \in Reqs : Live(q) /\ req[q].acct \in accts =>
            /\ payments'[req[q].acct][req[q].hash] = payments[req[q].acct][req[q].hash]
            /\ pending'[req[q].hash] # req[q].acct
      <4> SUFFICES ASSUME NEW q \in Reqs, Live(q), req[q].acct \in accts
                   PROVE  /\ payments'[req[q].acct][req[q].hash] = payments[req[q].acct][req[q].hash]
                          /\ pending'[req[q].hash] # req[q].acct
        OBVIOUS
      <4>1. req[q].acct \in Accounts /\ req[q].acct # NoAcct
        BY RowFacts
      <4>2. req[q].hash \in Hashes /\ pending[req[q].hash] # req[q].acct
        BY DEF IInv, ReqInv, ValuesInv, Live, LiveInv
      <4> QED
        BY <2>4, <2>5, <4>1, <4>2, SMTT(20), Z3T(20) DEF a
    <3> QED
      BY <3>1 DEF IInv, LiveInv, Live
  <2> QED
    BY <2>3, <2>4, <2>6, <2>8, <2>9
<1>2. CASE ~Debits(h, m, db)
  <2> DEFINE S == IF Untracks(h, m, db) THEN {h} ELSE {}
  <2>1. /\ removePayment(S, "FAILED") /\ balance' = balance
        /\ S \in SUBSET Hashes /\ \A g \in S : pending[g] # NoAcct
        /\ enabled' = (enabled /\ Untracks(h, m, db))
    BY <1>2 DEF paymentUpdate, Untracks
  <2>2. (enabled' => enabled) /\ \A q \in Reqs : Live(q)' => Live(q)
    BY <2>1 DEF Live
  <2> HIDE DEF S
  <2>3. (StoreInv /\ LiveInv /\ TrackedReserved /\ TrackedInflight /\ DebitsAreReal)'
    BY <2>1, <2>2, RemovedInv
  <2>4. /\ payments' \in [Accounts -> [Hashes -> PaymentEntry]]
        /\ pending' \in [Hashes -> Accounts \cup {NoAcct}]
        /\ \A g \in Hashes : pending'[g] = IF g \in S THEN NoAcct ELSE pending[g]
    BY <2>1, RemovedFacts
  <2> QED
    BY <2>1, <2>3, <2>4 DEF IInv, TypeOK
<1> QED
  BY <1>1, <1>2

\* The goroutine acts on what lnd's stream delivered.
LEMMA TrackerUpdateStep ==
    ASSUME IInv, NEW h \in Hashes, NEW db \in StoreResults, TrackerUpdate(h, db) PROVE IInv'
<1> DEFINE m == tracker[h]
<1>1. /\ m \in {"SUCCEEDED", "FAILED"} /\ paymentUpdate(h, m, db)
      /\ tracker' = [tracker EXCEPT ![h] = "none"]
      /\ UNCHANGED <<accts, gone, expired, phase, startQ, stale, reqVals, req, lnd, crashes>>
      /\ m = "SUCCEEDED" => lnd[h].st = "succeeded"
  BY DEF TrackerUpdate, IInv, MailboxInv
<1> HIDE DEF m
<1>2. /\ payments' \in [Accounts -> [Hashes -> PaymentEntry]]
      /\ pending' \in [Hashes -> Accounts \cup {NoAcct}]
      /\ balance' \in [Accounts -> Int] /\ enabled' \in BOOLEAN
      /\ \A g \in Hashes : pending'[g] \in {pending[g], NoAcct}
      /\ (StoreInv /\ LiveInv /\ TrackedReserved /\ TrackedInflight /\ DebitsAreReal)'
  BY <1>1, UpdateInv
<1>3. TypeOK'
  BY <1>1, <1>2 DEF IInv, TypeOK, Mailboxes
<1>4. (LndInv /\ ReqInv /\ ValuesInv /\ PhaseInv /\ MailboxInv)'
  <2>1. LndInv' /\ ReqInv' /\ ValuesInv'
    BY <1>1 DEF IInv, LndInv, ReqInv, ValuesInv
  <2>2. PhaseInv'
    BY <1>1, <1>2 DEF IInv, PhaseInv, MtxFree
  <2>3. MailboxInv'
    BY <1>1 DEF IInv, TypeOK, MailboxInv
  <2> QED
    BY <2>1, <2>2, <2>3
<1> QED
  BY <1>2, <1>3, <1>4 DEF IInv

\* A payment that lnd never saw is released by hash.
LEMMA TrackerNotInitiatedStep ==
    ASSUME IInv, NEW h \in Hashes, NEW db \in StoreResults, TrackerNotInitiated(h, db) PROVE IInv'
<1> DEFINE S == IF Untracks(h, "notInitiated", db) THEN {h} ELSE {}
<1>1. /\ removePayment(S, "FAILED") /\ S \in SUBSET Hashes /\ \A g \in S : pending[g] # NoAcct
      /\ tracker' = [tracker EXCEPT ![h] = "none"]
      /\ UNCHANGED <<accts, gone, expired, balance, phase, enabled, startQ, stale, reqVals, req,
                     lnd, crashes>>
  BY DEF TrackerNotInitiated, Untracks
<1>2. (enabled' => enabled) /\ \A q \in Reqs : Live(q)' => Live(q)
  BY <1>1 DEF Live
<1> HIDE DEF S
<1>3. (StoreInv /\ LiveInv /\ TrackedReserved /\ TrackedInflight /\ DebitsAreReal)'
  BY <1>1, <1>2, RemovedInv
<1>4. /\ payments' \in [Accounts -> [Hashes -> PaymentEntry]]
      /\ pending' \in [Hashes -> Accounts \cup {NoAcct}]
      /\ \A g \in Hashes : pending'[g] = IF g \in S THEN NoAcct ELSE pending[g]
  BY <1>1, RemovedFacts
<1>5. TypeOK'
  BY <1>1, <1>4 DEF IInv, TypeOK, Mailboxes
<1>6. (LndInv /\ ReqInv /\ ValuesInv /\ PhaseInv /\ MailboxInv)'
  <2>1. LndInv' /\ ReqInv' /\ ValuesInv'
    BY <1>1 DEF IInv, LndInv, ReqInv, ValuesInv
  <2>2. PhaseInv'
    BY <1>1, <1>4 DEF IInv, PhaseInv, MtxFree
  <2>3. MailboxInv'
    BY <1>1 DEF IInv, TypeOK, MailboxInv
  <2> QED
    BY <2>1, <2>2, <2>3
<1> QED
  BY <1>3, <1>5, <1>6 DEF IInv

\* A goroutine that ends early leaves its payment reserved and in the map.
LEMMA TrackerEndStep ==
    ASSUME IInv, NEW h \in Hashes, TrackerError(h) \/ TrackerQuit(h) PROVE IInv'
<1>1. /\ enabled' \in BOOLEAN /\ (enabled' => enabled)
      /\ tracker' = [tracker EXCEPT ![h] = "none"]
      /\ UNCHANGED <<accts, gone, expired, balance, payments, phase, startQ, pending, stale,
                     reqVals, req, lnd, crashes>>
  <2>1. enabled \in BOOLEAN
    BY DEF IInv, TypeOK
  <2>2. CASE TrackerError(h)
    BY <2>2 DEF TrackerError, storeVars
  <2>3. CASE TrackerQuit(h)
    BY <2>1, <2>3 DEF TrackerQuit, storeVars
  <2> QED
    BY <2>2, <2>3
<1>2. TypeOK'
  BY <1>1 DEF IInv, TypeOK, Mailboxes
<1>3. (LndInv /\ ReqInv /\ StoreInv /\ ValuesInv /\ LiveInv)'
  BY <1>1 DEF IInv, LndInv, ReqInv, StoreInv, ValuesInv, LiveInv, Live
<1>4. (PhaseInv /\ MailboxInv /\ TrackedReserved /\ TrackedInflight /\ DebitsAreReal)'
  <2>1. PhaseInv'
    BY <1>1 DEF IInv, PhaseInv, MtxFree
  <2>2. MailboxInv'
    BY <1>1 DEF IInv, TypeOK, MailboxInv
  <2>3. (TrackedReserved /\ TrackedInflight /\ DebitsAreReal)'
    BY <1>1 DEF IInv, TrackedReserved, TrackedInflight, DebitsAreReal
  <2> QED
    BY <2>1, <2>2, <2>3
<1> QED
  BY <1>2, <1>3, <1>4 DEF IInv

\* A cancelled goroutine with a received status acts on whatever is tracked now.
LEMMA StaleUpdateStep ==
    ASSUME IInv, NEW h \in Hashes, NEW m \in stale[h], NEW db \in StoreResults,
           StaleUpdate(h, m, db)
    PROVE  IInv'
<1>1. /\ UNCHANGED <<accts, gone, expired, phase, startQ, reqVals, req, lnd, crashes>>
      /\ m \in {"SUCCEEDED", "FAILED", "notInitiated"}
      /\ m = "SUCCEEDED" => lnd[h].st = "succeeded"
  BY DEF StaleUpdate, IInv, TypeOK, MailboxInv
<1>2. /\ payments' \in [Accounts -> [Hashes -> PaymentEntry]]
      /\ pending' \in [Hashes -> Accounts \cup {NoAcct}]
      /\ balance' \in [Accounts -> Int] /\ enabled' \in BOOLEAN
      /\ \A g \in Hashes : pending'[g] \in {pending[g], NoAcct}
      /\ (StoreInv /\ LiveInv /\ TrackedReserved /\ TrackedInflight /\ DebitsAreReal)'
  <2>1. CASE m = "notInitiated"
    <3> DEFINE S == IF Untracks(h, m, db) THEN {h} ELSE {}
    <3>1. /\ removePayment(S, "FAILED") /\ S \in SUBSET Hashes /\ \A g \in S : pending[g] # NoAcct
          /\ UNCHANGED <<balance, enabled>>
      BY <2>1 DEF StaleUpdate, Untracks
    <3>2. (enabled' => enabled) /\ \A q \in Reqs : Live(q)' => Live(q)
      BY <1>1, <3>1 DEF Live
    <3> HIDE DEF S
    <3>3. (StoreInv /\ LiveInv /\ TrackedReserved /\ TrackedInflight /\ DebitsAreReal)'
      BY <1>1, <3>1, <3>2, RemovedInv
    <3>4. /\ payments' \in [Accounts -> [Hashes -> PaymentEntry]]
          /\ pending' \in [Hashes -> Accounts \cup {NoAcct}]
          /\ \A g \in Hashes : pending'[g] = IF g \in S THEN NoAcct ELSE pending[g]
      BY <3>1, RemovedFacts
    <3> QED
      BY <3>1, <3>3, <3>4 DEF IInv, TypeOK
  <2>2. CASE m # "notInitiated"
    <3>1. paymentUpdate(h, m, db)
      BY <2>2 DEF StaleUpdate
    <3> QED
      BY <1>1, <2>2, <3>1, UpdateInv
  <2> QED
    BY <2>1, <2>2
<1>3. /\ tracker' \in [Hashes -> Mailboxes]
      /\ stale' \in [Hashes -> SUBSET {"SUCCEEDED", "FAILED", "notInitiated"}]
      /\ \A g \in Hashes : /\ tracker'[g] \in {tracker[g], "none"}
                           /\ stale'[g] \subseteq stale[g] \cup {tracker[g]}
  BY DEF StaleUpdate, Undelivered, IInv, TypeOK, Mailboxes
<1>4. TypeOK'
  BY <1>1, <1>2, <1>3 DEF IInv, TypeOK
<1>5. (LndInv /\ ReqInv /\ ValuesInv /\ PhaseInv)'
  BY <1>1, <1>2 DEF IInv, LndInv, ReqInv, ValuesInv, PhaseInv, MtxFree
<1>6. MailboxInv'
  BY <1>1, <1>3 DEF IInv, MailboxInv
<1> QED
  BY <1>2, <1>4, <1>5, <1>6 DEF IInv

\* A cancelled goroutine that notices does nothing.
LEMMA StaleExitStep ==
    ASSUME IInv, NEW h \in Hashes, NEW m \in stale[h], StaleExit(h, m) PROVE IInv'
<1> USE DEF StaleExit, storeVars
<1>1. TypeOK'
  BY DEF IInv, TypeOK
<1>2. (LndInv /\ ReqInv /\ StoreInv /\ ValuesInv /\ LiveInv)'
  BY DEF IInv, LndInv, ReqInv, StoreInv, ValuesInv, LiveInv, Live
<1>3. (PhaseInv /\ MailboxInv /\ TrackedReserved /\ TrackedInflight /\ DebitsAreReal)'
  <2>1. PhaseInv'
    BY DEF IInv, PhaseInv, MtxFree
  <2>2. MailboxInv'
    BY DEF IInv, TypeOK, MailboxInv
  <2> QED
    BY <2>1, <2>2, RowsUnchanged
<1> QED
  BY <1>1, <1>2, <1>3 DEF IInv

-----------------------------------------------------------------------------
(* The remaining steps, and the theorems. *)

\* A new account has no payments: no request, live or not, is its own.
LEMMA NewAccountStep == ASSUME IInv, NEW a \in Accounts, NewAccount(a) PROVE IInv'
<1> USE DEF NewAccount, serviceVars
<1>1. TypeOK'
  BY AmountsAssumption, SMTT(20), Z3T(20) DEF IInv, TypeOK
<1>2. (LndInv /\ ReqInv /\ StoreInv /\ ValuesInv /\ PhaseInv /\ MailboxInv)'
  BY SMTT(20), Z3T(20)
  DEF IInv, TypeOK, LndInv, ReqInv, StoreInv, ValuesInv, PhaseInv, MtxFree, MailboxInv
<1>3. LiveInv'
  <2>1. \A q \in Reqs : Live(q) => req[q].acct # a
    BY DEF IInv, ReqInv, ValuesInv, Live
  <2> QED
    BY <2>1 DEF IInv, LiveInv, Live
<1>4. (TrackedReserved /\ TrackedInflight)'
  BY DEF IInv, TrackedReserved, TrackedInflight
<1>5. DebitsAreReal'
  BY SMTT(20), Z3T(20) DEF IInv, StoreInv, DebitsAreReal, NotAssociated, successState
<1> QED
  BY <1>1, <1>2, <1>3, <1>4, <1>5 DEF IInv

\* UpdateAccount, CreditAccount and DebitAccount change nothing but a balance.
LEMMA AdjustBalanceStep ==
    ASSUME IInv, NEW a \in Accounts, NEW new \in Int, AdjustBalance(a, new) PROVE IInv'
<1> USE DEF AdjustBalance, serviceVars
<1>1. TypeOK'
  BY DEF IInv, TypeOK
<1>2. (LndInv /\ ReqInv /\ StoreInv /\ ValuesInv /\ LiveInv)'
  BY DEF IInv, LndInv, ReqInv, StoreInv, ValuesInv, LiveInv, Live
<1>3. (PhaseInv /\ MailboxInv /\ TrackedReserved /\ TrackedInflight /\ DebitsAreReal)'
  BY DEF IInv, PhaseInv, MtxFree, MailboxInv, TrackedReserved, TrackedInflight,
         DebitsAreReal
<1> QED
  BY <1>1, <1>2, <1>3 DEF IInv

\* UpdateAccount with an expiration date changes nothing else.
LEMMA UpdateExpiryStep == ASSUME IInv, NEW a \in Accounts, UpdateExpiry(a) PROVE IInv'
<1> USE DEF UpdateExpiry, serviceVars
<1>1. TypeOK'
  BY DEF IInv, TypeOK
<1>2. (LndInv /\ ReqInv /\ StoreInv /\ ValuesInv /\ LiveInv)'
  BY DEF IInv, LndInv, ReqInv, StoreInv, ValuesInv, LiveInv, Live
<1>3. (PhaseInv /\ MailboxInv /\ TrackedReserved /\ TrackedInflight /\ DebitsAreReal)'
  BY DEF IInv, PhaseInv, MtxFree, MailboxInv, TrackedReserved, TrackedInflight,
         DebitsAreReal
<1> QED
  BY <1>1, <1>2, <1>3 DEF IInv

\* RemoveAccount untracks the account's payments before the row goes; when a
\* write fails in between the account keeps the rest of them.
LEMMA RemoveAccountStep ==
    ASSUME IInv, NEW a \in Accounts, NEW S \in SUBSET Hashes, NEW db \in StoreResults,
           RemoveAccount(a, S, db)
    PROVE  IInv'
<1>1. /\ a \in accts /\ a # NoAcct /\ \A h \in S : pending[h] = a
      /\ db = "ok" => \A h \in Hashes : pending[h] = a => h \in S
      /\ Cancel(S) /\ UNCHANGED <<phase, enabled, startQ, reqVals, req, lnd, crashes>>
  BY AccountsAssumption DEF RemoveAccount, NoAcct
<1>2. /\ tracker' \in [Hashes -> Mailboxes]
      /\ stale' \in [Hashes -> SUBSET {"SUCCEEDED", "FAILED", "notInitiated"}]
      /\ MailboxInv'
  BY <1>1, CancelInv
<1>3. CASE db = "ok"
  <2>1. /\ accts' = accts \ {a} /\ gone' = gone \cup {a} /\ expired' = expired \ {a}
        /\ balance' = [balance EXCEPT ![a] = 0]
        /\ payments' = [payments EXCEPT ![a] = [h \in Hashes |-> NotAssociated]]
        /\ pending' = [h \in Hashes |-> IF h \in S THEN NoAcct ELSE pending[h]]
    BY <1>3 DEF RemoveAccount
  <2>2. /\ payments' \in [Accounts -> [Hashes -> PaymentEntry]]
        /\ pending' \in [Hashes -> Accounts \cup {NoAcct}]
    BY <2>1 DEF IInv, TypeOK, NotAssociated, PaymentEntry, PaymentStatus
  <2>3. TypeOK'
    BY <1>1, <1>2, <2>1, <2>2, SMTT(20), Z3T(20) DEF IInv, TypeOK
  <2>4. \A b \in Accounts \ {a}, h \in Hashes : payments'[b][h] = payments[b][h]
    BY <2>1 DEF IInv, TypeOK
  <2>5. \A h \in Hashes : payments'[a][h] = NotAssociated
    BY <2>1 DEF IInv, TypeOK
  <2>6. \A h \in Hashes : /\ pending'[h] # a
                          /\ pending'[h] # NoAcct => pending'[h] = pending[h]
                          /\ pending[h] = NoAcct => pending'[h] = NoAcct
    BY <1>1, <1>3, <2>1
  <2>7. (LndInv /\ ReqInv /\ ValuesInv)'
    BY <1>1, <2>1 DEF IInv, LndInv, ReqInv, ValuesInv
  <2>8. (StoreInv /\ PhaseInv)'
    BY <1>1, <2>1, <2>4, <2>5, <2>6, SMTT(20), Z3T(20) DEF IInv, StoreInv, PhaseInv, MtxFree
  <2>9. (TrackedReserved /\ TrackedInflight)'
    <3>1. \A h \in Hashes : pending'[h] # NoAcct =>
              /\ pending'[h] = pending[h] /\ pending[h] \in accts \ {a}
              /\ payments'[pending'[h]][h] = payments[pending[h]][h]
      <4> SUFFICES ASSUME NEW h \in Hashes, pending'[h] # NoAcct
                   PROVE  /\ pending'[h] = pending[h] /\ pending[h] \in accts \ {a}
                          /\ payments'[pending'[h]][h] = payments[pending[h]][h]
        OBVIOUS
      <4>1. pending'[h] = pending[h] /\ pending[h] # a
        BY <2>6
      <4>2. pending[h] \in accts /\ accts \subseteq Accounts
        BY <4>1 DEF IInv, TypeOK, TrackedReserved
      <4> QED
        BY <2>4, <4>1, <4>2
    <3> QED
      BY <1>1, <2>1, <3>1 DEF IInv, TrackedReserved, TrackedInflight
  <2>10. DebitsAreReal'
    <3>1. accts' \subseteq Accounts \ {a} /\ accts' \subseteq accts
      BY <2>1 DEF IInv, TypeOK
    <3> SUFFICES ASSUME NEW b \in accts', NEW h \in Hashes, successState(payments'[b][h].status)
                 PROVE  lnd'[h].st = "succeeded" /\ payments'[b][h].amt = lnd'[h].amt
      BY DEF DebitsAreReal
    <3>2. b \in accts /\ payments'[b][h] = payments[b][h]
      BY <2>4, <3>1
    <3>3. lnd[h].st = "succeeded" /\ payments[b][h].amt = lnd[h].amt
      BY <3>2 DEF IInv, DebitsAreReal
    <3> QED
      BY <1>1, <3>2, <3>3
  <2>11. LiveInv'
    <3>1. \A q \in Reqs : Live(q) /\ req[q].acct \in accts' =>
            /\ payments'[req[q].acct][req[q].hash] = payments[req[q].acct][req[q].hash]
            /\ pending[req[q].hash] # req[q].acct => pending'[req[q].hash] # req[q].acct
      <4> SUFFICES ASSUME NEW q \in Reqs, Live(q), req[q].acct \in accts'
                   PROVE  /\ payments'[req[q].acct][req[q].hash] = payments[req[q].acct][req[q].hash]
                          /\ pending[req[q].hash] # req[q].acct => pending'[req[q].hash] # req[q].acct
        OBVIOUS
      <4>1. req[q].acct \in Accounts \ {a} /\ req[q].acct # NoAcct
        BY <2>1, RowFacts
      <4>2. req[q].hash \in Hashes
        BY DEF IInv, ReqInv, ValuesInv, Live
      <4> QED
        BY <2>4, <2>6, <4>1, <4>2
    <3>2. accts' \subseteq accts
      BY <2>1
    <3> QED
      BY <1>1, <3>1, <3>2 DEF IInv, LiveInv, Live
  <2> QED
    BY <1>2, <2>3, <2>7, <2>8, <2>9, <2>10, <2>11 DEF IInv
<1>4. CASE db # "ok"
  <2>1. removePayment(S, "FAILED") /\ UNCHANGED <<accts, gone, expired, balance>>
    BY <1>4 DEF RemoveAccount
  <2>2. (enabled' => enabled) /\ \A q \in Reqs : Live(q)' => Live(q)
    BY <1>1 DEF Live
  <2>3. (StoreInv /\ LiveInv /\ TrackedReserved /\ TrackedInflight /\ DebitsAreReal)'
    BY <1>1, <2>1, <2>2, RemovedInv
  <2>4. /\ payments' \in [Accounts -> [Hashes -> PaymentEntry]]
        /\ pending' \in [Hashes -> Accounts \cup {NoAcct}]
        /\ \A g \in Hashes : pending'[g] = IF g \in S THEN NoAcct ELSE pending[g]
    BY <1>1, <2>1, RemovedFacts
  <2>5. TypeOK'
    BY <1>1, <1>2, <2>1, <2>4 DEF IInv, TypeOK
  <2>6. (LndInv /\ ReqInv /\ ValuesInv /\ PhaseInv)'
    BY <1>1, <2>1, <2>4 DEF IInv, LndInv, ReqInv, ValuesInv, PhaseInv, MtxFree
  <2> QED
    BY <1>2, <2>3, <2>5, <2>6 DEF IInv
<1> QED
  BY <1>3, <1>4

-----------------------------------------------------------------------------
\* A crash loses the memory of the service, never a row.
LEMMA CrashStep == ASSUME IInv, Crash PROVE IInv'
<1> USE DEF Crash, storeVars
<1>1. /\ \A r \in Reqs : /\ req'[r] = req[r] \/ req'[r] = Answered(req[r], "done", "none", 0)
                         /\ req'[r].st \notin {"checked", "replying"}
      /\ req' = [r \in Reqs |-> req'[r]]
  BY DEF Answered
<1>2. \A r \in Reqs : req[r] \in Requests
  BY DEF IInv, TypeOK
<1>3. req' \in [Reqs -> Requests]
  <2>1. \A r \in Reqs : req'[r] \in Requests
    BY <1>1, <1>2 DEF Answered, Requests, ReqStates
  <2> QED
    BY <1>1, <2>1
<1>4. TypeOK'
  <2>1. /\ UNCHANGED <<accts, gone, expired, balance, payments, lnd>>
        /\ phase' = "down" /\ enabled' = FALSE /\ startQ' = {} /\ reqVals' = {}
    OBVIOUS
  <2>2. crashes' \in 0 .. MaxCrashes
    BY AmountsAssumption, SMTT(20), Z3T(20) DEF IInv, TypeOK
  <2>3. /\ pending' \in [Hashes -> Accounts \cup {NoAcct}] /\ tracker' \in [Hashes -> Mailboxes]
        /\ stale' \in [Hashes -> SUBSET {"SUCCEEDED", "FAILED", "notInitiated"}]
    BY DEF Mailboxes
  <2> HIDE DEF Crash
  <2> QED
    BY <1>3, <2>1, <2>2, <2>3 DEF IInv, TypeOK
<1>5. \A r \in Reqs : /\ req'[r].acct = req[r].acct /\ req'[r].hash = req[r].hash
                      /\ req'[r].val = req[r].val
                      /\ req'[r].st = "new" <=> req[r].st = "new"
  BY <1>1, <1>2 DEF Answered, Requests
<1>6. (LndInv /\ ReqInv /\ StoreInv)'
  <2>1. UNCHANGED <<accts, gone, payments, lnd>>
    OBVIOUS
  <2> HIDE DEF Crash
  <2>2. LndInv'
    BY <1>5, <2>1, RequestsKept
  <2>3. ReqInv'
    BY <1>5, <2>1, RequestsKept
  <2>4. StoreInv'
    BY <2>1 DEF IInv, StoreInv
  <2> QED
    BY <2>2, <2>3, <2>4
<1>7. (ValuesInv /\ LiveInv /\ PhaseInv)'
  BY <1>1 DEF ValuesInv, LiveInv, Live, PhaseInv, MtxFree
<1>8. (MailboxInv /\ TrackedReserved /\ TrackedInflight /\ DebitsAreReal)'
  BY DEF IInv, MailboxInv, TrackedReserved, TrackedInflight, DebitsAreReal
<1> QED
  BY <1>4, <1>6, <1>7, <1>8 DEF IInv

\* Start begins with nothing tracked and no registered values.
LEMMA StartStepInv == ASSUME IInv, Start PROVE IInv'
<1>1. /\ phase = "down" /\ phase' = "starting" /\ enabled' = TRUE /\ startQ' = Resumed
      /\ UNCHANGED <<accts, gone, expired, balance, payments, pending, tracker, stale, reqVals,
                     lnd, crashes>>
      /\ req' = [r \in Reqs |-> IF req[r].st = "accepted" /\ "late" \notin Faults
                                THEN Moved(req[r], "done") ELSE req[r]]
  BY DEF Start, storeVars
<1>2. \A r \in Reqs : /\ req'[r] = req[r] \/ req'[r] = Moved(req[r], "done")
                      /\ req'[r].st \in {"checked", "replying"} => req'[r] = req[r]
                      /\ req'[r] = req[r] \/ req[r].st = "accepted"
  BY <1>1 DEF Moved, Answered
<1>3. \A r \in Reqs : req[r] \in Requests
  BY DEF IInv, TypeOK
<1>4. \A r \in Reqs : req'[r] \in Requests
  BY <1>2, <1>3, MovedType DEF ReqStates
<1>5. startQ' \subseteq [acct : Accounts, hash : Hashes, amt : Nat]
  <2>1. \A p \in accts \X Hashes : /\ p[1] \in Accounts /\ p[2] \in Hashes
                                   /\ payments[p[1]][p[2]].amt \in Nat
    BY SMTT(20), Z3T(20) DEF IInv, TypeOK, PaymentEntry
  <2> QED
    BY <1>1, <2>1, SMTT(20), Z3T(20) DEF Resumed
<1>6. req' \in [Reqs -> Requests]
  BY <1>1, <1>4
<1>7. TypeOK'
  BY <1>1, <1>5, <1>6 DEF IInv, TypeOK
<1>8. reqVals = {} /\ MtxFree /\ \A h \in Hashes : pending[h] = NoAcct
  BY <1>1 DEF IInv, PhaseInv
<1>9. \A r \in Reqs : /\ req'[r].acct = req[r].acct /\ req'[r].hash = req[r].hash
                      /\ req'[r].val = req[r].val
                      /\ req'[r].st = "new" <=> req[r].st = "new"
  <2> SUFFICES ASSUME NEW r \in Reqs
               PROVE  /\ req'[r].acct = req[r].acct /\ req'[r].hash = req[r].hash
                      /\ req'[r].val = req[r].val
                      /\ req'[r].st = "new" <=> req[r].st = "new"
    OBVIOUS
  <2>1. CASE req'[r] = req[r]
    BY <2>1
  <2>2. CASE req'[r] # req[r]
    <3>1. req'[r] = Moved(req[r], "done") /\ req[r].st = "accepted"
      BY <1>2, <2>2
    <3> QED
      BY <3>1, SMTT(20), Z3T(20) DEF Moved, Answered
  <2> QED
    BY <2>1, <2>2
<1>10. (LndInv /\ ReqInv /\ StoreInv)'
  <2>1. LndInv'
    BY <1>1, <1>9, RequestsKept
  <2>2. ReqInv'
    BY <1>1, <1>9, RequestsKept
  <2>3. StoreInv'
    BY <1>1 DEF IInv, StoreInv
  <2> QED
    BY <2>1, <2>2, <2>3
<1>11. (ValuesInv /\ LiveInv /\ PhaseInv)'
  BY <1>1, <1>2, <1>8 DEF ValuesInv, LiveInv, Live, PhaseInv, MtxFree
<1>12. (MailboxInv /\ TrackedReserved /\ TrackedInflight /\ DebitsAreReal)'
  BY <1>1, <1>8 DEF IInv, MailboxInv, TrackedReserved, TrackedInflight, DebitsAreReal
<1> QED
  BY <1>7, <1>10, <1>11, <1>12 DEF IInv

\* Start resumes one payment; an error stops the service.
LEMMA StartTrackStep ==
    ASSUME IInv, NEW p \in startQ, NEW db \in StoreResults, NEW router \in RouterResults,
           StartTrack(p, db, router)
    PROVE  IInv'
<1> DEFINE result == TrackResult(p.acct, p.hash, p.amt, db, router)
<1>1. p.acct \in Accounts /\ p.hash \in Hashes /\ p.amt \in Nat
  BY DEF IInv, TypeOK
<1>2. /\ TrackEffect(p.acct, p.hash, p.amt, result)
      /\ enabled' = (enabled /\ ~TrackFailed(result))
      /\ startQ' \subseteq startQ
      /\ phase = "starting" /\ phase' \in {"starting", "stopped"}
      /\ UNCHANGED <<accts, gone, expired, balance, stale, reqVals, req, lnd, crashes>>
  BY DEF StartTrack
<1> HIDE DEF result
<1>3. enabled' \in BOOLEAN /\ (enabled' => enabled)
  BY <1>2
<1>4. (StoreInv /\ MailboxInv /\ TrackedReserved /\ TrackedInflight /\ DebitsAreReal)'
  BY <1>1, <1>2, <1>3, TrackInv DEF result
<1>5. /\ payments' \in [Accounts -> [Hashes -> PaymentEntry]]
      /\ pending' \in [Hashes -> Accounts \cup {NoAcct}]
      /\ tracker' \in [Hashes -> Mailboxes]
  BY <1>1, <1>2, TrackFacts DEF result
<1>6. TypeOK'
  BY <1>2, <1>3, <1>5 DEF IInv, TypeOK
<1>7. reqVals = {}
  BY <1>2 DEF IInv, PhaseInv
<1>8. (LndInv /\ ReqInv /\ ValuesInv /\ LiveInv /\ PhaseInv)'
  BY <1>2, <1>7 DEF IInv, LndInv, ReqInv, ValuesInv, LiveInv, Live, PhaseInv, MtxFree
<1> QED
  BY <1>4, <1>6, <1>8 DEF IInv

\* The interceptor is registered.
LEMMA StartDoneStep == ASSUME IInv, StartDone PROVE IInv'
<1> USE DEF StartDone, storeVars
<1>1. TypeOK'
  BY DEF IInv, TypeOK
<1>2. (LndInv /\ ReqInv /\ StoreInv /\ ValuesInv /\ LiveInv)'
  BY DEF IInv, LndInv, ReqInv, StoreInv, ValuesInv, LiveInv, Live
<1>3. (PhaseInv /\ MailboxInv /\ TrackedReserved /\ TrackedInflight /\ DebitsAreReal)'
  BY DEF IInv, PhaseInv, MtxFree, MailboxInv, TrackedReserved, TrackedInflight,
         DebitsAreReal
<1> QED
  BY <1>1, <1>2, <1>3 DEF IInv

-----------------------------------------------------------------------------
\* Every step of the system preserves the inductive invariant.
LEMMA NextInv == IInv /\ [Next]_vars => IInv'
<1> SUFFICES ASSUME IInv, [Next]_vars PROVE IInv'
  OBVIOUS
<1>1. ASSUME NEW r \in Reqs, RequestStep(r) PROVE IInv'
  BY <1>1, CheckSendStep, InterceptStep, AssociatePaymentStep, PaymentErroredStep,
     SendFailedStep, SendTrackedStep DEF RequestStep
<1>2. CASE LndStep
  <2>1. \A fee \in UNION {0 .. f : f \in FeeLimits} : fee \in Nat
    BY AmountsAssumption, SMTT(20), Z3T(20)
  <2> QED
    BY <1>2, <2>1, LndStartStep, LndRefuseStep, LndResolveStep DEF LndStep
<1>3. ASSUME NEW h \in Hashes, TrackerStep(h) PROVE IInv'
  BY <1>3, TrackerUpdateStep, TrackerNotInitiatedStep, TrackerEndStep, StaleUpdateStep,
     StaleExitStep DEF TrackerStep
<1>4. ASSUME NEW a \in Accounts, AdminStep(a) PROVE IInv'
  <2>1. \A amt \in AdminAmounts : amt \in Int /\ balance[a] + amt \in Int /\ balance[a] - amt \in Int
    BY AmountsAssumption, SMTT(20), Z3T(20) DEF IInv, TypeOK
  <2>2. ASSUME NEW amt \in AdminAmounts,
               UpdateBalance(a, amt) \/ CreditAccount(a, amt) \/ DebitAccount(a, amt)
        PROVE  IInv'
    BY <2>1, <2>2, AdjustBalanceStep DEF UpdateBalance, CreditAccount, DebitAccount
  <2> QED
    BY <1>4, <2>2, NewAccountStep, UpdateExpiryStep, ExpireStep, RemoveAccountStep DEF AdminStep
<1>5. CASE Crash
  BY <1>5, CrashStep
<1>6. CASE StartStep
  BY <1>6, StartStepInv, StartTrackStep, StartDoneStep DEF StartStep
<1>7. CASE UNCHANGED vars
  <2> USE <1>7 DEF vars, storeVars, serviceVars
  <2>1. TypeOK'
    BY DEF IInv, TypeOK
  <2>2. (LndInv /\ ReqInv /\ StoreInv /\ ValuesInv /\ LiveInv)'
    BY DEF IInv, LndInv, ReqInv, StoreInv, ValuesInv, LiveInv, Live
  <2>3. (PhaseInv /\ MailboxInv /\ TrackedReserved /\ TrackedInflight /\ DebitsAreReal)'
    BY DEF IInv, PhaseInv, MtxFree, MailboxInv, TrackedReserved, TrackedInflight, DebitsAreReal
  <2> QED
    BY <2>1, <2>2, <2>3 DEF IInv
<1> QED
  BY <1>1, <1>2, <1>3, <1>4, <1>5, <1>6, <1>7 DEF Next

\* The invariant from which the theorems below follow.
THEOREM InductiveInvariant == Spec => []IInv
  BY InitIInv, NextInv, PTL DEF Spec

\* The state keeps its type: in particular the store only ever holds the
\* statuses UNKNOWN, SUCCEEDED and FAILED, whatever lnd reports, and amounts
\* are never negative.
THEOREM TypeCorrect == Spec => []TypeOK
<1>1. IInv => TypeOK
  BY DEF IInv
<1> QED
  BY <1>1, InductiveInvariant, PTL

\* pendingPayments and the store agree under every interleaving of requests,
\* goroutines, operator calls, write failures and restarts.
THEOREM TrackedIsReserved == Spec => []TrackedReserved
<1>1. IInv => TrackedReserved
  BY DEF IInv
<1> QED
  BY <1>1, InductiveInvariant, PTL

\* No account is ever debited for a payment lnd did not complete, or with
\* another amount than lnd's.
THEOREM OnlyRealDebits == Spec => []DebitsAreReal
<1>1. IInv => DebitsAreReal
  BY DEF IInv
<1> QED
  BY <1>1, InductiveInvariant, PTL
-----------------------------------------------------------------------------
\* The step property of DebitOnce.
Settles == \A a \in accts \cap accts' : SettlesOnce(a)

\* A step that neither settles an entry nor touches a settled one.
LEMMA SettlesNothing ==
    ASSUME IInv, \A a \in accts \cap accts', h \in Hashes :
               \/ payments'[a][h] = payments[a][h]
               \/ /\ ~successState(payments[a][h].status)
                  /\ ~successState(payments'[a][h].status)
    PROVE  Settles
  BY DEF Settles, SettlesOnce

\* removePayment settles nothing.
LEMMA RemovedSettles ==
    ASSUME IInv, "settle" \notin Faults, NEW S \in SUBSET Hashes,
           \A h \in S : pending[h] # NoAcct, removePayment(S, "FAILED")
    PROVE  Settles
<1>1. /\ \A a \in Accounts, h \in Hashes :
            h \notin S \/ pending[h] # a => payments'[a][h] = payments[a][h]
      /\ \A h \in S : payments'[pending[h]][h].status = "FAILED"
  BY RemovedFacts
<1>2. \A h \in S : inflightState(payments[pending[h]][h].status)
  BY DEF IInv, TrackedInflight
<1>3. accts \subseteq Accounts
  BY DEF IInv, TypeOK
<1>4. \A a \in accts \cap accts', h \in Hashes :
          \/ payments'[a][h] = payments[a][h]
          \/ ~successState(payments[a][h].status) /\ ~successState(payments'[a][h].status)
  BY <1>1, <1>2, <1>3 DEF inflightState, successState
<1> QED
  BY <1>4, SettlesNothing

\* paymentUpdate settles at most the tracked payment, and debits its amount.
LEMMA UpdateSettles ==
    ASSUME IInv, "settle" \notin Faults, NEW h \in Hashes, NEW m \in {"SUCCEEDED", "FAILED"},
           NEW db \in StoreResults, paymentUpdate(h, m, db)
    PROVE  Settles
<1>1. CASE Debits(h, m, db)
  <2>1. /\ pending[h] \in Accounts /\ inflightState(payments[pending[h]][h].status)
        /\ payments' = [payments EXCEPT ![pending[h]][h] =
                            [status |-> "SUCCEEDED", amt |-> lnd[h].amt]]
        /\ balance' = [balance EXCEPT ![pending[h]] = @ - lnd[h].amt]
    BY <1>1, DebitFacts
  <2>2. /\ payments'[pending[h]][h] = [status |-> "SUCCEEDED", amt |-> lnd[h].amt]
        /\ balance'[pending[h]] = balance[pending[h]] - lnd[h].amt
        /\ \A b \in Accounts, g \in Hashes :
              b # pending[h] \/ g # h => payments'[b][g] = payments[b][g]
    BY <2>1 DEF IInv, TypeOK
  <2>3. payments'[pending[h]][h].amt = lnd[h].amt
    <3>1. \A p, v : p = [status |-> "SUCCEEDED", amt |-> v] => p.amt = v
      BY SMTT(20), Z3T(20)
    <3> QED
      BY <2>2, <3>1, SMTT(20), Z3T(20)
  <2>4. ~successState(payments[pending[h]][h].status) /\ accts \subseteq Accounts
    BY <2>1 DEF inflightState, successState, IInv, TypeOK
  <2> HIDE DEF IInv
  <2> SUFFICES ASSUME NEW b \in accts \cap accts', NEW g \in Hashes
               PROVE  /\ successState(payments[b][g].status) => payments'[b][g] = payments[b][g]
                      /\ successState(payments'[b][g].status) /\ ~successState(payments[b][g].status)
                         => /\ inflightState(payments[b][g].status)
                            /\ balance'[b] = balance[b] - payments'[b][g].amt
    BY DEF Settles, SettlesOnce
  <2>5. CASE b = pending[h] /\ g = h
    BY <2>1, <2>2, <2>3, <2>4, <2>5
  <2>6. CASE b # pending[h] \/ g # h
    BY <2>2, <2>4, <2>6
  <2> QED
    BY <2>5, <2>6
<1>2. CASE ~Debits(h, m, db)
  <2> DEFINE S == IF Untracks(h, m, db) THEN {h} ELSE {}
  <2>1. removePayment(S, "FAILED") /\ S \in SUBSET Hashes /\ \A g \in S : pending[g] # NoAcct
    BY <1>2 DEF paymentUpdate, Untracks
  <2> HIDE DEF S
  <2> QED
    BY <2>1, RemovedSettles
<1> QED
  BY <1>1, <1>2

\* TrackPayment settles nothing.
LEMMA TrackSettles ==
    ASSUME IInv, NEW a \in Accounts, NEW h \in Hashes, NEW amt \in Nat, NEW db, NEW router,
           TrackEffect(a, h, amt, TrackResult(a, h, amt, db, router))
    PROVE  Settles
<1>1. \A b \in Accounts, g \in Hashes :
          \/ payments'[b][g] = payments[b][g]
          \/ /\ b = a /\ g = h /\ ~successState(payments[a][h].status)
             /\ payments'[a][h].status = "UNKNOWN"
  BY TrackFacts, SMTT(20), Z3T(20)
<1>2. accts \subseteq Accounts
  BY DEF IInv, TypeOK
<1>3. \A b \in accts \cap accts', g \in Hashes :
          \/ payments'[b][g] = payments[b][g]
          \/ ~successState(payments[b][g].status) /\ ~successState(payments'[b][g].status)
  BY <1>1, <1>2 DEF successState
<1> QED
  BY <1>3, SettlesNothing

\* A request settles nothing: what it writes was not settled before.
LEMMA RequestSettles ==
    ASSUME IInv, "settle" \notin Faults, NEW r \in Reqs, RequestStep(r) PROVE Settles
<1> DEFINE a == req[r].acct
           h == req[r].hash
<1>1. ASSUME UNCHANGED payments PROVE Settles
  BY <1>1, SettlesNothing
<1>2. ASSUME NEW db \in StoreResults, AssociatePayment(r, db) PROVE Settles
  <2>1. a \in Accounts /\ h \in Hashes
    BY <1>2 DEF IInv, ReqInv, TypeOK, AssociatePayment
  <2>2. \A b \in Accounts, g \in Hashes :
            \/ payments'[b][g] = payments[b][g]
            \/ /\ b = a /\ g = h /\ UpsertError(payments[a][h], AssociateOpts) = "ok"
               /\ payments'[a][h].status = "UNKNOWN"
    BY <1>2, <2>1 DEF IInv, TypeOK, AssociatePayment, UpsertEntry
  <2>3. UpsertError(payments[a][h], AssociateOpts) = "ok" => ~successState(payments[a][h].status)
    BY DEF UpsertError, AssociateOpts, Known, successState
  <2>4. accts \subseteq Accounts
    BY DEF IInv, TypeOK
  <2>5. \A b \in accts \cap accts', g \in Hashes :
            \/ payments'[b][g] = payments[b][g]
            \/ ~successState(payments[b][g].status) /\ ~successState(payments'[b][g].status)
    BY <2>2, <2>3, <2>4 DEF successState
  <2> QED
    BY <2>5, SettlesNothing
<1>3. ASSUME NEW db \in StoreResults, PaymentErrored(r, db) PROVE Settles
  <2>1. a \in accts => inflightState(payments[a][h].status)
    BY <1>3 DEF IInv, ValuesInv, LiveInv, Live, PaymentErrored
  <2>2. h \in Hashes /\ accts \subseteq Accounts
    BY <1>3 DEF IInv, TypeOK, ReqInv, PaymentErrored
  <2>3. \A b \in Accounts, g \in Hashes :
            \/ payments'[b][g] = payments[b][g]
            \/ b = a /\ g = h /\ a \in accts /\ payments'[a][h] = NotAssociated
    BY <1>3, <2>2 DEF IInv, TypeOK, PaymentErrored
  <2>4. \A b \in accts \cap accts', g \in Hashes :
            \/ payments'[b][g] = payments[b][g]
            \/ ~successState(payments[b][g].status) /\ ~successState(payments'[b][g].status)
    <3>1. ~successState(NotAssociated.status)
      BY DEF successState, NotAssociated
    <3>2. a \in accts => ~successState(payments[a][h].status)
      BY <2>1 DEF inflightState, successState
    <3> QED
      BY <2>2, <2>3, <3>1, <3>2
  <2> QED
    BY <2>4, SettlesNothing
<1>4. ASSUME NEW db \in StoreResults, SendFailed(r, db) PROVE Settles
  <2> DEFINE S == IF pending[h] # NoAcct /\ db = "ok" THEN {h} ELSE {}
  <2>1. removePayment(S, "FAILED") /\ S \in SUBSET Hashes /\ \A g \in S : pending[g] # NoAcct
    BY <1>4 DEF SendFailed, IInv, ReqInv
  <2> HIDE DEF S
  <2> QED
    BY <2>1, RemovedSettles
<1>5. ASSUME NEW db \in StoreResults, NEW router \in RouterResults, SendTracked(r, db, router)
      PROVE  Settles
  <2>1. a \in Accounts /\ h \in Hashes /\ req[r].amt \in Nat
    BY <1>5 DEF SendTracked, IInv, TypeOK, Requests, ReqInv
  <2>2. TrackEffect(a, h, req[r].amt, TrackResult(a, h, req[r].amt, db, router))
    BY <1>5 DEF SendTracked
  <2> QED
    BY <2>1, <2>2, TrackSettles
<1>6. ASSUME Intercept(r) \/ \E b \in Accounts, g \in Hashes, k \in Kinds, v \in Values,
                                f \in FeeLimits : CheckSend(r, b, g, k, v, f)
      PROVE  Settles
  BY <1>1, <1>6 DEF Intercept, CheckSend, storeVars
<1> QED
  BY <1>2, <1>3, <1>4, <1>5, <1>6 DEF RequestStep

\* Only a goroutine with a success settles, and what it debits is tracked.
LEMMA TrackerSettles ==
    ASSUME IInv, "settle" \notin Faults, NEW h \in Hashes, TrackerStep(h) PROVE Settles
<1>1. ASSUME NEW db \in StoreResults, TrackerUpdate(h, db) PROVE Settles
  BY <1>1, UpdateSettles DEF TrackerUpdate
<1>2. ASSUME NEW m, NEW db \in StoreResults,
             removePayment(IF Untracks(h, m, db) THEN {h} ELSE {}, "FAILED")
      PROVE  Settles
  <2> DEFINE S == IF Untracks(h, m, db) THEN {h} ELSE {}
  <2>1. removePayment(S, "FAILED") /\ S \in SUBSET Hashes /\ \A g \in S : pending[g] # NoAcct
    BY <1>2 DEF Untracks
  <2> HIDE DEF S
  <2> QED
    BY <2>1, RemovedSettles
<1>3. ASSUME NEW db \in StoreResults, TrackerNotInitiated(h, db) PROVE Settles
  BY <1>2, <1>3 DEF TrackerNotInitiated
<1>4. ASSUME NEW db \in StoreResults, NEW m \in stale[h], StaleUpdate(h, m, db) PROVE Settles
  <2>1. CASE m = "notInitiated"
    BY <1>2, <1>4, <2>1 DEF StaleUpdate
  <2>2. CASE m # "notInitiated"
    <3>1. m \in {"SUCCEEDED", "FAILED"}
      BY <2>2 DEF IInv, TypeOK
    <3> QED
      BY <1>4, <2>2, <3>1, UpdateSettles DEF StaleUpdate
  <2> QED
    BY <2>1, <2>2
<1>5. ASSUME TrackerError(h) \/ TrackerQuit(h) \/ \E m \in stale[h] : StaleExit(h, m)
      PROVE  Settles
  BY <1>5, SettlesNothing DEF TrackerError, TrackerQuit, StaleExit, storeVars
<1> QED
  BY <1>1, <1>3, <1>4, <1>5 DEF TrackerStep

\* RemoveAccount settles nothing in the accounts that stay.
LEMMA RemoveAccountSettles ==
    ASSUME IInv, "settle" \notin Faults, NEW a \in Accounts, NEW S \in SUBSET Hashes,
           NEW db \in StoreResults, RemoveAccount(a, S, db)
    PROVE  Settles
<1>1. CASE db = "ok"
  <2>1. /\ accts' = accts \ {a} /\ accts \subseteq Accounts
        /\ \A b \in Accounts \ {a} : payments'[b] = payments[b]
    BY <1>1 DEF RemoveAccount, IInv, TypeOK
  <2> QED
    BY <2>1, SettlesNothing
<1>2. CASE db # "ok"
  <2>1. removePayment(S, "FAILED") /\ \A h \in S : pending[h] # NoAcct
    BY <1>2, AccountsAssumption DEF RemoveAccount, NoAcct
  <2> QED
    BY <2>1, RemovedSettles
<1> QED
  BY <1>1, <1>2

(***************************************************************************)
(* Settling is final and debits once, for every number of accounts,        *)
(* requests and crashes, as long as the status update that follows a       *)
(* debit (paymentUpdate's call of removePayment) does not fail.            *)
(***************************************************************************)
THEOREM DebitOnceIfUpdatesSucceed ==
    ASSUME "settle" \notin Faults PROVE Spec => DebitOnce
<1>1. IInv /\ [Next]_vars => [Settles]_vars
  <2> SUFFICES ASSUME IInv, Next PROVE Settles \/ UNCHANGED vars
    OBVIOUS
  <2>1. ASSUME UNCHANGED payments PROVE Settles
    BY <2>1, SettlesNothing
  <2>2. CASE LndStep \/ Crash
    BY <2>1, <2>2 DEF LndStep, LndStart, LndRefuse, LndResolve, Crash, storeVars
  <2>3. ASSUME NEW a \in Accounts, AdminStep(a) PROVE Settles
    BY <2>1, <2>3, RemoveAccountSettles
       DEF AdminStep, NewAccount, UpdateBalance, CreditAccount, DebitAccount, AdjustBalance,
           UpdateExpiry, Expire
  <2>4. CASE StartStep
    <3>1. ASSUME NEW p \in startQ, NEW db \in StoreResults, NEW router \in RouterResults,
                 StartTrack(p, db, router)
          PROVE  Settles
      <4>1. p.acct \in Accounts /\ p.hash \in Hashes /\ p.amt \in Nat
        BY DEF IInv, TypeOK
      <4> QED
        BY <3>1, <4>1, TrackSettles DEF StartTrack
    <3> QED
      BY <2>1, <2>4, <3>1 DEF StartStep, Start, StartDone, storeVars
  <2> QED
    BY <2>2, <2>3, <2>4, RequestSettles, TrackerSettles DEF Next
<1> QED
  BY <1>1, InductiveInvariant, PTL DEF Spec, DebitOnce, Settles
=============================================================================
