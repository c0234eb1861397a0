----------------------- MODULE AccountPaymentsResume ------------------------
(***************************************************************************)
(* What the list of payments of an account keeps through failed writes,    *)
(* lost streams and restarts: who owns an entry, and that the payments     *)
(* which lnd is making stay in it. These depend on some kinds of fault     *)
(* being absent; each theorem names the ones it excludes.                  *)
(***************************************************************************)
EXTENDS AccountPaymentsProofs

\* The backends, in turn, of each leaf below that names none of its own.
USE ZenonT(20), SMTT(20), Z3T(20)

\* Request r pays hash h for account a.
RequestOf(r, a, h) == req[r].st # "new" /\ req[r].acct = a /\ req[r].hash = h

\* What lnd has taken up it does not refuse.
OutcomeInv ==
    \A h \in Hashes : lnd[h].req # NoReq =>
        /\ req[lnd[h].req].st \notin {"new", "checked", "accepted", "refused", "payerr"}
        /\ req[lnd[h].req].st = "replying" => req[lnd[h].req].resp # "ERROR"

\* No other request has used the hash of r.
Sole(r) == \A q \in Reqs : req[q].st # "new" /\ req[q].hash = req[r].hash => q = r

\* The only request for a hash keeps its entry once lnd may pay for it.
SoleInv ==
    \A r \in Reqs :
        /\ req[r].st = "accepted" \/ (req[r].st # "new" /\ lnd[req[r].hash].req = r)
        /\ Sole(r) /\ req[r].acct \in accts
        => Known(payments[req[r].acct][req[r].hash])

\* When no two accounts pay the same hash: what is stored or resumed for an
\* account was requested by it, and by no other.
OwnInv ==
    /\ \A p, q \in Reqs : req[p].st # "new" /\ req[q].st # "new" /\ req[p].hash = req[q].hash
                          => req[p].acct = req[q].acct
    /\ \A a \in Accounts, h \in Hashes :
          Known(payments[a][h]) => \E r \in Reqs : RequestOf(r, a, h)
    /\ \A p \in startQ : \E r \in Reqs : RequestOf(r, p.acct, p.hash)

\* When accounts are not removed either, no goroutine outlives the tracking of
\* its payment.
GoroutineInv ==
    /\ gone = {}
    /\ \A h \in Hashes : stale[h] = {} /\ (tracker[h] # "none" => pending[h] # NoAcct)

\* When lnd takes up nothing after a restart, the requests it still can take
\* up have registered values.
AcceptedInv ==
    \A r \in Reqs : req[r].st = "accepted" =>
        /\ phase # "down" => r \in reqVals
        /\ inflightState(payments[req[r].acct][req[r].hash].status)

\* What lnd is paying or has paid is in the list of the payer, not as failed; no
\* goroutine holds another verdict, no other live request is for it.
BusyInv ==
    \A h \in Hashes : LndBusy(h) =>
        /\ Known(PayerEntry(h)) /\ PayerEntry(h).status # "FAILED"
        /\ tracker[h] \notin {"FAILED", "notInitiated"}
        /\ \A r \in Reqs : Live(r) /\ req[r].hash = h => lnd[h].req = r

\* litd disables itself only on the way to being stopped.
EnabledInv == phase \in {"starting", "up"} => enabled
-----------------------------------------------------------------------------
\* What a request keeps when it moves on.
LEMMA AnsweredFields ==
    ASSUME NEW q, NEW st, NEW resp, NEW amt
    PROVE  LET p == Answered(q, st, resp, amt) IN
           /\ p.st = st /\ p.acct = q.acct /\ p.hash = q.hash /\ p.resp = resp
           /\ p.kind = q.kind /\ p.val = q.val /\ p.fee = q.fee /\ p.amt = amt
  BY DEF Answered

\* What a write leaves in the entry it writes, and the others.
LEMMA EntryWritten ==
    ASSUME NEW A, NEW H, NEW E, NEW p \in [A -> [H -> E]], NEW b \in A, NEW g \in H, NEW x,
           NEW q, q = [p EXCEPT ![b][g] = x]
    PROVE  /\ q[b][g] = x
           /\ \A a \in A, h \in H : a # b \/ h # g => q[a][h] = p[a][h]
<1>1. p[b] \in [H -> E]
  OBVIOUS
<1>2. q[b] = [p[b] EXCEPT ![g] = x] /\ \A a \in A : a # b => q[a] = p[a]
  OBVIOUS
<1>3. q[b][g] = x /\ \A h \in H : h # g => q[b][h] = p[b][h]
  BY <1>1, <1>2
<1> QED
  BY <1>2, <1>3

\* A request keeps what it asks for; only CheckSend begins one.
LEMMA RequestFrame ==
    ASSUME IInv, [Next]_vars, NEW r \in Reqs
    PROVE  /\ req[r].st # "new" =>
                 /\ req'[r].st # "new" /\ req'[r].acct = req[r].acct /\ req'[r].hash = req[r].hash
                 /\ req'[r].kind = req[r].kind /\ req'[r].val = req[r].val /\ req'[r].fee = req[r].fee
           /\ req[r].st = "new" /\ req'[r].st # "new" =>
                 \E a \in Accounts, h \in Hashes, k \in Kinds, v \in Values, f \in FeeLimits :
                    CheckSend(r, a, h, k, v, f)
           /\ req[r].st # "accepted" /\ req'[r].st = "accepted" =>
                 \E db \in StoreResults : AssociatePayment(r, db)
<1> DEFINE Goal == /\ req[r].st # "new" =>
                         /\ req'[r].st # "new" /\ req'[r].acct = req[r].acct /\ req'[r].hash = req[r].hash
                         /\ req'[r].kind = req[r].kind /\ req'[r].val = req[r].val /\ req'[r].fee = req[r].fee
                   /\ req[r].st = "new" /\ req'[r].st # "new" =>
                         \E a \in Accounts, h \in Hashes, k \in Kinds, v \in Values, f \in FeeLimits :
                            CheckSend(r, a, h, k, v, f)
                   /\ req[r].st # "accepted" /\ req'[r].st = "accepted" =>
                         \E db \in StoreResults : AssociatePayment(r, db)
<1> SUFFICES Goal
  OBVIOUS
<1>0. req \in [Reqs -> Requests]
  BY DEF IInv, TypeOK
<1>1. ASSUME UNCHANGED req PROVE Goal
  BY <1>1
<1>2. ASSUME NEW q \in Reqs, NEW st, NEW resp, NEW amt, req[q].st # "new",
             st # "new", st # "accepted",
             req' = [req EXCEPT ![q] = Answered(@, st, resp, amt)]
      PROVE  Goal
  <2>1. req'[q] = Answered(req[q], st, resp, amt) /\ (r # q => req'[r] = req[r])
    BY <1>0, <1>2
  <2> QED
    BY <1>2, <2>1, AnsweredFields, SMTT(20), Z3T(20)
<1>3. ASSUME NEW q \in Reqs, RequestStep(q) PROVE Goal
  <2>1. ASSUME NEW a \in Accounts, NEW h \in Hashes, NEW k \in Kinds, NEW v \in Values,
               NEW f \in FeeLimits, CheckSend(q, a, h, k, v, f)
        PROVE  Goal
    <3>1. /\ req[q].st = "new" /\ req'[q].st = "checked"
          /\ r # q => req'[r] = req[r]
      BY <1>0, <2>1 DEF CheckSend, Request
    <3> QED
      BY <2>1, <3>1
  <2>2. ASSUME Intercept(q) PROVE Goal
    <3>1. PICK answer \in Answers(q) :
              \/ req' = [req EXCEPT ![q] = Answered(@, "replying", answer.status, answer.amt)]
              \/ req' = [req EXCEPT ![q] = Answered(@, "done", @.resp, @.amt)]
      BY <2>2 DEF Intercept, Moved
    <3>2. req[q].st # "new"
      BY <2>2 DEF Intercept
    <3> HIDE DEF Goal
    <3> QED
      BY <1>2, <3>1, <3>2
  <2>3. ASSUME NEW db \in StoreResults, AssociatePayment(q, db) PROVE Goal
    <3>1. PICK st \in {"accepted", "done"} : req' = [req EXCEPT ![q] = Answered(@, st, @.resp, @.amt)]
      BY <2>3 DEF AssociatePayment, Moved
    <3>2. /\ req'[q] = Answered(req[q], st, req[q].resp, req[q].amt) /\ req[q].st = "checked"
          /\ r # q => req'[r] = req[r]
      BY <1>0, <2>3, <3>1 DEF AssociatePayment
    <3> QED
      BY <2>3, <3>1, <3>2, AnsweredFields, SMTT(20), Z3T(20)
  <2>4. ASSUME NEW db \in StoreResults, PaymentErrored(q, db) PROVE Goal
    BY <1>2, <2>4 DEF PaymentErrored, Replied
  <2>5. ASSUME NEW db \in StoreResults, SendFailed(q, db) PROVE Goal
    BY <1>2, <2>5 DEF SendFailed, Replied
  <2>6. ASSUME NEW db \in StoreResults, NEW router \in RouterResults, SendTracked(q, db, router)
        PROVE  Goal
    BY <1>2, <2>6 DEF SendTracked, Replied
  <2> HIDE DEF Goal
  <2> QED
    BY <1>3, <2>1, <2>2, <2>3, <2>4, <2>5, <2>6 DEF RequestStep
<1>4. CASE LndStep
  <2>1. ASSUME NEW q \in Reqs, LndStart(q) PROVE Goal
    BY <1>2, <2>1 DEF LndStart, Moved
  <2>2. ASSUME NEW q \in Reqs, LndRefuse(q) PROVE Goal
    BY <1>2, <2>2 DEF LndRefuse, Moved
  <2>3. ASSUME NEW h, NEW ok, NEW fee, LndResolve(h, ok, fee) PROVE Goal
    BY <1>1, <2>3 DEF LndResolve
  <2> HIDE DEF Goal
  <2> QED
    BY <1>4, <2>1, <2>2, <2>3 DEF LndStep
<1>5. CASE Crash \/ Start
  <2>1. /\ req'[r] = req[r] \/ req'[r] = Answered(req[r], "done", "none", 0)
                            \/ req'[r] = Answered(req[r], "done", req[r].resp, req[r].amt)
        /\ req[r].st = "new" => req'[r] = req[r]
    BY <1>5 DEF Crash, Start, Moved
  <2> QED
    BY <2>1, AnsweredFields, SMTT(20), Z3T(20)
<1>6. ASSUME NEW h \in Hashes, TrackerStep(h) PROVE Goal
  BY <1>1, <1>6 DEF TrackerStep, TrackerUpdate, TrackerNotInitiated, StaleUpdate, StaleExit,
              TrackerError, TrackerQuit
<1>7. ASSUME NEW a \in Accounts, AdminStep(a) PROVE Goal
  BY <1>1, <1>7 DEF AdminStep, NewAccount, UpdateBalance, CreditAccount, DebitAccount, AdjustBalance,
              UpdateExpiry, Expire, RemoveAccount
<1>8. CASE StartStep
  BY <1>1, <1>5, <1>8 DEF StartStep, StartTrack, StartDone
<1>9. CASE UNCHANGED vars
  BY <1>1, <1>9 DEF vars
<1> HIDE DEF Goal
<1> QED
  BY <1>3, <1>4, <1>5, <1>6, <1>7, <1>8, <1>9 DEF Next

\* lnd refuses a request it has not taken up, and then does not take it up.
LEMMA OutcomeStep == ASSUME IInv, OutcomeInv, [Next]_vars PROVE OutcomeInv'
<1> DEFINE Taken(q) == /\ q.st \notin {"new", "checked", "accepted", "refused", "payerr"}
                       /\ q.st = "replying" => q.resp # "ERROR"
<1>0. /\ req \in [Reqs -> Requests]
      /\ \A h \in Hashes : lnd[h].req \in Reqs \cup {NoReq}
      /\ \A h \in Hashes : lnd[h].req # NoReq => Taken(req[lnd[h].req])
  BY DEF IInv, TypeOK, OutcomeInv
<1>1. ASSUME \A h \in Hashes : lnd'[h].req = lnd[h].req,
             \A r \in Reqs : req'[r] = req[r] \/ Taken(req'[r]) \/ ~Taken(req[r])
      PROVE  OutcomeInv'
  <2> HIDE DEF Taken
  <2>1. \A h \in Hashes : lnd'[h].req # NoReq => Taken(req'[lnd'[h].req])
    BY <1>0, <1>1
  <2> QED
    BY <2>1 DEF OutcomeInv, Taken
<1>2. ASSUME UNCHANGED lnd, NEW q \in Reqs, NEW st, NEW resp, NEW amt,
             ~Taken(req[q]) \/ (st = "replying" /\ resp # "ERROR") \/ st = "done",
             req' = [req EXCEPT ![q] = Answered(@, st, resp, amt)]
      PROVE  OutcomeInv'
  <2>1. req'[q].st = st /\ req'[q].resp = resp /\ \A r \in Reqs : r # q => req'[r] = req[r]
    BY <1>0, <1>2, AnsweredFields, SMTT(20), Z3T(20)
  <2>2. \A r \in Reqs : req'[r] = req[r] \/ Taken(req'[r]) \/ ~Taken(req[r])
    BY <1>2, <2>1
  <2> HIDE DEF Taken
  <2> QED
    BY <1>1, <1>2, <2>2
<1>3. ASSUME NEW q \in Reqs, RequestStep(q) PROVE OutcomeInv'
  <2>1. ASSUME NEW a \in Accounts, NEW h \in Hashes, NEW k \in Kinds, NEW v \in Values,
               NEW f \in FeeLimits, CheckSend(q, a, h, k, v, f)
        PROVE  OutcomeInv'
    <3>1. ~Taken(req[q]) /\ UNCHANGED lnd /\ \A r \in Reqs : r # q => req'[r] = req[r]
      BY <1>0, <2>1 DEF CheckSend
    <3> HIDE DEF Taken
    <3> QED
      BY <1>1, <3>1
  <2>2. ASSUME Intercept(q) PROVE OutcomeInv'
    <3>1. PICK answer \in Answers(q) :
              \/ req' = [req EXCEPT ![q] = Answered(@, "replying", answer.status, answer.amt)]
              \/ req' = [req EXCEPT ![q] = Answered(@, "done", @.resp, @.amt)]
      BY <2>2 DEF Intercept, Moved
    <3>2. UNCHANGED lnd /\ req[q].st \in {"started", "refused", "payerr"}
      BY <2>2 DEF Intercept
    <3>3. ~Taken(req[q]) \/ answer.status # "ERROR"
      BY <3>2, SMTT(20), Z3T(20) DEF Answers, Answer, PaymentAnswers, ResponseAnswers
    <3> HIDE DEF Taken
    <3>4. CASE req' = [req EXCEPT ![q] = Answered(@, "replying", answer.status, answer.amt)]
      BY <1>2, <3>2, <3>3, <3>4
    <3>5. CASE req' = [req EXCEPT ![q] = Answered(@, "done", @.resp, @.amt)]
      BY <1>2, <3>2, <3>5
    <3> QED
      BY <3>1, <3>4, <3>5
  <2>3. ASSUME NEW db \in StoreResults, AssociatePayment(q, db) PROVE OutcomeInv'
    <3>1. ~Taken(req[q]) /\ UNCHANGED lnd
      BY <2>3 DEF AssociatePayment
    <3> HIDE DEF Taken
    <3> QED
      BY <1>2, <2>3, <3>1 DEF AssociatePayment, Moved
  <2>4. ASSUME Replied(q), UNCHANGED lnd PROVE OutcomeInv'
    BY <1>2, <2>4 DEF Replied
  <2> QED
    BY <1>3, <2>1, <2>2, <2>3, <2>4 DEF RequestStep, PaymentErrored, SendFailed, SendTracked
<1>4. CASE LndStep
  <2>1. ASSUME NEW q \in Reqs, LndStart(q) PROVE OutcomeInv'
    <3>1. /\ lnd' = [lnd EXCEPT ![req[q].hash] = [st |-> "inflight", req |-> q, amt |-> 0]]
          /\ req'[q].st = "started" /\ \A r \in Reqs : r # q => req'[r] = req[r]
      BY <1>0, <2>1, AnsweredFields, SMTT(20), Z3T(20) DEF LndStart, Moved
    <3>2. \A h \in Hashes : lnd'[h].req = lnd[h].req \/ lnd'[h].req = q
      BY <3>1 DEF IInv, TypeOK
    <3>3. \A h \in Hashes : lnd'[h].req # NoReq => Taken(req'[lnd'[h].req])
      BY <1>0, <3>1, <3>2, SMTT(20), Z3T(20)
    <3> QED
      BY <3>3 DEF OutcomeInv
  <2>2. ASSUME NEW q \in Reqs, LndRefuse(q) PROVE OutcomeInv'
    <3>1. ~Taken(req[q]) /\ UNCHANGED lnd
      BY <2>2 DEF LndRefuse
    <3> HIDE DEF Taken
    <3> QED
      BY <1>2, <2>2, <3>1 DEF LndRefuse, Moved
  <2>3. ASSUME NEW g \in Hashes, NEW ok \in BOOLEAN, NEW fee, LndResolve(g, ok, fee)
        PROVE  OutcomeInv'
    <3>1. \A h \in Hashes : lnd'[h].req = lnd[h].req
      BY <2>3 DEF LndResolve, IInv, TypeOK
    <3> QED
      BY <1>1, <2>3, <3>1 DEF LndResolve
  <2> QED
    BY <1>4, <2>1, <2>2, <2>3 DEF LndStep
<1>5. CASE Crash \/ Start
  <2>1. UNCHANGED lnd /\ \A r \in Reqs : \/ req'[r] = req[r]
                                         \/ req'[r] = Answered(req[r], "done", "none", 0)
                                         \/ req'[r] = Answered(req[r], "done", req[r].resp, req[r].amt)
    BY <1>5 DEF Crash, Start, Moved
  <2>2. \A r \in Reqs : req'[r] = req[r] \/ Taken(req'[r]) \/ ~Taken(req[r])
    BY <2>1, AnsweredFields, SMTT(20), Z3T(20)
  <2> HIDE DEF Taken
  <2> QED
    BY <1>1, <2>1, <2>2
<1>6. ASSUME UNCHANGED <<req, lnd>> PROVE OutcomeInv'
  BY <1>1, <1>6
<1>7. ASSUME NEW h \in Hashes, TrackerStep(h) PROVE OutcomeInv'
  BY <1>6, <1>7 DEF TrackerStep, TrackerUpdate, TrackerNotInitiated, StaleUpdate, StaleExit,
                    TrackerError, TrackerQuit
<1>8. ASSUME NEW a \in Accounts, AdminStep(a) PROVE OutcomeInv'
  BY <1>6, <1>8 DEF AdminStep, NewAccount, UpdateBalance, CreditAccount, DebitAccount,
                    AdjustBalance, UpdateExpiry, Expire, RemoveAccount
<1>9. CASE StartStep
  BY <1>5, <1>6, <1>9, SMTT(20), Z3T(20) DEF StartStep, StartTrack, StartDone
<1>10. CASE UNCHANGED vars
  BY <1>6, <1>10 DEF vars
<1> QED
  BY <1>3, <1>4, <1>5, <1>7, <1>8, <1>9, <1>10 DEF Next

\* The entries removePayment and paymentUpdate write were known before.
LEMMA RemovedKnown ==
    ASSUME IInv, NEW S \in SUBSET Hashes, \A h \in S : pending[h] # NoAcct,
           removePayment(S, "FAILED"), NEW a \in Accounts, NEW h \in Hashes
    PROVE  Known(payments'[a][h]) <=> Known(payments[a][h])
<1>1. /\ h \notin S \/ pending[h] # a => payments'[a][h] = payments[a][h]
      /\ h \in S => payments'[pending[h]][h].status = "FAILED"
  BY RemovedFacts, SMTT(20), Z3T(20)
<1>2. h \in S => Known(payments[pending[h]][h])
  BY DEF IInv, TrackedReserved, inflightState, successState, Known
<1> QED
  BY <1>1, <1>2 DEF Known

\* Neither does paymentUpdate make an entry known or forget one.
LEMMA UpdateKnown ==
    ASSUME IInv, NEW g \in Hashes, NEW m \in {"SUCCEEDED", "FAILED"}, NEW db \in StoreResults,
           paymentUpdate(g, m, db), NEW a \in Accounts, NEW h \in Hashes
    PROVE  Known(payments'[a][h]) <=> Known(payments[a][h])
<1>1. CASE Debits(g, m, db)
  <2>1. /\ pending[g] \in Accounts /\ inflightState(payments[pending[g]][g].status)
        /\ payments' = [payments EXCEPT ![pending[g]][g] =
                            [status |-> "SUCCEEDED", amt |-> lnd[g].amt]]
    BY <1>1, DebitFacts
  <2>2. /\ a # pending[g] \/ h # g => payments'[a][h] = payments[a][h]
        /\ payments'[pending[g]][g].status = "SUCCEEDED"
    BY <2>1 DEF IInv, TypeOK
  <2> QED
    BY <2>1, <2>2 DEF Known, inflightState
<1>2. CASE ~Debits(g, m, db)
  <2> DEFINE S == IF Untracks(g, m, db) THEN {g} ELSE {}
  <2>1. removePayment(S, "FAILED") /\ S \in SUBSET Hashes /\ \A i \in S : pending[i] # NoAcct
    BY <1>2 DEF paymentUpdate, Untracks
  <2> HIDE DEF S
  <2> QED
    BY <2>1, RemovedKnown
<1> QED
  BY <1>1, <1>2

\* TrackPayment may make the entry known that it is about, and no other.
LEMMA TrackKnown ==
    ASSUME IInv, NEW b \in Accounts, NEW g \in Hashes, NEW amt \in Nat, NEW db, NEW router,
           TrackEffect(b, g, amt, TrackResult(b, g, amt, db, router)),
           NEW a \in Accounts, NEW h \in Hashes
    PROVE  /\ Known(payments[a][h]) => Known(payments'[a][h])
           /\ Known(payments'[a][h]) => Known(payments[a][h]) \/ (a = b /\ h = g)
<1>1. \/ payments'[a][h] = payments[a][h]
      \/ a = b /\ h = g /\ payments'[a][h].status = "UNKNOWN"
  BY TrackFacts, SMTT(20), Z3T(20)
<1> QED
  BY <1>1 DEF Known

\* The entries a request writes are its own; only an error deletes one.
LEMMA RequestKnown ==
    ASSUME IInv, NEW r \in Reqs, RequestStep(r), NEW a \in Accounts, NEW h \in Hashes
    PROVE  /\ Known(payments[a][h]) =>
                 \/ Known(payments'[a][h])
                 \/ RequestOf(r, a, h) /\ \E db \in StoreResults : PaymentErrored(r, db)
           /\ Known(payments'[a][h]) => Known(payments[a][h]) \/ RequestOf(r, a, h)
<1> DEFINE Goal == /\ Known(payments[a][h]) =>
                         \/ Known(payments'[a][h])
                         \/ RequestOf(r, a, h) /\ \E db \in StoreResults : PaymentErrored(r, db)
                   /\ Known(payments'[a][h]) => Known(payments[a][h]) \/ RequestOf(r, a, h)
<1> SUFFICES Goal
  OBVIOUS
<1>0. /\ payments \in [Accounts -> [Hashes -> PaymentEntry]]
      /\ req[r].st # "new" => /\ req[r].acct \in Accounts /\ req[r].hash \in Hashes
                              /\ req[r].amt \in Nat
  BY DEF IInv, TypeOK, ReqInv, Requests
<1>1. ASSUME payments'[a][h] = payments[a][h] PROVE Goal
  BY <1>1
<1>2. ASSUME NEW db \in StoreResults, AssociatePayment(r, db) PROVE Goal
  <2>1. \/ payments'[a][h] = payments[a][h]
        \/ RequestOf(r, a, h) /\ payments'[a][h].status = "UNKNOWN"
    BY <1>0, <1>2 DEF AssociatePayment, RequestOf, UpsertEntry
  <2> QED
    BY <2>1 DEF Known
<1>3. ASSUME NEW db \in StoreResults, PaymentErrored(r, db) PROVE Goal
  <2>1. \/ payments'[a][h] = payments[a][h]
        \/ RequestOf(r, a, h) /\ payments'[a][h] = NotAssociated
    BY <1>0, <1>3 DEF PaymentErrored, RequestOf
  <2> QED
    BY <1>3, <2>1 DEF Known, NotAssociated
<1>4. ASSUME NEW db \in StoreResults, SendFailed(r, db) PROVE Goal
  <2> DEFINE S == IF pending[req[r].hash] # NoAcct /\ db = "ok" THEN {req[r].hash} ELSE {}
  <2>1. removePayment(S, "FAILED") /\ S \in SUBSET Hashes /\ \A g \in S : pending[g] # NoAcct
    BY <1>0, <1>4 DEF SendFailed
  <2> HIDE DEF S
  <2> QED
    BY <2>1, RemovedKnown
<1>5. ASSUME NEW db \in StoreResults, NEW router \in RouterResults, SendTracked(r, db, router)
      PROVE  Goal
  <2>1. /\ TrackEffect(req[r].acct, req[r].hash, req[r].amt,
                       TrackResult(req[r].acct, req[r].hash, req[r].amt, db, router))
        /\ req[r].st # "new"
    BY <1>5 DEF SendTracked
  <2> QED
    BY <1>0, <2>1, TrackKnown DEF RequestOf
<1> HIDE DEF Goal
<1>6. ASSUME Intercept(r) \/ \E b \in Accounts, g \in Hashes, k \in Kinds, v \in Values,
                                f \in FeeLimits : CheckSend(r, b, g, k, v, f)
      PROVE  Goal
  BY <1>1, <1>6 DEF Intercept, CheckSend, storeVars
<1> QED
  BY <1>2, <1>3, <1>4, <1>5, <1>6 DEF RequestStep

\* The same for all steps: an entry goes with its account or by an error, and
\* comes from a request, at a restart through what Start has read.
LEMMA EntryFrame ==
    ASSUME IInv, [Next]_vars, NEW a \in Accounts, NEW h \in Hashes
    PROVE  /\ Known(payments[a][h]) =>
                 \/ Known(payments'[a][h]) \/ a \notin accts'
                 \/ \E r \in Reqs : /\ RequestOf(r, a, h)
                                    /\ \E db \in StoreResults : PaymentErrored(r, db)
           /\ Known(payments'[a][h]) =>
                 \/ Known(payments[a][h]) \/ \E r \in Reqs : RequestOf(r, a, h)
                 \/ \E p \in startQ : p.acct = a /\ p.hash = h
<1> DEFINE Goal == /\ Known(payments[a][h]) =>
                         \/ Known(payments'[a][h]) \/ a \notin accts'
                         \/ \E r \in Reqs : /\ RequestOf(r, a, h)
                                            /\ \E db \in StoreResults : PaymentErrored(r, db)
                   /\ Known(payments'[a][h]) =>
                         \/ Known(payments[a][h]) \/ \E r \in Reqs : RequestOf(r, a, h)
                         \/ \E p \in startQ : p.acct = a /\ p.hash = h
<1> SUFFICES Goal
  OBVIOUS
<1>1. ASSUME Known(payments'[a][h]) <=> Known(payments[a][h]) PROVE Goal
  BY <1>1
<1>2. ASSUME NEW r \in Reqs, RequestStep(r) PROVE Goal
  BY <1>2, RequestKnown
<1>3. ASSUME NEW db \in StoreResults, NEW m, NEW g \in Hashes,
             removePayment(IF Untracks(g, m, db) THEN {g} ELSE {}, "FAILED")
      PROVE  Goal
  <2> DEFINE S == IF Untracks(g, m, db) THEN {g} ELSE {}
  <2>1. removePayment(S, "FAILED") /\ S \in SUBSET Hashes /\ \A i \in S : pending[i] # NoAcct
    BY <1>3 DEF Untracks
  <2> HIDE DEF S, Goal
  <2> QED
    BY <1>1, <2>1, RemovedKnown
<1>4. ASSUME NEW g \in Hashes, TrackerStep(g) PROVE Goal
  <2> HIDE DEF Goal
  <2>1. ASSUME NEW db \in StoreResults, TrackerUpdate(g, db) PROVE Goal
    BY <1>1, <2>1, UpdateKnown DEF TrackerUpdate
  <2>2. ASSUME NEW db \in StoreResults, TrackerNotInitiated(g, db) PROVE Goal
    BY <1>3, <2>2 DEF TrackerNotInitiated
  <2>3. ASSUME NEW db \in StoreResults, NEW m \in stale[g], StaleUpdate(g, m, db) PROVE Goal
    <3>1. CASE m = "notInitiated"
      BY <1>3, <2>3, <3>1 DEF StaleUpdate
    <3>2. CASE m # "notInitiated"
      <4>1. m \in {"SUCCEEDED", "FAILED"} /\ paymentUpdate(g, m, db)
        BY <2>3, <3>2 DEF IInv, TypeOK, StaleUpdate
      <4> QED
        BY <1>1, <4>1, UpdateKnown
    <3> QED
      BY <3>1, <3>2
  <2>4. ASSUME TrackerError(g) \/ TrackerQuit(g) \/ \E m \in stale[g] : StaleExit(g, m)
        PROVE  Goal
    BY <1>1, <2>4 DEF TrackerError, TrackerQuit, StaleExit, storeVars
  <2> QED
    BY <1>4, <2>1, <2>2, <2>3, <2>4 DEF TrackerStep
<1>5. ASSUME NEW b \in Accounts, NEW S \in SUBSET Hashes, NEW db \in StoreResults,
             RemoveAccount(b, S, db)
      PROVE  Goal
  <2>1. CASE db = "ok"
    <3>1. IF a = b THEN a \notin accts' /\ payments'[a][h] = NotAssociated
                   ELSE payments'[a][h] = payments[a][h]
      BY <1>5, <2>1, SMTT(20), Z3T(20) DEF RemoveAccount, IInv, TypeOK
    <3> QED
      BY <3>1, SMTT(20), Z3T(20) DEF NotAssociated, Known
  <2>2. CASE db # "ok"
    <3>1. removePayment(S, "FAILED") /\ \A g \in S : pending[g] # NoAcct
      BY <1>5, <2>2, AccountsAssumption DEF RemoveAccount, NoAcct
    <3> HIDE DEF Goal
    <3> QED
      BY <1>1, <3>1, RemovedKnown
  <2> QED
    BY <2>1, <2>2
<1>6. ASSUME NEW p \in startQ, NEW db \in StoreResults, NEW router \in RouterResults,
             StartTrack(p, db, router)
      PROVE  Goal
  <2>1. p.acct \in Accounts /\ p.hash \in Hashes /\ p.amt \in Nat
    BY DEF IInv, TypeOK
  <2>2. TrackEffect(p.acct, p.hash, p.amt, TrackResult(p.acct, p.hash, p.amt, db, router))
    BY <1>6 DEF StartTrack
  <2> QED
    BY <2>1, <2>2, TrackKnown, SMTT(20), Z3T(20)
<1> HIDE DEF Goal
<1>7. ASSUME UNCHANGED payments PROVE Goal
  BY <1>1, <1>7
<1>8. ASSUME NEW b \in Accounts, AdminStep(b) PROVE Goal
  BY <1>5, <1>7, <1>8 DEF AdminStep, NewAccount, UpdateBalance, CreditAccount, DebitAccount,
                          AdjustBalance, UpdateExpiry, Expire
<1>9. CASE LndStep \/ Crash
  BY <1>7, <1>9 DEF LndStep, LndStart, LndRefuse, LndResolve, Crash, storeVars
<1>10. CASE StartStep
  BY <1>6, <1>7, <1>10 DEF StartStep, Start, StartDone, storeVars
<1>11. CASE UNCHANGED vars
  BY <1>7, <1>11 DEF vars, storeVars
<1> QED
  BY <1>2, <1>4, <1>8, <1>9, <1>10, <1>11 DEF Next

\* lnd's payment of a hash changes when it starts one or when it ends.
LEMMA LndFrame ==
    ASSUME IInv, [Next]_vars, NEW h \in Hashes
    PROVE  \/ lnd'[h] = lnd[h]
           \/ /\ lnd'[h].req = lnd[h].req /\ lnd[h].st = "inflight"
              /\ lnd'[h].st \in {"succeeded", "failed"}
           \/ \E r \in Reqs : LndStart(r) /\ req[r].hash = h /\ lnd'[h].req = r
<1> DEFINE Goal == \/ lnd'[h] = lnd[h]
                   \/ /\ lnd'[h].req = lnd[h].req /\ lnd[h].st = "inflight"
                      /\ lnd'[h].st \in {"succeeded", "failed"}
                   \/ \E r \in Reqs : LndStart(r) /\ req[r].hash = h /\ lnd'[h].req = r
<1> SUFFICES Goal
  OBVIOUS
<1>1. ASSUME UNCHANGED lnd PROVE Goal
  BY <1>1
<1>2. ASSUME NEW r \in Reqs, LndStart(r) PROVE Goal
  <2>1. lnd'[h] = lnd[h] \/ (req[r].hash = h /\ lnd'[h] = [st |-> "inflight", req |-> r, amt |-> 0])
    BY <1>2 DEF LndStart, IInv, TypeOK
  <2> QED
    BY <1>2, <2>1, SMTT(20), Z3T(20)
<1>3. ASSUME NEW g \in Hashes, NEW ok \in BOOLEAN, NEW fee, LndResolve(g, ok, fee) PROVE Goal
  BY <1>3 DEF LndResolve, IInv, TypeOK
<1> HIDE DEF Goal
<1>4. ASSUME NEW r \in Reqs, RequestStep(r) PROVE Goal
  BY <1>1, <1>4 DEF RequestStep, CheckSend, Intercept, AssociatePayment, PaymentErrored,
                    SendFailed, SendTracked
<1>5. ASSUME NEW g \in Hashes, TrackerStep(g) PROVE Goal
  BY <1>1, <1>5 DEF TrackerStep, TrackerUpdate, TrackerNotInitiated, StaleUpdate, StaleExit,
                    TrackerError, TrackerQuit
<1>6. ASSUME NEW a \in Accounts, AdminStep(a) PROVE Goal
  BY <1>1, <1>6 DEF AdminStep, NewAccount, UpdateBalance, CreditAccount, DebitAccount,
                    AdjustBalance, UpdateExpiry, Expire, RemoveAccount
<1>7. CASE LndStep
  BY <1>1, <1>2, <1>3, <1>7 DEF LndStep, LndRefuse
<1>8. CASE Crash \/ StartStep \/ UNCHANGED vars
  BY <1>1, <1>8 DEF Crash, StartStep, Start, StartTrack, StartDone, vars
<1> QED
  BY <1>4, <1>5, <1>6, <1>7, <1>8 DEF Next

\* An account that is gone does not come back, and only RemoveAccount removes.
LEMMA AcctsFrame ==
    ASSUME [Next]_vars, NEW a
    PROVE  /\ a \in accts' /\ a \in gone => a \in accts
           /\ a \in accts /\ "remove" \notin Faults => a \in accts'
<1> DEFINE Goal == /\ a \in accts' /\ a \in gone => a \in accts
                   /\ a \in accts /\ "remove" \notin Faults => a \in accts'
<1> SUFFICES Goal
  OBVIOUS
<1>1. ASSUME UNCHANGED accts PROVE Goal
  BY <1>1
<1>2. ASSUME NEW b \in Accounts, NewAccount(b) PROVE Goal
  BY <1>2 DEF NewAccount
<1>3. ASSUME NEW b \in Accounts, NEW S \in SUBSET Hashes, NEW db \in StoreResults,
             RemoveAccount(b, S, db)
      PROVE  Goal
  BY <1>3 DEF RemoveAccount
<1> HIDE DEF Goal
<1>4. ASSUME NEW r \in Reqs, RequestStep(r) PROVE Goal
  BY <1>1, <1>4 DEF RequestStep, CheckSend, Intercept, AssociatePayment, PaymentErrored,
                    SendFailed, SendTracked, storeVars
<1>5. ASSUME NEW g \in Hashes, TrackerStep(g) PROVE Goal
  BY <1>1, <1>5 DEF TrackerStep, TrackerUpdate, TrackerNotInitiated, StaleUpdate, StaleExit,
                    TrackerError, TrackerQuit, storeVars
<1>6. ASSUME NEW b \in Accounts, AdminStep(b) PROVE Goal
  BY <1>1, <1>2, <1>3, <1>6 DEF AdminStep, UpdateBalance, CreditAccount, DebitAccount,
                                AdjustBalance, UpdateExpiry, Expire
<1>7. CASE LndStep
  BY <1>1, <1>7 DEF LndStep, LndStart, LndRefuse, LndResolve, storeVars
<1>8. CASE Crash \/ StartStep \/ UNCHANGED vars
  BY <1>1, <1>8 DEF Crash, StartStep, Start, StartTrack, StartDone, vars, storeVars
<1> QED
  BY <1>4, <1>5, <1>6, <1>7, <1>8 DEF Next

\* The entry of a hash's only request is not deleted once lnd may pay.
LEMMA SoleStep == ASSUME IInv, IInv', OutcomeInv, SoleInv, [Next]_vars PROVE SoleInv'
<1> SUFFICES ASSUME NEW r \in Reqs,
                    req'[r].st = "accepted" \/ (req'[r].st # "new" /\ lnd'[req'[r].hash].req = r),
                    Sole(r)', req'[r].acct \in accts'
             PROVE  Known(payments'[req'[r].acct][req'[r].hash])
  BY DEF SoleInv
<1> DEFINE a == req[r].acct
           h == req[r].hash
<1>1. req[r].st # "new"
  <2> SUFFICES ASSUME req[r].st = "new" PROVE FALSE
    OBVIOUS
  <2>1. PICK b \in Accounts, g \in Hashes, k \in Kinds, v \in Values, f \in FeeLimits :
            CheckSend(r, b, g, k, v, f)
    BY RequestFrame
  <2>2. req'[r].st = "checked" /\ UNCHANGED lnd
    BY <2>1 DEF CheckSend, Request, IInv, TypeOK
  <2>3. req'[r].hash \in Hashes
    BY <2>2 DEF IInv, ReqInv
  <2> QED
    BY <2>2, <2>3, RequestsAssumption DEF OutcomeInv
<1>2. /\ req'[r].acct = a /\ req'[r].hash = h /\ a \in accts' /\ h \in Hashes
      /\ req'[r].st = "accepted" \/ lnd'[h].req = r
  BY <1>1, RequestFrame DEF IInv, ReqInv
<1>3. a \in accts /\ a \in Accounts
  BY <1>1, <1>2, AcctsFrame DEF IInv, ReqInv, TypeOK
<1>4. Sole(r)
  BY <1>2, RequestFrame DEF Sole
<1>5. CASE req[r].st = "accepted" \/ lnd[h].req = r
  <2>1. Known(payments[a][h])
    BY <1>1, <1>3, <1>4, <1>5 DEF SoleInv
  <2>2. ASSUME NEW q \in Reqs, RequestOf(q, a, h), NEW db \in StoreResults, PaymentErrored(q, db)
        PROVE  FALSE
    <3>1. q = r
      BY <1>4, <2>2 DEF Sole, RequestOf
    <3> QED
      BY <1>2, <1>5, <2>2, <3>1, RequestsAssumption DEF PaymentErrored, OutcomeInv
  <2> QED
    BY <1>2, <1>3, <2>1, <2>2, EntryFrame, SMTT(20), Z3T(20)
<1>6. CASE req[r].st # "accepted" /\ lnd[h].req # r
  <2>1. lnd'[h].req # r
    <3>1. ~LndStart(r)
      BY <1>6 DEF LndStart
    <3>2. \/ lnd'[h] = lnd[h] \/ lnd'[h].req = lnd[h].req
          \/ \E q \in Reqs : LndStart(q) /\ lnd'[h].req = q
      BY <1>2, LndFrame
    <3> QED
      BY <1>6, <3>1, <3>2
  <2>2. PICK db \in StoreResults : AssociatePayment(r, db)
    BY <1>2, <1>6, <2>1, RequestFrame
  <2>3. payments' = [payments EXCEPT ![a][h] = UpsertEntry(@,
                        SendAmt(req[r].kind, req[r].val, req[r].fee), "UNKNOWN", AssociateOpts)]
    <3>1. req'[r].st = "accepted"
      BY <1>2, <2>1
    <3>2. \A st : req' = [req EXCEPT ![r] = Moved(@, st)] => req'[r].st = st
      <4>1. \A st : Moved(req[r], st).st = st
        BY DEF Moved, Answered
      <4>2. req \in [Reqs -> Requests]
        BY DEF IInv, TypeOK
      <4>3. \A x : req' = [req EXCEPT ![r] = x] => req'[r] = x
        BY <4>2
      <4> QED
        BY <4>1, <4>3
    <3> QED
      BY <2>2, <3>1, <3>2 DEF AssociatePayment
  <2>4. payments'[a][h].status = "UNKNOWN"
    <3>1. payments \in [Accounts -> [Hashes -> PaymentEntry]]
      BY DEF IInv, TypeOK
    <3> DEFINE x == UpsertEntry(payments[a][h], SendAmt(req[r].kind, req[r].val, req[r].fee),
                                "UNKNOWN", AssociateOpts)
    <3>2. payments' = [payments EXCEPT ![a][h] = x]
      BY <2>3
    <3>3. x.status = "UNKNOWN"
      BY DEF UpsertEntry
    <3> HIDE DEF x
    <3>4. a \in Accounts /\ h \in Hashes
      BY <1>2, <1>3
    <3>5. payments'[a][h] = x
      BY ONLY <3>1, <3>2, <3>4, EntryWritten
    <3> QED
      BY <3>3, <3>5
  <2> QED
    BY <1>2, <2>4 DEF Known
<1> QED
  BY <1>5, <1>6

(***************************************************************************)
(* What lnd pays for an account's only request for a hash stays in the     *)
(* account's list, whatever fails: no write failure, operator call, lost   *)
(* stream, crash or late start deletes its entry.                          *)
(***************************************************************************)
THEOREM SoleAttemptTheorem == Spec => []SoleAttemptResumable
<1>1. Init => OutcomeInv /\ SoleInv
  BY SMTT(20), Z3T(20) DEF Init, OutcomeInv, SoleInv, NewReq, Request
<1>2. (IInv /\ OutcomeInv /\ SoleInv) /\ [Next]_vars => (OutcomeInv /\ SoleInv)'
  BY NextInv, OutcomeStep, SoleStep
<1>3. IInv /\ OutcomeInv /\ SoleInv => SoleAttemptResumable
  <2> SUFFICES ASSUME IInv, OutcomeInv, SoleInv, NEW h \in Hashes, LndBusy(h), Payer(h) \in accts,
                      \A r \in Reqs : req[r].hash = h => r = lnd[h].req
               PROVE  Known(PayerEntry(h))
    BY DEF SoleAttemptResumable
  <2>1. /\ lnd[h].req \in Reqs /\ req[lnd[h].req].st # "new" /\ req[lnd[h].req].hash = h
        /\ Payer(h) = req[lnd[h].req].acct /\ Payer(h) # NoAcct
    BY AccountsAssumption DEF IInv, TypeOK, LndInv, LndBusy, Payer, NoAcct
  <2> QED
    BY <2>1 DEF SoleInv, Sole, PayerEntry
<1> QED
  BY <1>1, <1>2, <1>3, InductiveInvariant, PTL DEF Spec
-----------------------------------------------------------------------------
\* Only Start reads payments to resume.
LEMMA StartFrame == ASSUME [Next]_vars, NEW p \in startQ' PROVE p \in startQ \/ p \in Resumed
<1> DEFINE Goal == p \in startQ \/ p \in Resumed
<1> SUFFICES Goal
  OBVIOUS
<1>1. ASSUME UNCHANGED startQ PROVE Goal
  BY <1>1
<1>2. ASSUME Start PROVE Goal
  BY <1>2 DEF Start
<1>3. ASSUME NEW x \in startQ, NEW db, NEW router, StartTrack(x, db, router) PROVE Goal
  BY <1>3 DEF StartTrack
<1>4. ASSUME Crash PROVE Goal
  BY <1>4 DEF Crash
<1> HIDE DEF Goal
<1>5. ASSUME NEW r \in Reqs, RequestStep(r) PROVE Goal
  BY <1>1, <1>5, ZenonT(40), SMTT(20)
  DEF RequestStep, CheckSend, Intercept, AssociatePayment, PaymentErrored,
                    SendFailed, SendTracked, serviceVars
<1>6. ASSUME NEW g \in Hashes, TrackerStep(g) PROVE Goal
  BY <1>1, <1>6 DEF TrackerStep, TrackerUpdate, TrackerNotInitiated, StaleUpdate, StaleExit,
                    TrackerError, TrackerQuit
<1>7. ASSUME NEW a \in Accounts, AdminStep(a) PROVE Goal
  BY <1>1, <1>7 DEF AdminStep, NewAccount, UpdateBalance, CreditAccount, DebitAccount,
                    AdjustBalance, UpdateExpiry, Expire, RemoveAccount, serviceVars
<1>8. CASE LndStep
  BY <1>1, <1>8 DEF LndStep, LndStart, LndRefuse, LndResolve, serviceVars
<1>9. CASE StartStep
  BY <1>1, <1>2, <1>3, <1>9 DEF StartStep, StartDone
<1>10. CASE UNCHANGED vars
  BY <1>1, <1>10 DEF vars, serviceVars
<1> QED
  BY <1>4, <1>5, <1>6, <1>7, <1>8, <1>9, <1>10 DEF Next

\* What is stored or resumed for an account stays what it has requested.
LEMMA OwnStep ==
    ASSUME "share" \notin Faults, IInv, IInv', OwnInv, [Next]_vars PROVE OwnInv'
<1>1. ASSUME NEW p \in Reqs, NEW q \in Reqs, req'[p].st # "new", req[p].st = "new", q # p,
             req'[q].st # "new", req'[p].hash = req'[q].hash
      PROVE  req'[p].acct = req'[q].acct
  <2>1. PICK b \in Accounts, g \in Hashes, k \in Kinds, v \in Values, f \in FeeLimits :
            CheckSend(p, b, g, k, v, f)
    BY <1>1, RequestFrame
  <2>2. /\ req'[p] = Request("checked", b, g, k, v, f) /\ req'[q] = req[q]
        /\ req[q].hash = g => req[q].acct = b
    BY <1>1, <2>1 DEF CheckSend, IInv, TypeOK
  <2>3. req'[p].acct = b /\ req'[p].hash = g
    BY <2>2, SMTT(20), Z3T(20) DEF Request
  <2> QED
    BY <1>1, <2>2, <2>3
<1>2. ASSUME NEW p \in Reqs, NEW q \in Reqs, req'[p].st # "new", req'[q].st # "new",
             req'[p].hash = req'[q].hash
      PROVE  req'[p].acct = req'[q].acct
  <2>1. CASE req[p].st # "new" /\ req[q].st # "new"
    BY <1>2, <2>1, RequestFrame, SMTT(20), Z3T(20) DEF OwnInv
  <2>2. CASE (req[p].st = "new" \/ req[q].st = "new") /\ p # q
    BY <1>1, <1>2, <2>2
  <2> QED
    BY <2>1, <2>2
<1>3. ASSUME NEW a, NEW h, NEW r \in Reqs, RequestOf(r, a, h) PROVE RequestOf(r, a, h)'
  BY <1>3, RequestFrame DEF RequestOf
<1>4. \A a \in Accounts, h \in Hashes :
          Known(payments'[a][h]) => \E r \in Reqs : RequestOf(r, a, h)'
  BY <1>3, EntryFrame, SMTT(20), Z3T(20) DEF OwnInv
<1>5. \A p \in startQ' : \E r \in Reqs : RequestOf(r, p.acct, p.hash)'
  <2> SUFFICES ASSUME NEW p \in startQ' PROVE \E r \in Reqs : RequestOf(r, p.acct, p.hash)
    BY <1>3
  <2>1. CASE p \in Resumed
    <3>1. PICK x \in accts \X Hashes :
              /\ Known(payments[x[1]][x[2]])
              /\ p = [acct |-> x[1], hash |-> x[2], amt |-> payments[x[1]][x[2]].amt]
      BY <2>1 DEF Resumed
    <3>2. p.acct = x[1] /\ p.hash = x[2]
      BY <3>1
    <3>3. x[1] \in Accounts /\ x[2] \in Hashes
      BY DEF IInv, TypeOK
    <3> QED
      BY <3>1, <3>2, <3>3 DEF OwnInv
  <2> QED
    BY <2>1, StartFrame DEF OwnInv
<1> QED
  BY <1>2, <1>4, <1>5 DEF OwnInv

\* When no two accounts pay the same hash, OwnInv holds of every state.
LEMMA OwnInvariant == ASSUME "share" \notin Faults PROVE Spec => []OwnInv
<1>1. Init => OwnInv
  BY SMTT(20), Z3T(20) DEF Init, OwnInv, NewReq, Request, Known, NotAssociated
<1>2. IInv /\ OwnInv /\ [Next]_vars => OwnInv'
  BY NextInv, OwnStep
<1> QED
  BY <1>1, <1>2, InductiveInvariant, PTL DEF Spec

(***************************************************************************)
(* No account is debited for the payment of another: goroutines that are   *)
(* resumed at a restart, cancelled, or late act for the account that made  *)
(* the request.  Two accounts that pay the same hash are excluded: litd    *)
(* tracks payments by hash, and debits the one it tracks.                  *)
(***************************************************************************)
THEOREM OwnDebitsTheorem == ASSUME "share" \notin Faults PROVE Spec => []OwnDebits
<1>1. IInv /\ OwnInv => OwnDebits
  <2> SUFFICES ASSUME IInv, OwnInv, NEW a \in accts, NEW h \in Hashes,
                      successState(payments[a][h].status)
               PROVE  Payer(h) = a
    BY DEF OwnDebits
  <2>1. a \in Accounts /\ Known(payments[a][h]) /\ lnd[h].st = "succeeded"
    BY DEF IInv, TypeOK, DebitsAreReal, Known, successState
  <2>2. PICK r \in Reqs : RequestOf(r, a, h)
    BY <2>1 DEF OwnInv
  <2>3. lnd[h].req \in Reqs /\ req[lnd[h].req].st # "new" /\ req[lnd[h].req].hash = h
    BY <2>1 DEF IInv, TypeOK, LndInv
  <2> QED
    BY <2>2, <2>3, RequestsAssumption DEF OwnInv, RequestOf, Payer
<1> QED
  BY <1>1, InductiveInvariant, OwnInvariant, PTL
-----------------------------------------------------------------------------
\* A live request's payment is not tracked for any account, when every account
\* pays its own hashes and stays.
LEMMA LiveUntracked ==
    ASSUME IInv, OwnInv, gone = {}, NEW r \in Reqs, Live(r)
    PROVE  pending[req[r].hash] = NoAcct
<1> DEFINE h == req[r].hash
           b == pending[h]
<1>1. req[r].st # "new" /\ h \in Hashes /\ req[r].acct \in accts
  BY DEF IInv, ReqInv, ValuesInv, Live
<1> SUFFICES ASSUME b # NoAcct PROVE FALSE
  OBVIOUS
<1>2. b \in accts /\ b \in Accounts /\ Known(payments[b][h])
  BY <1>1, RowFacts DEF TrackedReserved, Known, inflightState, successState
<1>3. PICK q \in Reqs : RequestOf(q, b, h)
  BY <1>1, <1>2 DEF OwnInv
<1>4. req[r].acct = b
  BY <1>1, <1>3 DEF OwnInv, RequestOf
<1> QED
  BY <1>1, <1>4, LiveFacts

\* SendFailed, under the same conditions, has nothing to untrack.
LEMMA SendFailedFrame ==
    ASSUME IInv, OwnInv, gone = {}, NEW r \in Reqs, NEW db \in StoreResults, SendFailed(r, db)
    PROVE  \A h \in Hashes : /\ pending'[h] = pending[h] /\ tracker'[h] = tracker[h]
                             /\ stale'[h] = stale[h]
                             /\ \A a \in Accounts : payments'[a][h] = payments[a][h]
<1>1. pending[req[r].hash] = NoAcct
  BY LiveUntracked DEF SendFailed, IInv, ValuesInv, Live
<1>2. removePayment({}, "FAILED") /\ Cancel({})
  BY <1>1 DEF SendFailed
<1> QED
  BY <1>2 DEF removePayment, Cancel

\* TrackPayment starts a goroutine together with the tracking, with the status
\* that lnd has by then.
LEMMA TrackerFrame ==
    ASSUME IInv, NEW a \in Accounts, NEW h \in Hashes, NEW amt, NEW result,
           TrackEffect(a, h, amt, result)
    PROVE  \A g \in Hashes : \/ pending'[g] = pending[g] /\ tracker'[g] = tracker[g]
                             \/ g = h /\ pending'[h] # NoAcct /\ tracker'[h] = FirstStatus(h)
  BY AccountsAssumption DEF TrackEffect, IInv, TypeOK, NoAcct

\* paymentUpdate of h leaves the tracking of other payments alone.
LEMMA UpdateFrame ==
    ASSUME IInv, NEW h \in Hashes, NEW m \in {"SUCCEEDED", "FAILED"}, NEW db \in StoreResults,
           paymentUpdate(h, m, db)
    PROVE  \A g \in Hashes : /\ g # h => pending'[g] = pending[g]
                             /\ g # h \/ m # "FAILED" => \A a \in Accounts :
                                   payments'[a][g].status = "FAILED" => payments[a][g].status = "FAILED"
<1>1. CASE Debits(h, m, db)
  <2>1. /\ pending[h] \in Accounts
        /\ payments' = [payments EXCEPT ![pending[h]][h] =
                            [status |-> "SUCCEEDED", amt |-> lnd[h].amt]]
        /\ pending' = [pending EXCEPT ![h] = IF db = "ok" THEN NoAcct ELSE @]
    BY <1>1, DebitFacts
  <2>2. \A a \in Accounts, g \in Hashes :
            payments'[a][g] = payments[a][g] \/ payments'[a][g].status = "SUCCEEDED"
    BY <2>1 DEF IInv, TypeOK
  <2> QED
    BY <2>1, <2>2 DEF IInv, TypeOK
<1>2. CASE ~Debits(h, m, db)
  <2> DEFINE S == IF Untracks(h, m, db) THEN {h} ELSE {}
  <2>1. /\ removePayment(S, "FAILED") /\ S \in SUBSET Hashes /\ \A g \in S : pending[g] # NoAcct
        /\ S \subseteq {h} /\ (m # "FAILED" => S = {})
    BY <1>2 DEF paymentUpdate, Untracks, Debits
  <2> HIDE DEF S
  <2>2. /\ \A a \in Accounts, g \in Hashes : g \notin S => payments'[a][g] = payments[a][g]
        /\ \A g \in Hashes : pending'[g] = IF g \in S THEN NoAcct ELSE pending[g]
    BY <2>1, RemovedFacts, SMTT(20), Z3T(20)
  <2> QED
    BY <2>1, <2>2
<1> QED
  BY <1>1, <1>2

\* RemovePayment of h likewise.
LEMMA NotInitiatedFrame ==
    ASSUME IInv, NEW h \in Hashes, NEW db \in StoreResults, TrackerNotInitiated(h, db)
    PROVE  \A g \in Hashes : g # h => /\ pending'[g] = pending[g]
                                      /\ \A a \in Accounts : payments'[a][g] = payments[a][g]
<1> DEFINE S == IF Untracks(h, "notInitiated", db) THEN {h} ELSE {}
<1>1. /\ removePayment(S, "FAILED") /\ S \in SUBSET Hashes /\ \A g \in S : pending[g] # NoAcct
      /\ S \subseteq {h}
  BY DEF TrackerNotInitiated, Untracks
<1> HIDE DEF S
<1> QED
  BY <1>1, RemovedFacts, SMTT(20), Z3T(20)

\* No goroutine outlives the tracking of its payment.
LEMMA GoroutineStep ==
    ASSUME "share" \notin Faults, "remove" \notin Faults, IInv, OwnInv, GoroutineInv, [Next]_vars
    PROVE  GoroutineInv'
<1>2. ASSUME UNCHANGED <<gone, stale, tracker, pending>> PROVE GoroutineInv'
  BY <1>2 DEF GoroutineInv
<1>3. ASSUME NEW r \in Reqs, RequestStep(r) PROVE GoroutineInv'
  <2>1. ASSUME NEW db \in StoreResults, SendFailed(r, db) PROVE GoroutineInv'
    BY <2>1, SendFailedFrame DEF GoroutineInv, SendFailed
  <2>2. ASSUME NEW db \in StoreResults, NEW router \in RouterResults, SendTracked(r, db, router)
        PROVE  GoroutineInv'
    <3>1. req[r].acct \in Accounts /\ req[r].hash \in Hashes
      BY <2>2 DEF SendTracked, IInv, TypeOK, ReqInv
    <3>2. \A g \in Hashes : \/ pending'[g] = pending[g] /\ tracker'[g] = tracker[g]
                            \/ pending'[g] # NoAcct
      BY <2>2, <3>1, TrackerFrame DEF SendTracked
    <3> QED
      BY <2>2, <3>2 DEF GoroutineInv, SendTracked
  <2>3. ASSUME NEW a \in Accounts, NEW h \in Hashes, NEW k \in Kinds, NEW v \in Values,
               NEW f \in FeeLimits, CheckSend(r, a, h, k, v, f)
        PROVE  GoroutineInv'
    BY <1>2, <2>3 DEF CheckSend, storeVars, serviceVars
  <2>4. ASSUME Intercept(r) PROVE GoroutineInv'
    BY <1>2, <2>4 DEF Intercept, storeVars, serviceVars
  <2>5. ASSUME NEW db \in StoreResults, AssociatePayment(r, db) \/ PaymentErrored(r, db)
        PROVE  GoroutineInv'
    BY <1>2, <2>5 DEF AssociatePayment, PaymentErrored, storeVars, serviceVars
  <2> QED
    BY <1>3, <2>1, <2>2, <2>3, <2>4, <2>5 DEF RequestStep
<1>4. ASSUME NEW h \in Hashes, TrackerStep(h) PROVE GoroutineInv'
  <2>1. ASSUME NEW db \in StoreResults, TrackerUpdate(h, db) PROVE GoroutineInv'
    <3>1. \A g \in Hashes : g # h => pending'[g] = pending[g]
      BY <2>1, UpdateFrame DEF TrackerUpdate
    <3> QED
      BY <2>1, <3>1 DEF GoroutineInv, TrackerUpdate, IInv, TypeOK
  <2>2. ASSUME NEW db \in StoreResults, TrackerNotInitiated(h, db) PROVE GoroutineInv'
    <3>1. \A g \in Hashes : g # h => pending'[g] = pending[g]
      BY <2>2, NotInitiatedFrame
    <3> QED
      BY <2>2, <3>1 DEF GoroutineInv, TrackerNotInitiated, IInv, TypeOK
  <2>3. CASE TrackerError(h) \/ TrackerQuit(h)
    BY <2>3 DEF GoroutineInv, TrackerError, TrackerQuit, storeVars, IInv, TypeOK
  <2>4. stale[h] = {}
    BY DEF GoroutineInv
  <2> QED
    BY <1>4, <2>1, <2>2, <2>3, <2>4 DEF TrackerStep
<1>5. ASSUME NEW a \in Accounts, AdminStep(a) PROVE GoroutineInv'
  BY <1>2, <1>5 DEF AdminStep, NewAccount, UpdateBalance, CreditAccount, DebitAccount,
                    AdjustBalance, UpdateExpiry, Expire, RemoveAccount, serviceVars
<1>6. CASE LndStep
  <2>1. ASSUME NEW h \in Hashes, NEW ok \in BOOLEAN, NEW fee, LndResolve(h, ok, fee)
        PROVE  GoroutineInv'
    BY <2>1 DEF GoroutineInv, LndResolve, storeVars, IInv, TypeOK
  <2> QED
    BY <1>2, <1>6, <2>1 DEF LndStep, LndStart, LndRefuse, storeVars, serviceVars
<1>7. CASE Crash
  BY <1>7 DEF GoroutineInv, Crash, storeVars
<1>8. CASE StartStep
  <2>1. ASSUME NEW p \in startQ, NEW db \in StoreResults, NEW router \in RouterResults,
               StartTrack(p, db, router)
        PROVE  GoroutineInv'
    <3>1. p.acct \in Accounts /\ p.hash \in Hashes
      BY DEF IInv, TypeOK
    <3>2. \A g \in Hashes : \/ pending'[g] = pending[g] /\ tracker'[g] = tracker[g]
                            \/ pending'[g] # NoAcct
      BY <2>1, <3>1, TrackerFrame DEF StartTrack
    <3> QED
      BY <2>1, <3>2 DEF GoroutineInv, StartTrack
  <2> QED
    BY <1>2, <1>8, <2>1 DEF StartStep, Start, StartDone, storeVars
<1>9. CASE UNCHANGED vars
  BY <1>2, <1>9 DEF vars, storeVars, serviceVars
<1> QED
  BY <1>3, <1>4, <1>5, <1>6, <1>7, <1>8, <1>9 DEF Next

\* The invariants that hold when no two accounts pay the same hash and no
\* account is removed.
LEMMA GoroutineInvariant ==
    ASSUME "share" \notin Faults, "remove" \notin Faults PROVE Spec => []GoroutineInv
<1>1. Init => GoroutineInv
  BY DEF Init, GoroutineInv
<1>2. IInv /\ OwnInv /\ GoroutineInv /\ [Next]_vars => GoroutineInv'
  BY GoroutineStep
<1> QED
  BY <1>1, <1>2, InductiveInvariant, OwnInvariant, PTL DEF Spec

\* Only crashes stop a service whose database and streams do not fail.
LEMMA EnabledStep ==
    ASSUME Faults \subseteq {"admin", "expire", "late", "router"},
           IInv, OwnInv, GoroutineInv, EnabledInv, [Next]_vars
    PROVE  EnabledInv'
<1>0. StoreResults = {"ok"}
  BY DEF StoreResults
<1>1. ASSUME UNCHANGED <<phase, enabled>> PROVE EnabledInv'
  BY <1>1 DEF EnabledInv
<1>2. ASSUME NEW r \in Reqs, NEW db \in StoreResults, NEW router \in RouterResults,
             SendTracked(r, db, router)
      PROVE  EnabledInv'
  <2> DEFINE result == TrackResult(req[r].acct, req[r].hash, req[r].amt, db, router)
  <2>1. req[r].acct \in accts
    BY <1>2 DEF SendTracked, IInv, ReqInv, GoroutineInv
  <2>2. result # "critical"
    BY <1>0, <2>1 DEF TrackResult
  <2>3. UNCHANGED phase /\ enabled' = (enabled /\ result # "critical")
    BY <1>2 DEF SendTracked
  <2> HIDE DEF result
  <2> QED
    BY <2>2, <2>3 DEF EnabledInv
<1>3. ASSUME NEW r \in Reqs, RequestStep(r) PROVE EnabledInv'
  BY <1>1, <1>2, <1>3, ZenonT(40), SMTT(20)
  DEF RequestStep, CheckSend, Intercept, AssociatePayment, PaymentErrored,
                          SendFailed, serviceVars
<1>4. ASSUME NEW h \in Hashes, TrackerStep(h) PROVE EnabledInv'
  <2>1. ASSUME NEW db \in StoreResults, TrackerUpdate(h, db) PROVE EnabledInv'
    <3>1. pending[h] # NoAcct /\ phase # "down"
      BY <2>1 DEF TrackerUpdate, GoroutineInv, IInv, PhaseInv
    <3>2. UNCHANGED phase /\ enabled' = (enabled /\ Untracks(h, tracker[h], db))
      BY <2>1 DEF TrackerUpdate, paymentUpdate
    <3>3. enabled => Untracks(h, tracker[h], db)
      BY <1>0, <3>1 DEF Untracks
    <3> QED
      BY <3>2, <3>3 DEF EnabledInv
  <2>2. "stream" \notin Faults /\ stale[h] = {}
    BY DEF GoroutineInv
  <2> QED
    BY <1>1, <1>4, <2>1, <2>2 DEF TrackerStep, TrackerNotInitiated, TrackerError, TrackerQuit
<1>5. ASSUME NEW a \in Accounts, AdminStep(a) PROVE EnabledInv'
  BY <1>1, <1>5 DEF AdminStep, NewAccount, UpdateBalance, CreditAccount, DebitAccount,
                    AdjustBalance, UpdateExpiry, Expire, RemoveAccount, serviceVars
<1>6. CASE LndStep
  BY <1>1, <1>6 DEF LndStep, LndStart, LndRefuse, LndResolve, serviceVars
<1>7. CASE Crash \/ Start
  BY <1>7 DEF EnabledInv, Crash, Start
<1>8. ASSUME NEW p \in startQ, NEW db \in StoreResults, NEW router \in RouterResults,
             StartTrack(p, db, router)
      PROVE  EnabledInv'
  <2> DEFINE result == TrackResult(p.acct, p.hash, p.amt, db, router)
  <2>1. enabled /\ phase = "starting"
    BY <1>8 DEF StartTrack, EnabledInv
  <2>2. /\ enabled' = (enabled /\ ~TrackFailed(result))
        /\ phase' = IF TrackFailed(result) THEN "stopped" ELSE "starting"
    BY <1>8 DEF StartTrack
  <2> HIDE DEF result
  <2> QED
    BY <2>1, <2>2 DEF EnabledInv
<1>9. CASE StartDone
  BY <1>9 DEF EnabledInv, StartDone
<1>10. CASE UNCHANGED vars
  BY <1>1, <1>10 DEF vars, serviceVars
<1> QED
  BY <1>3, <1>4, <1>5, <1>6, <1>7, <1>8, <1>9, <1>10 DEF Next, StartStep

(***************************************************************************)
(* A service that is up is enabled, through any number of crashes and      *)
(* retries, operator calls on balances, expiries, late payments and        *)
(* failing TrackPayment calls (Start stops after one): no order of         *)
(* requests, answers, goroutines and restarts makes it take its own        *)
(* bookkeeping for broken.                                                 *)
(***************************************************************************)
THEOREM StaysEnabledTheorem ==
    ASSUME Faults \subseteq {"admin", "expire", "late", "router"} PROVE Spec => []StaysEnabled
<1>1. "share" \notin Faults /\ "remove" \notin Faults
  OBVIOUS
<1>2. Init => EnabledInv
  BY DEF Init, EnabledInv
<1>3. IInv /\ OwnInv /\ GoroutineInv /\ EnabledInv /\ [Next]_vars => EnabledInv'
  BY EnabledStep
<1>4. EnabledInv => StaysEnabled
  BY DEF EnabledInv, StaysEnabled
<1>5. Spec => []OwnInv
  BY <1>1, OwnInvariant
<1>6. Spec => []GoroutineInv
  BY <1>1, GoroutineInvariant
<1> QED
  BY <1>2, <1>3, <1>4, <1>5, <1>6, InductiveInvariant, PTL DEF Spec
-----------------------------------------------------------------------------
\* A request lnd can still take up has its values and its reservation: Start
\* drops the others, and nothing is written while litd is down.
LEMMA AcceptedStep ==
    ASSUME "share" \notin Faults, "remove" \notin Faults, "late" \notin Faults,
           IInv, IInv', OwnInv, GoroutineInv, GoroutineInv', AcceptedInv, [Next]_vars
    PROVE  AcceptedInv'
<1>1. ASSUME \A r \in Reqs : req'[r].st = "accepted" =>
                 \/ phase' # "down" /\ r \in reqVals'
                 \/ phase' = "down" /\ req[r].st = "accepted" /\ UNCHANGED payments
      PROVE  AcceptedInv'
  <2> SUFFICES ASSUME NEW r \in Reqs, req'[r].st = "accepted"
               PROVE  /\ phase' # "down" => r \in reqVals'
                      /\ inflightState(payments'[req'[r].acct][req'[r].hash].status)
    BY DEF AcceptedInv
  <2>1. CASE phase' # "down" /\ r \in reqVals'
    <3>1. Live(r)' /\ req'[r].acct \in accts'
      BY <2>1 DEF Live, IInv, ReqInv, GoroutineInv
    <3> QED
      BY <2>1, <3>1 DEF IInv, LiveInv
  <2>2. CASE phase' = "down" /\ req[r].st = "accepted" /\ UNCHANGED payments
    BY <2>2, RequestFrame DEF AcceptedInv
  <2> QED
    BY <1>1, <2>1, <2>2
<1>2. ASSUME phase' # "down" => phase # "down", UNCHANGED reqVals,
             phase' = "down" => UNCHANGED payments,
             \A r \in Reqs : req'[r].st = "accepted" => req[r].st = "accepted"
      PROVE  AcceptedInv'
  <2>1. \A r \in Reqs : req'[r].st = "accepted" =>
            \/ phase' # "down" /\ r \in reqVals'
            \/ phase' = "down" /\ req[r].st = "accepted" /\ UNCHANGED payments
    BY <1>2 DEF AcceptedInv
  <2> QED
    BY <1>1, <2>1
<1>3. ASSUME NEW q \in Reqs, RequestStep(q) PROVE AcceptedInv'
  <2>1. phase' = phase /\ phase # "down"
    <3>1. phase' = phase /\ (phase = "up" \/ phase = "stopped" \/ req[q].st \in {"checked", "replying"})
      BY <1>3 DEF RequestStep, CheckSend, Intercept, AssociatePayment, PaymentErrored,
                  SendFailed, SendTracked, serviceVars
    <3> QED
      BY <3>1 DEF IInv, PhaseInv, MtxFree
  <2>2. \A r \in reqVals : r # q => r \in reqVals'
    BY <1>3, ZenonT(40), SMTT(20)
    DEF RequestStep, CheckSend, Intercept, AssociatePayment, PaymentErrored,
                SendFailed, SendTracked, serviceVars
  <2>3. \A r \in Reqs : r # q => req'[r] = req[r]
    BY <1>3, ZenonT(40), SMTT(20)
    DEF RequestStep, CheckSend, Intercept, AssociatePayment, PaymentErrored,
                SendFailed, SendTracked, Replied, IInv, TypeOK
  <2>4. req'[q].st = "accepted" => q \in reqVals'
    <3>0. req \in [Reqs -> Requests]
      BY DEF IInv, TypeOK
    <3>1. CASE req[q].st = "accepted"
      BY <1>3, <3>1 DEF RequestStep, CheckSend, Intercept, AssociatePayment, PaymentErrored,
                        SendFailed, SendTracked
    <3>2. CASE req[q].st # "accepted" /\ req'[q].st = "accepted"
      <4>1. PICK db \in StoreResults : AssociatePayment(q, db)
        BY <3>2, RequestFrame
      <4>2. \A st : req' = [req EXCEPT ![q] = Moved(@, st)] => req'[q].st = st
        BY <3>0, AnsweredFields, SMTT(20), Z3T(20) DEF Moved
      <4> QED
        BY <3>2, <4>1, <4>2 DEF AssociatePayment
    <3> QED
      BY <3>1, <3>2
  <2>5. \A r \in Reqs : req'[r].st = "accepted" => r \in reqVals'
    BY <2>1, <2>2, <2>3, <2>4 DEF AcceptedInv
  <2> QED
    BY <1>1, <2>1, <2>5
<1>4. ASSUME NEW h \in Hashes, TrackerStep(h) PROVE AcceptedInv'
  <2>1. UNCHANGED <<phase, reqVals, req>>
    BY <1>4 DEF TrackerStep, TrackerUpdate, TrackerNotInitiated, StaleUpdate, StaleExit,
                TrackerError, TrackerQuit
  <2>2. stale[h] = {} /\ (phase = "down" => tracker[h] = "none")
    BY DEF GoroutineInv, IInv, PhaseInv
  <2>3. phase = "down" => UNCHANGED payments
    BY <1>4, <2>2 DEF TrackerStep, TrackerUpdate, TrackerNotInitiated, TrackerError, TrackerQuit
  <2> QED
    BY <1>2, <2>1, <2>3
<1>5. ASSUME NEW a \in Accounts, AdminStep(a) PROVE AcceptedInv'
  <2>1. UNCHANGED <<phase, reqVals, req, payments>>
    BY <1>5 DEF AdminStep, NewAccount, UpdateBalance, CreditAccount, DebitAccount,
                AdjustBalance, UpdateExpiry, Expire, RemoveAccount, serviceVars
  <2> QED
    BY <1>2, <2>1
<1>6. CASE LndStep
  <2>1. UNCHANGED <<phase, reqVals, payments>>
    BY <1>6 DEF LndStep, LndStart, LndRefuse, LndResolve, storeVars, serviceVars
  <2>2. \A r \in Reqs, db \in StoreResults : ~AssociatePayment(r, db) \/ req'[r].st # "accepted"
    <3>1. ASSUME NEW r \in Reqs, NEW db \in StoreResults, AssociatePayment(r, db),
                 req'[r].st = "accepted"
          PROVE  FALSE
      <4>1. UNCHANGED lnd /\ req[r].st = "checked"
        BY <3>1 DEF AssociatePayment
      <4>2. ASSUME NEW q \in Reqs, NEW st \in {"started", "payerr", "refused"},
                   req' = [req EXCEPT ![q] = Moved(@, st)]
            PROVE  FALSE
        <5>1. req'[q].st = st /\ (q # r => req'[r] = req[r])
          BY <4>2, AnsweredFields, SMTT(20), Z3T(20) DEF Moved, IInv, TypeOK
        <5> QED
          BY <3>1, <4>1, <4>2, <5>1
      <4>3. UNCHANGED req => FALSE
        BY <3>1, <4>1
      <4> QED
        BY <1>6, <4>2, <4>3 DEF LndStep, LndStart, LndRefuse, LndResolve
    <3> QED
      BY <3>1
  <2>3. \A r \in Reqs : req'[r].st = "accepted" => req[r].st = "accepted"
    BY <2>2, RequestFrame
  <2> QED
    BY <1>2, <2>1, <2>3
<1>7. CASE Crash \/ Start
  <2>1. \A r \in Reqs : \/ req'[r] = req[r]
                        \/ req'[r] = Answered(req[r], "done", "none", 0)
                        \/ req'[r] = Answered(req[r], "done", req[r].resp, req[r].amt)
    BY <1>7 DEF Crash, Start, Moved
  <2>2. \A r \in Reqs : req'[r].st = "accepted" => req'[r] = req[r]
    BY <2>1, AnsweredFields, SMTT(20), Z3T(20)
  <2>3. CASE Crash
    BY <1>1, <2>2, <2>3 DEF Crash, storeVars
  <2>4. CASE Start
    <3>1. \A r \in Reqs : req'[r].st # "accepted"
      <4>1. \A r \in Reqs : req[r].st = "accepted" => req'[r] = Moved(req[r], "done")
        BY <2>4 DEF Start
      <4> QED
        BY <2>2, <4>1, AnsweredFields, SMTT(20), Z3T(20) DEF Moved
    <3> QED
      BY <1>1, <3>1
  <2> QED
    BY <1>7, <2>3, <2>4
<1>8. CASE (\E p \in startQ, db \in StoreResults, router \in RouterResults :
               StartTrack(p, db, router)) \/ StartDone
  <2>1. UNCHANGED <<req, reqVals>> /\ phase = "starting" /\ phase' # "down"
    BY <1>8, SMTT(20), Z3T(20) DEF StartTrack, StartDone
  <2> QED
    BY <1>2, <2>1
<1>9. CASE UNCHANGED vars
  BY <1>2, <1>9 DEF vars, storeVars, serviceVars
<1> QED
  BY <1>3, <1>4, <1>5, <1>6, <1>7, <1>8, <1>9 DEF Next, StartStep

\* Only AssociatePayment makes a request live.
LEMMA LiveFrame ==
    ASSUME IInv, [Next]_vars, NEW r \in Reqs, Live(r)', ~Live(r)
    PROVE  \E db \in StoreResults :
              AssociatePayment(r, db) /\ UpsertError(payments[req[r].acct][req[r].hash], AssociateOpts) = "ok"
<1> DEFINE Goal == \E db \in StoreResults :
                      /\ AssociatePayment(r, db)
                      /\ UpsertError(payments[req[r].acct][req[r].hash], AssociateOpts) = "ok"
<1> SUFFICES Goal
  OBVIOUS
<1>0. r \in reqVals' /\ req'[r].st # "done" /\ req \in [Reqs -> Requests]
  BY DEF Live, IInv, TypeOK
<1>1. ASSUME r \in reqVals, req'[r] = req[r] \/ req[r].st # "done" PROVE Goal
  BY <1>0, <1>1 DEF Live
<1>2. ASSUME reqVals' \subseteq reqVals, UNCHANGED req PROVE Goal
  BY <1>0, <1>2 DEF Live
<1>3. ASSUME NEW q \in Reqs, RequestStep(q) PROVE Goal
  <2>1. ASSUME NEW db \in StoreResults, AssociatePayment(q, db) PROVE Goal
    <3>1. req[q].st = "checked" /\ (r # q => req'[r] = req[r])
      BY <1>0, <2>1 DEF AssociatePayment
    <3> QED
      BY <1>0, <1>1, <2>1, <3>1 DEF AssociatePayment
  <2> HIDE DEF Goal
  <2>2. ASSUME UNCHANGED reqVals \/ reqVals' = reqVals \ {q}, req[q].st # "done",
               \A p \in Reqs : p # q => req'[p] = req[p]
        PROVE  Goal
    BY <1>0, <1>1, <2>2
  <2>3. ASSUME Intercept(q) \/ \E a \in Accounts, h \in Hashes, k \in Kinds, v \in Values,
                                f \in FeeLimits : CheckSend(q, a, h, k, v, f) PROVE Goal
    BY <1>0, <2>2, <2>3, SMTT(20), Z3T(20) DEF CheckSend, Intercept, serviceVars
  <2>4. ASSUME NEW db \in StoreResults, PaymentErrored(q, db) \/ SendFailed(q, db)
        PROVE  Goal
    BY <1>0, <2>2, <2>4 DEF PaymentErrored, SendFailed, Replied
  <2>5. ASSUME NEW db \in StoreResults, NEW router \in RouterResults, SendTracked(q, db, router)
        PROVE  Goal
    BY <1>0, <2>2, <2>5 DEF SendTracked, Replied
  <2> QED
    BY <1>3, <2>1, <2>3, <2>4, <2>5 DEF RequestStep
<1> HIDE DEF Goal
<1>4. ASSUME NEW q \in Reqs, LndStart(q) \/ LndRefuse(q) PROVE Goal
  <2>1. UNCHANGED reqVals /\ req[q].st # "done" /\ \A p \in Reqs : p # q => req'[p] = req[p]
    BY <1>0, <1>4 DEF LndStart, LndRefuse, serviceVars
  <2> QED
    BY <1>0, <1>1, <2>1
<1>5. CASE LndStep
  BY <1>2, <1>4, <1>5 DEF LndStep, LndResolve
<1>6. ASSUME NEW h \in Hashes, TrackerStep(h) PROVE Goal
  BY <1>2, <1>6 DEF TrackerStep, TrackerUpdate, TrackerNotInitiated, StaleUpdate, StaleExit,
                    TrackerError, TrackerQuit
<1>7. ASSUME NEW a \in Accounts, AdminStep(a) PROVE Goal
  BY <1>2, <1>7 DEF AdminStep, NewAccount, UpdateBalance, CreditAccount, DebitAccount,
                    AdjustBalance, UpdateExpiry, Expire, RemoveAccount, serviceVars
<1>8. CASE Crash
  BY <1>0, <1>8 DEF Crash
<1>9. CASE StartStep
  <2>1. CASE Start
    <3>1. phase = "down" /\ reqVals' = reqVals
      BY <2>1 DEF Start
    <3> QED
      BY <1>0, <3>1 DEF IInv, PhaseInv
  <2> QED
    BY <1>2, <1>9, <2>1, SMTT(20), Z3T(20) DEF StartStep, StartTrack, StartDone
<1>10. CASE UNCHANGED vars
  BY <1>2, <1>10 DEF vars, serviceVars
<1> QED
  BY <1>3, <1>5, <1>6, <1>7, <1>8, <1>9, <1>10 DEF Next

\* An entry is written as failed only on a goroutine's verdict, and a verdict
\* other than success is not received of a payment lnd is busy with.
LEMMA VerdictFrame ==
    ASSUME "remove" \notin Faults, IInv, OwnInv, GoroutineInv, [Next]_vars, NEW h \in Hashes
    PROVE  /\ tracker'[h] \in {"FAILED", "notInitiated"} => tracker'[h] = tracker[h] \/ ~LndBusy(h)'
           /\ \A a \in Accounts : payments'[a][h].status = "FAILED" =>
                 payments[a][h].status = "FAILED" \/ tracker[h] \in {"FAILED", "notInitiated"}
<1> DEFINE Goal == /\ tracker'[h] \in {"FAILED", "notInitiated"} =>
                         tracker'[h] = tracker[h] \/ ~LndBusy(h)'
                   /\ \A a \in Accounts : payments'[a][h].status = "FAILED" =>
                         payments[a][h].status = "FAILED" \/ tracker[h] \in {"FAILED", "notInitiated"}
<1> SUFFICES Goal
  OBVIOUS
<1>1. ASSUME UNCHANGED payments, UNCHANGED tracker PROVE Goal
  BY <1>1
<1>2. ASSUME NEW b \in Accounts, NEW g \in Hashes, NEW amt \in Nat, NEW db, NEW router,
             TrackEffect(b, g, amt, TrackResult(b, g, amt, db, router)), UNCHANGED lnd
      PROVE  Goal
  <2>1. \A a \in Accounts : payments'[a][h] = payments[a][h] \/ payments'[a][h].status = "UNKNOWN"
    BY <1>2, TrackFacts, SMTT(20), Z3T(20)
  <2>2. tracker'[h] = tracker[h] \/ tracker'[h] = FirstStatus(h)
    BY <1>2, TrackerFrame
  <2>3. lnd[h].st \in {"none", "inflight", "succeeded", "failed"}
    BY DEF IInv, TypeOK
  <2>4. FirstStatus(h) \in {"FAILED", "notInitiated"} => ~LndBusy(h)
    BY <2>3 DEF FirstStatus, LndBusy
  <2> QED
    BY <1>2, <2>1, <2>2, <2>4 DEF LndBusy
<1>3. ASSUME NEW r \in Reqs, RequestStep(r) PROVE Goal
  <2>0. /\ payments \in [Accounts -> [Hashes -> PaymentEntry]]
        /\ req[r].st # "new" => /\ req[r].acct \in Accounts /\ req[r].hash \in Hashes
                                /\ req[r].amt \in Nat
    BY DEF IInv, TypeOK, ReqInv, Requests
  <2>1. ASSUME NEW db \in StoreResults, AssociatePayment(r, db) PROVE Goal
    <3>1. \A a \in Accounts : payments'[a][h] = payments[a][h] \/ payments'[a][h].status = "UNKNOWN"
      BY <2>0, <2>1 DEF AssociatePayment, UpsertEntry
    <3> QED
      BY <2>1, <3>1 DEF AssociatePayment
  <2>2. ASSUME NEW db \in StoreResults, PaymentErrored(r, db) PROVE Goal
    <3>1. \A a \in Accounts : payments'[a][h] = payments[a][h] \/ payments'[a][h].status = "none"
      BY <2>0, <2>2 DEF PaymentErrored, NotAssociated
    <3> QED
      BY <2>2, <3>1 DEF PaymentErrored
  <2>3. ASSUME NEW db \in StoreResults, SendFailed(r, db) PROVE Goal
    <3>1. tracker'[h] = tracker[h] /\ \A a \in Accounts : payments'[a][h] = payments[a][h]
      BY <2>3, SendFailedFrame DEF GoroutineInv
    <3> QED
      BY <3>1
  <2>4. ASSUME NEW db \in StoreResults, NEW router \in RouterResults, SendTracked(r, db, router)
        PROVE  Goal
    <3>1. req[r].st # "new"
      BY <2>4 DEF SendTracked
    <3> HIDE DEF Goal
    <3> QED
      BY <1>2, <2>0, <2>4, <3>1 DEF SendTracked
  <2> HIDE DEF Goal
  <2> QED
    BY <1>1, <1>3, <2>1, <2>2, <2>3, <2>4, SMTT(20), Z3T(20)
       DEF RequestStep, CheckSend, Intercept, storeVars, serviceVars
<1>4. ASSUME NEW g \in Hashes, TrackerStep(g) PROVE Goal
  <2>1. ASSUME NEW db \in StoreResults, TrackerUpdate(g, db) PROVE Goal
    <3>1. g # h \/ tracker[g] # "FAILED" => \A a \in Accounts :
              payments'[a][h].status = "FAILED" => payments[a][h].status = "FAILED"
      BY <2>1, UpdateFrame DEF TrackerUpdate
    <3>2. tracker'[h] \in {tracker[h], "none"}
      BY <2>1 DEF TrackerUpdate, IInv, TypeOK
    <3> QED
      BY <3>1, <3>2
  <2>2. ASSUME NEW db \in StoreResults, TrackerNotInitiated(g, db) PROVE Goal
    <3>1. g # h => \A a \in Accounts : payments'[a][h] = payments[a][h]
      BY <2>2, NotInitiatedFrame
    <3>2. tracker'[h] \in {tracker[h], "none"} /\ tracker[g] = "notInitiated"
      BY <2>2 DEF TrackerNotInitiated, IInv, TypeOK
    <3> QED
      BY <3>1, <3>2
  <2>3. ASSUME TrackerError(g) \/ TrackerQuit(g) PROVE Goal
    <3>1. UNCHANGED payments /\ tracker'[h] \in {tracker[h], "none"}
      BY <2>3 DEF TrackerError, TrackerQuit, storeVars, IInv, TypeOK
    <3> QED
      BY <3>1
  <2>4. stale[g] = {}
    BY DEF GoroutineInv
  <2> HIDE DEF Goal
  <2> QED
    BY <1>4, <2>1, <2>2, <2>3, <2>4 DEF TrackerStep
<1>5. ASSUME NEW g \in Hashes, NEW ok \in BOOLEAN, NEW fee, LndResolve(g, ok, fee) PROVE Goal
  <2>1. tracker'[h] = tracker[h] \/ (g = h /\ tracker'[h] = IF ok THEN "SUCCEEDED" ELSE "FAILED")
    BY <1>5 DEF LndResolve, IInv, TypeOK
  <2>2. ~ok => lnd'[g].st = "failed"
    BY <1>5 DEF LndResolve, IInv, TypeOK
  <2>3. UNCHANGED payments
    BY <1>5 DEF LndResolve, storeVars
  <2> QED
    BY <2>1, <2>2, <2>3 DEF LndBusy
<1>6. ASSUME Crash PROVE Goal
  BY <1>6 DEF Crash, storeVars
<1>7. ASSUME NEW p \in startQ, NEW db \in StoreResults, NEW router \in RouterResults,
             StartTrack(p, db, router)
      PROVE  Goal
  <2>1. p.acct \in Accounts /\ p.hash \in Hashes /\ p.amt \in Nat
    BY DEF IInv, TypeOK
  <2> HIDE DEF Goal
  <2> QED
    BY <1>2, <1>7, <2>1 DEF StartTrack
<1> HIDE DEF Goal
<1>8. ASSUME NEW a \in Accounts, AdminStep(a) PROVE Goal
  BY <1>1, <1>8 DEF AdminStep, NewAccount, UpdateBalance, CreditAccount, DebitAccount,
                    AdjustBalance, UpdateExpiry, Expire, RemoveAccount, serviceVars
<1>9. CASE LndStep
  BY <1>1, <1>5, <1>9 DEF LndStep, LndStart, LndRefuse, storeVars, serviceVars
<1>10. CASE StartStep
  BY <1>1, <1>7, <1>10 DEF StartStep, Start, StartDone, storeVars
<1>11. CASE UNCHANGED vars
  BY <1>1, <1>11 DEF vars, storeVars, serviceVars
<1> QED
  BY <1>3, <1>4, <1>6, <1>8, <1>9, <1>10, <1>11 DEF Next

\* What lnd is busy with keeps its entry: it is not deleted, not failed, and
\* not reserved again.
LEMMA BusyStep ==
    ASSUME "share" \notin Faults, "remove" \notin Faults, IInv, IInv', OutcomeInv, OwnInv, OwnInv',
           GoroutineInv, AcceptedInv, BusyInv, [Next]_vars
    PROVE  BusyInv'
<1> SUFFICES ASSUME NEW h \in Hashes, LndBusy(h)'
             PROVE  /\ Known(PayerEntry(h)') /\ PayerEntry(h)'.status # "FAILED"
                    /\ tracker'[h] \notin {"FAILED", "notInitiated"}
                    /\ \A q \in Reqs : Live(q)' /\ req'[q].hash = h => lnd'[h].req = q
  BY DEF BusyInv
<1>1. CASE lnd'[h].req = lnd[h].req /\ LndBusy(h)
  <2> DEFINE r == lnd[h].req
             a == req[r].acct
  <2>1. /\ r \in Reqs /\ req[r].st # "new" /\ req[r].hash = h
        /\ a \in Accounts /\ a \in accts /\ a # NoAcct
    BY <1>1, AccountsAssumption DEF IInv, TypeOK, LndInv, LndBusy, ReqInv, GoroutineInv, NoAcct
  <2>2. req'[r].acct = a /\ req'[r].st # "new" /\ req'[r].hash = h
    BY <2>1, RequestFrame
  <2>3. PayerEntry(h) = payments[a][h] /\ PayerEntry(h)' = payments'[a][h]
    BY <1>1, <2>1, <2>2, RequestsAssumption DEF PayerEntry, Payer
  <2>4. /\ Known(payments[a][h]) /\ payments[a][h].status # "FAILED"
        /\ tracker[h] \notin {"FAILED", "notInitiated"}
        /\ \A q \in Reqs : Live(q) /\ req[q].hash = h => r = q
    BY <1>1, <2>3 DEF BusyInv
  <2>5. ASSUME NEW q \in Reqs, RequestOf(q, a, h), NEW db \in StoreResults, PaymentErrored(q, db)
        PROVE  FALSE
    <3>1. req[q].st = "replying" /\ req[q].resp = "ERROR" /\ Live(q)
      BY <2>5 DEF PaymentErrored, IInv, ValuesInv, Live
    <3>2. q = r
      BY <2>4, <2>5, <3>1 DEF RequestOf
    <3> QED
      BY <2>1, <3>1, <3>2, RequestsAssumption DEF OutcomeInv
  <2>6. a \in accts'
    BY <2>1, AcctsFrame
  <2>7. Known(payments'[a][h])
    <3> HIDE DEF r, a
    <3> QED
      BY <2>1, <2>4, <2>5, <2>6, EntryFrame, SMTT(20), Z3T(20)
  <2>8. payments'[a][h].status # "FAILED" /\ tracker'[h] \notin {"FAILED", "notInitiated"}
    BY <2>1, <2>4, VerdictFrame
  <2>9. ASSUME NEW q \in Reqs, Live(q)', req'[q].hash = h PROVE r = q
    <3>1. CASE Live(q)
      <4>1. req[q].hash = h
        BY <2>9, <3>1, RequestFrame DEF Live, IInv, ValuesInv
      <4> QED
        BY <2>4, <3>1, <4>1
    <3>2. CASE ~Live(q)
      <4>1. PICK db \in StoreResults :
                /\ AssociatePayment(q, db)
                /\ UpsertError(payments[req[q].acct][req[q].hash], AssociateOpts) = "ok"
        BY <2>9, <3>2, LiveFrame
      <4>2. req[q].st # "new"
        BY <4>1 DEF AssociatePayment
      <4>3. req[q].hash = h
        BY <2>9, <4>2, RequestFrame
      <4>4. req[q].acct = a
        BY <2>1, <4>2, <4>3 DEF OwnInv
      <4> QED
        BY <2>4, <4>1, <4>3, <4>4 DEF UpsertError, AssociateOpts, Known
    <3> QED
      BY <3>1, <3>2
  <2> QED
    BY <1>1, <2>3, <2>7, <2>8, <2>9
<1>2. ASSUME NEW r \in Reqs, LndStart(r), req[r].hash = h, lnd'[h].req = r
      PROVE  /\ Known(PayerEntry(h)') /\ PayerEntry(h)'.status # "FAILED"
             /\ tracker'[h] \notin {"FAILED", "notInitiated"}
             /\ \A q \in Reqs : Live(q)' /\ req'[q].hash = h => lnd'[h].req = q
  <2> DEFINE a == req[r].acct
  <2>1. /\ req[r].st = "accepted" /\ UNCHANGED <<payments, tracker, reqVals>>
        /\ \A q \in Reqs : q # r => req'[q] = req[q]
    BY <1>2, SMTT(20), Z3T(20) DEF LndStart, storeVars, serviceVars, IInv, TypeOK
  <2>2. a \in accts /\ a # NoAcct /\ req'[r].acct = a
    BY <2>1, RequestFrame, AccountsAssumption DEF IInv, TypeOK, ReqInv, GoroutineInv, NoAcct
  <2>3. PayerEntry(h)' = payments[a][h] /\ inflightState(payments[a][h].status)
    BY <1>2, <2>1, <2>2, RequestsAssumption DEF PayerEntry, Payer, AcceptedInv
  <2>4. phase # "down" => Live(r)
    BY <2>1 DEF AcceptedInv, Live
  <2>5. tracker[h] = "none"
    <3>1. phase = "down" => pending[h] = NoAcct
      BY DEF IInv, PhaseInv
    <3>2. phase # "down" => pending[h] = NoAcct
      BY <1>2, <2>4, LiveUntracked DEF GoroutineInv
    <3> QED
      BY <3>1, <3>2 DEF GoroutineInv
  <2>6. ASSUME NEW q \in Reqs, Live(q)', req'[q].hash = h, q # r PROVE FALSE
    <3>1. Live(q) /\ req[q].hash = h /\ req[q].st # "new" /\ phase # "down"
      BY <2>1, <2>6 DEF Live, IInv, ValuesInv, PhaseInv
    <3>2. req[q].acct = a
      BY <1>2, <2>1, <3>1 DEF OwnInv
    <3> QED
      BY <1>2, <2>4, <2>6, <3>1, <3>2 DEF IInv, LiveInv
  <2> QED
    BY <1>2, <2>1, <2>3, <2>5, <2>6 DEF inflightState, Known
<1>3. \/ lnd'[h].req = lnd[h].req /\ LndBusy(h)
      \/ \E r \in Reqs : LndStart(r) /\ req[r].hash = h /\ lnd'[h].req = r
  BY LndFrame DEF LndBusy
<1> QED
  BY <1>1, <1>2, <1>3

\* The two theorems below, and the invariants they follow from.
LEMMA ResumeInvariant ==
    ASSUME "share" \notin Faults, "remove" \notin Faults, "late" \notin Faults
    PROVE  Spec => [](IInv /\ OwnInv /\ GoroutineInv /\ AcceptedInv /\ BusyInv)
<1>1. Init => OutcomeInv /\ AcceptedInv /\ BusyInv
  BY SMTT(20), Z3T(20) DEF Init, OutcomeInv, AcceptedInv, BusyInv, LndBusy, NewReq, Request
<1>2. /\ IInv /\ OwnInv /\ GoroutineInv /\ IInv' /\ OwnInv' /\ GoroutineInv'
      /\ OutcomeInv /\ AcceptedInv /\ BusyInv /\ [Next]_vars
      => (OutcomeInv /\ AcceptedInv /\ BusyInv)'
  BY OutcomeStep, AcceptedStep, BusyStep
<1> QED
  BY <1>1, <1>2, InductiveInvariant, OwnInvariant, GoroutineInvariant, PTL DEF Spec

(***************************************************************************)
(* What lnd is paying, or has paid, for an account is in the account's     *)
(* list, also after failed writes, lost streams and restarts in any order. *)
(* The conditions are the ones the code depends on: every account pays its *)
(* own hashes, is not removed meanwhile, and lnd takes up nothing that was *)
(* accepted before a restart after the restart.                            *)
(***************************************************************************)
THEOREM PaymentsResumableTheorem ==
    ASSUME "share" \notin Faults, "remove" \notin Faults, "late" \notin Faults
    PROVE  Spec => []PaymentsResumable
<1>1. BusyInv => PaymentsResumable
  BY DEF BusyInv, PaymentsResumable
<1> QED
  BY <1>1, ResumeInvariant, PTL

\* Under the same conditions no payment that lnd is making, or has made, is
\* marked as failed, so none is reserved a second time.
THEOREM RemovedNeverSucceedsTheorem ==
    ASSUME "share" \notin Faults, "remove" \notin Faults, "late" \notin Faults
    PROVE  Spec => []RemovedNeverSucceeds
<1>1. BusyInv => RemovedNeverSucceeds
  BY DEF BusyInv, RemovedNeverSucceeds
<1> QED
  BY <1>1, ResumeInvariant, PTL
=============================================================================
