----------------------- MODULE AccountPaymentsReserve -----------------------
(***************************************************************************)
(* What an account reserves for a payment: the amount of its entry from    *)
(* the check of the request to the end of the payment, as every step       *)
(* changes it. The sums over the payments of an account are those of       *)
(* FiniteSums.                                                             *)
(***************************************************************************)
EXTENDS AccountPaymentsResume, FiniteSums

\* The backends, in turn, of each leaf below that names none of its own.
USE ZenonT(20), SMTT(20), Z3T(20)

\* All requests wait for their payment.
Waiting == \A r \in Reqs : req[r].kind # "v2"

\* What the in-flight payments among an account's entries reserve, per hash.
Reserved(entries) ==
    [h \in Hashes |-> IF inflightState(entries[h].status) THEN entries[h].amt ELSE 0]

\* lnd is paying or has paid h, or may still begin to.
Backed(h) == LndBusy(h) \/ \E r \in Reqs : req[r].st = "accepted" /\ req[r].hash = h

\* What account a may still be debited with, per hash.
Due(a) ==
    [h \in Hashes |-> IF ~inflightState(payments[a][h].status) \/ ~Backed(h) THEN 0
                      ELSE IF lnd[h].st = "succeeded" THEN lnd[h].amt ELSE payments[a][h].amt]

\* The payments Start has still to resume are as it has read them.
StartInv ==
    /\ phase # "starting" => startQ = {}
    /\ \A p \in startQ : payments[p.acct][p.hash].amt = p.amt /\ pending[p.hash] = NoAcct

\* The most lnd pays for request q.
Limit(q) == q.val + q.fee

\* What is reserved for a request that lnd may take up covers it.
AssociatedInv ==
    \A r \in Reqs : req[r].st = "accepted" =>
        payments[req[r].acct][req[r].hash].amt >= Limit(req[r])

\* What is reserved for a payment that lnd is making, or has made, covers it.
PaidInv ==
    \A h \in Hashes : LndBusy(h) /\ ~successState(PayerEntry(h).status) =>
        PayerEntry(h).amt >= (IF lnd[h].st = "succeeded" THEN lnd[h].amt ELSE Limit(req[lnd[h].req]))

\* So does the amount of an answer that is being handled.
AnswerInv ==
    \A r \in Reqs :
        /\ req[r].st = "replying" /\ req[r].resp \in {"IN_FLIGHT", "SUCCEEDED"}
        /\ LndBusy(req[r].hash)
        => lnd[req[r].hash].st = "succeeded" /\ req[r].amt >= lnd[req[r].hash].amt

\* A checked request is covered by what is not reserved.
CheckInv ==
    \A r \in Reqs : req[r].st = "checked" =>
        balance[req[r].acct] >= SumOver(Reserved(payments[req[r].acct]), Hashes)
                                + SendAmt(req[r].kind, req[r].val, req[r].fee)

\* An account can pay everything it may still be debited with.
CoverInv == \A a \in accts : balance[a] >= SumOver(Due(a), Hashes)

-----------------------------------------------------------------------------
\* calcAvailableAccountBalance subtracts the sum of what the payments reserve.
LEMMA InFlightSum ==
    ASSUME IsFiniteSet(Hashes), IInv, NEW a \in Accounts
    PROVE  InFlightAmt(payments[a]) = SumOver(Reserved(payments[a]), Hashes)
<1> DEFINE S == {h \in Hashes : inflightState(payments[a][h].status)}
           f == Reserved(payments[a])
           amount(s) == payments[a][Pick(s)].amt
           rec(g, s) == IF s = {} THEN 0 ELSE amount(s) + g[s \ {Pick(s)}]
           IsAmt(g) == g = [s \in SUBSET S |-> rec(g, s)]
           g0 == CHOOSE g : IsAmt(g)
<1>0. DOMAIN payments[a] = Hashes /\ \A h \in Hashes : payments[a][h].amt \in Nat
  BY SMTT(20), Z3T(20) DEF IInv, TypeOK, PaymentEntry
<1>1. InFlightAmt(payments[a]) = g0[S]
  BY <1>0 DEF InFlightAmt, MapThenSumSet, MapThenFoldSet, Pick
<1>2. IsFiniteSet(S) /\ S \in SUBSET Hashes
  BY FiniteSubset
<1>3. ASSUME NEW g PROVE IsAmt(g) <=> IsSum(g, f, S)
  <2> DEFINE sumrec(s) == IF s = {} THEN 0 ELSE f[Pick(s)] + g[s \ {Pick(s)}]
             amtrec(s) == rec(g, s)
  <2>1. \A s \in SUBSET S : amtrec(s) = sumrec(s)
    <3> SUFFICES ASSUME NEW s \in SUBSET S, s # {} PROVE f[Pick(s)] = amount(s)
      OBVIOUS
    <3>1. Pick(s) \in S
      BY PickIn
    <3> QED
      BY <3>1 DEF Reserved
  <2> HIDE DEF sumrec, amtrec
  <2>2. [s \in SUBSET S |-> amtrec(s)] = [s \in SUBSET S |-> sumrec(s)]
    BY <2>1
  <2>3. IsAmt(g) <=> g = [s \in SUBSET S |-> amtrec(s)]
    BY DEF amtrec
  <2>4. IsSum(g, f, S) <=> g = [s \in SUBSET S |-> sumrec(s)]
    BY DEF IsSum, sumrec
  <2> QED
    BY <2>2, <2>3, <2>4
<1>4. IsSum(g0, f, S)
  <2> HIDE DEF IsAmt, f, S
  <2>1. \E g : IsAmt(g)
    BY <1>2, <1>3, SumExists
  <2> QED
    BY <1>3, <2>1
<1> HIDE DEF g0
<1>5. g0[S] = SumOver(f, S)
  <2> HIDE DEF f, S
  <2>1. PICK h : IsSum(h, f, S) /\ SumOver(f, S) = h[S]
    BY <1>2, SumOverIsSum
  <2> QED
    BY <1>2, <1>4, <2>1, SumsAgree, SMTT(20), Z3T(20)
<1>6. SumOver(f, S) = SumOver(f, Hashes)
  <2>1. \A h \in Hashes : f[h] \in Int
    BY <1>0, SMTT(20), Z3T(20) DEF Reserved
  <2>2. \A h \in Hashes \ S : f[h] = 0
    BY DEF Reserved
  <2> HIDE DEF f, S
  <2> QED
    BY <1>2, <2>1, <2>2, SumSupport
<1> QED
  BY <1>1, <1>5, <1>6

\* A request is checked by CheckSend and answered through Intercept only, and
\* until then, and while its turn lasts, it stays as it is.
LEMMA TurnFrame ==
    ASSUME IInv, [Next]_vars, NEW r \in Reqs
    PROVE  /\ req'[r].st = "new" => req'[r] = req[r]
           /\ req'[r].st = "checked" =>
                 \/ req'[r] = req[r]
                 \/ \E a \in Accounts, h \in Hashes, k \in Kinds, v \in Values, f \in FeeLimits :
                       CheckSend(r, a, h, k, v, f)
           /\ req'[r].st = "replying" => req'[r] = req[r] \/ Intercept(r)
<1> DEFINE Goal == /\ req'[r].st = "new" => req'[r] = req[r]
                   /\ req'[r].st = "checked" =>
                         \/ req'[r] = req[r]
                         \/ \E a \in Accounts, h \in Hashes, k \in Kinds, v \in Values, f \in FeeLimits :
                               CheckSend(r, a, h, k, v, f)
                   /\ req'[r].st = "replying" => req'[r] = req[r] \/ Intercept(r)
<1> SUFFICES Goal
  OBVIOUS
<1>0. req \in [Reqs -> Requests]
  BY DEF IInv, TypeOK
<1>1. ASSUME req'[r] = req[r] PROVE Goal
  BY <1>1
<1>2. ASSUME NEW q \in Reqs, NEW st, NEW resp, NEW amt, st # "new", st # "checked", st # "replying",
             req' = [req EXCEPT ![q] = Answered(@, st, resp, amt)]
      PROVE  Goal
  <2>1. req'[q] = Answered(req[q], st, resp, amt) /\ (r # q => req'[r] = req[r])
    BY <1>0, <1>2
  <2> QED
    BY <1>2, <2>1, AnsweredFields, SMTT(20), Z3T(20)
<1>3. ASSUME NEW q \in Reqs, RequestStep(q) PROVE Goal
  <2>1. ASSUME NEW a \in Accounts, NEW h \in Hashes, NEW k \in Kinds, NEW v \in Values,
               NEW f \in FeeLimits, CheckSend(q, a, h, k, v, f)
        PROVE  Goal
    <3>1. req'[q].st = "checked" /\ (r # q => req'[r] = req[r])
      BY <1>0, <2>1, SMTT(20), Z3T(20) DEF CheckSend, Request
    <3> QED
      BY <2>1, <3>1
  <2>2. ASSUME Intercept(q) PROVE Goal
    <3>1. /\ r # q => req'[r] = req[r]
          /\ \/ \E s, m : req'[q] = Answered(req[q], "replying", s, m)
             \/ \E s, m : req'[q] = Answered(req[q], "done", s, m)
      BY <1>0, <2>2 DEF Intercept, Moved
    <3>2. req'[q].st \in {"replying", "done"}
      BY <3>1, AnsweredFields, SMTT(20), Z3T(20)
    <3> QED
      BY <2>2, <3>1, <3>2
  <2>3. ASSUME NEW db \in StoreResults, AssociatePayment(q, db) PROVE Goal
    <3>1. PICK st \in {"accepted", "done"} : req' = [req EXCEPT ![q] = Answered(@, st, @.resp, @.amt)]
      BY <2>3 DEF AssociatePayment, Moved
    <3> HIDE DEF Goal
    <3> QED
      BY <1>2, <3>1
  <2>4. ASSUME Replied(q) PROVE Goal
    <3> HIDE DEF Goal
    <3> QED
      BY <1>2, <2>4 DEF Replied
  <2> HIDE DEF Goal
  <2> QED
    BY <1>3, <2>1, <2>2, <2>3, <2>4 DEF RequestStep, PaymentErrored, SendFailed, SendTracked
<1>4. CASE LndStep
  <2>1. ASSUME NEW q \in Reqs, LndStart(q) \/ LndRefuse(q) PROVE Goal
    <3>1. PICK st \in {"started", "payerr", "refused"} :
              req' = [req EXCEPT ![q] = Answered(@, st, @.resp, @.amt)]
      BY <2>1 DEF LndStart, LndRefuse, Moved
    <3> HIDE DEF Goal
    <3> QED
      BY <1>2, <3>1
  <2> HIDE DEF Goal
  <2> QED
    BY <1>1, <1>4, <2>1 DEF LndStep, LndResolve
<1>5. CASE Crash \/ Start
  <2>1. req'[r] = req[r] \/ \E s, m : req'[r] = Answered(req[r], "done", s, m)
    BY <1>5, SMTT(20), Z3T(20) DEF Crash, Start, Moved
  <2> QED
    BY <2>1, AnsweredFields, SMTT(20), Z3T(20)
<1> HIDE DEF Goal
<1>6. ASSUME NEW h \in Hashes, TrackerStep(h) PROVE Goal
  BY <1>1, <1>6 DEF TrackerStep, TrackerUpdate, TrackerNotInitiated, StaleUpdate, StaleExit,
                    TrackerError, TrackerQuit
<1>7. ASSUME NEW a \in Accounts, AdminStep(a) PROVE Goal
  BY <1>1, <1>7 DEF AdminStep, NewAccount, UpdateBalance, CreditAccount, DebitAccount,
                    AdjustBalance, UpdateExpiry, Expire, RemoveAccount
<1>8. CASE StartStep
  BY <1>1, <1>5, <1>8 DEF StartStep, StartTrack, StartDone
<1>9. CASE UNCHANGED vars
  BY <1>1, <1>9 DEF vars
<1> QED
  BY <1>3, <1>4, <1>5, <1>6, <1>7, <1>8, <1>9 DEF Next

\* requestMtx: one request at a time is between its check and its association,
\* or between the interception of its answer and the end of the handler.
TurnInv ==
    \A r \in Reqs :
        /\ req[r].st = "new" => req[r].kind = "none"
        /\ \A q \in Reqs : {req[r].st, req[q].st} \subseteq {"checked", "replying"} => r = q

\* One request at a time has requestMtx after a step too.
LEMMA TurnStep == ASSUME IInv, TurnInv, [Next]_vars PROVE TurnInv'
<1>0. req \in [Reqs -> Requests]
  BY DEF IInv, TypeOK
<1>1. ASSUME NEW r \in Reqs, req'[r].st \in {"checked", "replying"}, req'[r] # req[r]
      PROVE  \A q \in Reqs : q # r => req'[q].st \notin {"checked", "replying"}
  <2>1. ASSUME MtxFree, \A q \in Reqs : q # r => req'[q] = req[q]
        PROVE  \A q \in Reqs : q # r => req'[q].st \notin {"checked", "replying"}
    BY <2>1 DEF MtxFree
  <2>2. ASSUME NEW a, NEW h, NEW k, NEW v, NEW f, CheckSend(r, a, h, k, v, f)
        PROVE  MtxFree /\ \A q \in Reqs : q # r => req'[q] = req[q]
    BY <1>0, <2>2 DEF CheckSend
  <2>3. ASSUME Intercept(r) PROVE MtxFree /\ \A q \in Reqs : q # r => req'[q] = req[q]
    BY <1>0, <2>3 DEF Intercept
  <2> QED
    BY <1>1, <2>1, <2>2, <2>3, TurnFrame
<1>2. ASSUME NEW r \in Reqs, NEW q \in Reqs, {req'[r].st, req'[q].st} \subseteq {"checked", "replying"}
      PROVE  r = q
  <2>1. req'[r] = req[r] /\ req'[q] = req[q] => r = q
    BY <1>2 DEF TurnInv
  <2> QED
    BY <1>1, <1>2, <2>1
<1>3. \A r \in Reqs : req'[r].st = "new" => req'[r].kind = "none"
  BY TurnFrame DEF TurnInv
<1> QED
  BY <1>2, <1>3 DEF TurnInv

\* A request keeps its kind, so all of them wait only if they did before.
LEMMA WaitingFrame == ASSUME IInv, TurnInv, [Next]_vars, Waiting' PROVE Waiting
  BY RequestFrame DEF Waiting, TurnInv

-----------------------------------------------------------------------------
(* What a step does to the entries and the balances of the accounts.  *)

Kept == \A a \in Accounts, h \in Hashes : payments'[a][h] = payments[a][h]

\* The entry of account a for h is the only one that the step may write.
OnlyEntry(a, h) ==
    \A b \in Accounts, g \in Hashes : b # a \/ g # h => payments'[b][g] = payments[b][g]

\* The step takes the reservation of account a for h back.
Released(a, h) ==
    OnlyEntry(a, h) /\ UNCHANGED balance /\ ~inflightState(payments'[a][h].status)

\* The step settles the tracked payment of h.
Debited(h) ==
    /\ OnlyEntry(pending[h], h)
    /\ inflightState(payments[pending[h]][h].status) /\ successState(payments'[pending[h]][h].status)
    /\ lnd[h].st = "succeeded"
    /\ balance' = [balance EXCEPT ![pending[h]] = @ - lnd[h].amt]

\* A goroutine releases or settles the payment it tracks.
LEMMA TrackerMoney ==
    ASSUME IInv, GoroutineInv, NEW g \in Hashes, TrackerStep(g)
    PROVE  /\ \A h \in Hashes : pending'[h] \in {pending[h], NoAcct}
           /\ \/ Kept /\ UNCHANGED balance
              \/ pending[g] \in Accounts /\ (Released(pending[g], g) \/ Debited(g))
<1> DEFINE Goal == /\ \A h \in Hashes : pending'[h] \in {pending[h], NoAcct}
                   /\ \/ Kept /\ UNCHANGED balance
                      \/ pending[g] \in Accounts /\ (Released(pending[g], g) \/ Debited(g))
<1> SUFFICES Goal
  OBVIOUS
<1>1. ASSUME NEW db \in StoreResults, NEW m, UNCHANGED balance,
             removePayment(IF Untracks(g, m, db) THEN {g} ELSE {}, "FAILED")
      PROVE  Goal
  <2> DEFINE S == IF Untracks(g, m, db) THEN {g} ELSE {}
  <2>1. removePayment(S, "FAILED") /\ S \in SUBSET {g} /\ \A i \in S : pending[i] # NoAcct
    BY <1>1 DEF Untracks
  <2> HIDE DEF S
  <2>2. /\ \A a \in Accounts, h \in Hashes :
              h \notin S \/ pending[h] # a => payments'[a][h] = payments[a][h]
        /\ \A h \in S : payments'[pending[h]][h].status = "FAILED"
        /\ \A h \in Hashes : pending'[h] = IF h \in S THEN NoAcct ELSE pending[h]
    BY <2>1, RemovedFacts, SMTT(20), Z3T(20)
  <2>3. CASE g \in S
    <3>1. pending[g] \in Accounts
      BY <2>1, <2>3, RowFacts
    <3>2. OnlyEntry(pending[g], g)
      BY <2>1, <2>2 DEF OnlyEntry
    <3> QED
      BY <1>1, <2>2, <2>3, <3>1, <3>2 DEF Released, inflightState
  <2>4. CASE g \notin S
    BY <1>1, <2>1, <2>2, <2>4 DEF Kept
  <2> QED
    BY <2>3, <2>4
<1>2. ASSUME NEW db \in StoreResults, TrackerUpdate(g, db) PROVE Goal
  <2> DEFINE m == tracker[g]
  <2>1. m \in {"SUCCEEDED", "FAILED"} /\ paymentUpdate(g, m, db)
    BY <1>2 DEF TrackerUpdate
  <2>2. CASE Debits(g, m, db)
    <3>1. /\ pending[g] \in Accounts /\ inflightState(payments[pending[g]][g].status)
          /\ payments' = [payments EXCEPT ![pending[g]][g] = [status |-> "SUCCEEDED", amt |-> lnd[g].amt]]
          /\ balance' = [balance EXCEPT ![pending[g]] = @ - lnd[g].amt]
          /\ pending' = [pending EXCEPT ![g] = IF db = "ok" THEN NoAcct ELSE @]
      BY <2>1, <2>2, DebitFacts, SMTT(20), Z3T(20)
    <3>2. OnlyEntry(pending[g], g) /\ successState(payments'[pending[g]][g].status)
      <4>1. payments \in [Accounts -> [Hashes -> PaymentEntry]]
        BY DEF IInv, TypeOK
      <4> DEFINE x == [status |-> "SUCCEEDED", amt |-> lnd[g].amt]
      <4>2. x.status = "SUCCEEDED"
        OBVIOUS
      <4>3. payments' = [payments EXCEPT ![pending[g]][g] = x] /\ pending[g] \in Accounts
        BY <3>1
      <4> HIDE DEF x
      <4>4. /\ payments'[pending[g]][g] = x
            /\ \A b \in Accounts, k \in Hashes :
                  b # pending[g] \/ k # g => payments'[b][k] = payments[b][k]
        BY <4>1, <4>3, EntryWritten
      <4> QED
        BY <4>2, <4>4 DEF OnlyEntry, successState
    <3>3. lnd[g].st = "succeeded"
      BY <2>2 DEF Debits, IInv, MailboxInv
    <3>4. \A h \in Hashes : pending'[h] \in {pending[h], NoAcct}
      BY <3>1 DEF IInv, TypeOK
    <3> QED
      BY <3>1, <3>2, <3>3, <3>4 DEF Debited
  <2>3. CASE ~Debits(g, m, db)
    <3>1. removePayment(IF Untracks(g, m, db) THEN {g} ELSE {}, "FAILED") /\ UNCHANGED balance
      BY <2>1, <2>3 DEF paymentUpdate
    <3> HIDE DEF Goal, m
    <3> QED
      BY <1>1, <3>1
  <2> QED
    BY <2>2, <2>3
<1>3. ASSUME NEW db \in StoreResults, TrackerNotInitiated(g, db) PROVE Goal
  <2> HIDE DEF Goal
  <2> QED
    BY <1>1, <1>3 DEF TrackerNotInitiated
<1>4. ASSUME TrackerError(g) \/ TrackerQuit(g) PROVE Goal
  BY <1>4 DEF TrackerError, TrackerQuit, storeVars, Kept
<1>5. stale[g] = {}
  BY DEF GoroutineInv
<1> HIDE DEF Goal
<1> QED
  BY <1>2, <1>3, <1>4, <1>5 DEF TrackerStep

\* What TrackPayment writes: the amount it is given, or the one it finds when it
\* is given none.
LEMMA TrackAmount ==
    ASSUME IInv, NEW a \in Accounts, NEW h \in Hashes, NEW amt \in Nat, NEW db, NEW router,
           TrackEffect(a, h, amt, TrackResult(a, h, amt, db, router))
    PROVE  /\ OnlyEntry(a, h)
           /\ \/ payments'[a][h] = payments[a][h]
              \/ /\ ~successState(payments[a][h].status) /\ payments'[a][h].status = "UNKNOWN"
                 /\ payments'[a][h].amt =
                       IF Known(payments[a][h]) /\ amt = 0 THEN payments[a][h].amt ELSE amt
           /\ \A g \in Hashes : g # h => pending'[g] = pending[g]
<1> DEFINE new == UpsertEntry(payments[a][h], amt, "UNKNOWN", TrackOpts(amt))
<1>1. new.amt = IF Known(payments[a][h]) /\ amt = 0 THEN payments[a][h].amt ELSE amt
  BY DEF UpsertEntry, TrackOpts
<1>2. payments'[a][h] = payments[a][h] \/ payments'[a][h] = new
  BY DEF TrackEffect, IInv, TypeOK
<1>3. \A b \in Accounts, g \in Hashes : b # a \/ g # h => payments'[b][g] = payments[b][g]
  BY DEF TrackEffect, IInv, TypeOK
<1>4. /\ payments'[a][h] = payments[a][h] \/ ~successState(payments[a][h].status)
      /\ payments'[a][h] = payments[a][h] \/ payments'[a][h].status = "UNKNOWN"
  BY TrackFacts, SMTT(20), Z3T(20)
<1>5. \A g \in Hashes : g # h => pending'[g] = pending[g]
  BY DEF TrackEffect, IInv, TypeOK
<1> HIDE DEF new
<1> QED
  BY <1>1, <1>2, <1>3, <1>4, <1>5 DEF OnlyEntry

\* Unless the operator changes a balance or removes an account, entries and
\* balances change in these ways only.
LEMMA MoneyFrame ==
    ASSUME "admin" \notin Faults, "remove" \notin Faults, IInv, OwnInv, GoroutineInv, [Next]_vars
    PROVE  \/ Kept /\ \A a \in accts : balance'[a] = balance[a]
           \/ \E g \in Hashes : /\ TrackerStep(g) /\ pending[g] \in Accounts
                                /\ Released(pending[g], g) \/ Debited(g)
           \/ \E r \in Reqs, db \in StoreResults :
                 PaymentErrored(r, db) /\ Released(req[r].acct, req[r].hash)
           \/ \E r \in Reqs, db \in StoreResults : AssociatePayment(r, db)
           \/ \E r \in Reqs, db \in StoreResults, router \in RouterResults : SendTracked(r, db, router)
           \/ \E p \in startQ, db \in StoreResults, router \in RouterResults : StartTrack(p, db, router)
<1> DEFINE Same == Kept /\ \A a \in accts : balance'[a] = balance[a]
           Track == \E g \in Hashes : /\ TrackerStep(g) /\ pending[g] \in Accounts
                                      /\ Released(pending[g], g) \/ Debited(g)
           Error == \E r \in Reqs, db \in StoreResults :
                       PaymentErrored(r, db) /\ Released(req[r].acct, req[r].hash)
           Writes == \/ \E r \in Reqs, db \in StoreResults : AssociatePayment(r, db)
                     \/ \E r \in Reqs, db \in StoreResults, router \in RouterResults :
                           SendTracked(r, db, router)
                     \/ \E p \in startQ, db \in StoreResults, router \in RouterResults :
                           StartTrack(p, db, router)
           Goal == Same \/ Track \/ Error \/ Writes
<1> SUFFICES Goal
  OBVIOUS
<1> HIDE DEF Track, Error, Writes
<1>1. ASSUME UNCHANGED <<payments, balance>> PROVE Goal
  BY <1>1 DEF Kept
<1>2. ASSUME NEW r \in Reqs, RequestStep(r) PROVE Goal
  <2>1. ASSUME NEW db \in StoreResults, PaymentErrored(r, db) PROVE Goal
    <3>1. /\ payments \in [Accounts -> [Hashes -> PaymentEntry]] /\ balance' = balance
          /\ req[r].acct \in Accounts /\ req[r].hash \in Hashes
      BY <2>1 DEF PaymentErrored, IInv, TypeOK, ReqInv
    <3>2. \/ payments' = payments
          \/ payments' = [payments EXCEPT ![req[r].acct][req[r].hash] = NotAssociated]
      BY <2>1 DEF PaymentErrored
    <3>3. CASE payments' = payments
      BY <3>1, <3>3 DEF Kept
    <3>4. CASE payments' = [payments EXCEPT ![req[r].acct][req[r].hash] = NotAssociated]
      <4> DEFINE b == req[r].acct
                 g == req[r].hash
      <4>1. b \in Accounts /\ g \in Hashes /\ payments' = [payments EXCEPT ![b][g] = NotAssociated]
        BY <3>1, <3>4
      <4> HIDE DEF b, g
      <4>2. /\ payments'[b][g] = NotAssociated
            /\ \A c \in Accounts, k \in Hashes : c # b \/ k # g => payments'[c][k] = payments[c][k]
        BY ONLY <3>1, <4>1, EntryWritten, SMTT(20), Z3T(20)
      <4>3. Released(b, g)
        <5>1. NotAssociated.status = "none"
          BY DEF NotAssociated
        <5>2. ~inflightState(payments'[b][g].status)
          BY <4>2, <5>1 DEF inflightState
        <5> QED
          BY <3>1, <4>2, <5>2 DEF Released, OnlyEntry
      <4> QED
        BY <2>1, <4>3 DEF Error, b, g
    <3> QED
      BY <3>2, <3>3, <3>4
  <2>2. ASSUME NEW db \in StoreResults, SendFailed(r, db) PROVE Goal
    <3>1. Kept
      BY <2>2, SendFailedFrame DEF GoroutineInv, Kept
    <3> QED
      BY <2>2, <3>1 DEF SendFailed
  <2> HIDE DEF Goal
  <2>3. ASSUME Writes PROVE Goal
    BY <2>3 DEF Goal
  <2> QED
    BY <1>1, <1>2, <2>1, <2>2, <2>3 DEF RequestStep, CheckSend, Intercept, storeVars, Writes
<1>3. ASSUME NEW g \in Hashes, TrackerStep(g) PROVE Goal
  <2>1. \/ Kept /\ UNCHANGED balance
        \/ pending[g] \in Accounts /\ (Released(pending[g], g) \/ Debited(g))
    BY <1>3, TrackerMoney
  <2> QED
    BY <1>3, <2>1 DEF Track
<1>4. ASSUME NEW b \in Accounts, AdminStep(b) PROVE Goal
  <2>1. ASSUME NewAccount(b) PROVE Goal
    BY <2>1 DEF NewAccount, Kept, IInv, TypeOK
  <2>2. ASSUME UpdateExpiry(b) \/ Expire(b) PROVE Goal
    BY <1>1, <2>2 DEF UpdateExpiry, Expire
  <2> HIDE DEF Goal
  <2> QED
    BY <1>4, <2>1, <2>2 DEF AdminStep, UpdateBalance, CreditAccount, DebitAccount, AdjustBalance,
                            RemoveAccount
<1> HIDE DEF Goal
<1>5. CASE LndStep \/ Crash \/ UNCHANGED vars
  BY <1>1, <1>5 DEF LndStep, LndStart, LndRefuse, LndResolve, Crash, vars, storeVars
<1>6. CASE StartStep
  <2>1. ASSUME Writes PROVE Goal
    BY <2>1 DEF Goal
  <2> QED
    BY <1>1, <1>6, <2>1 DEF StartStep, Start, StartDone, storeVars, Writes
<1> QED
  BY <1>2, <1>3, <1>4, <1>5, <1>6 DEF Next

\* A new account has the balance it is created with.
LEMMA NewFrame ==
    ASSUME [Next]_vars, NEW a \in accts', a \notin accts
    PROVE  NewAccount(a)
<1> DEFINE Goal == NewAccount(a)
<1> SUFFICES Goal
  OBVIOUS
<1>1. ASSUME accts' \subseteq accts PROVE Goal
  BY <1>1
<1>2. ASSUME NEW b \in Accounts, AdminStep(b) PROVE Goal
  <2>1. ASSUME NewAccount(b) PROVE Goal
    BY <2>1 DEF NewAccount
  <2> HIDE DEF Goal
  <2> QED
    BY <1>1, <1>2, <2>1 DEF AdminStep, UpdateBalance, CreditAccount, DebitAccount, AdjustBalance,
                            UpdateExpiry, Expire, RemoveAccount
<1> HIDE DEF Goal
<1>3. ASSUME NEW r \in Reqs, RequestStep(r) PROVE Goal
  BY <1>1, <1>3 DEF RequestStep, CheckSend, Intercept, AssociatePayment, PaymentErrored,
                    SendFailed, SendTracked, storeVars
<1>4. ASSUME NEW g \in Hashes, TrackerStep(g) PROVE Goal
  BY <1>1, <1>4 DEF TrackerStep, TrackerUpdate, TrackerNotInitiated, StaleUpdate, StaleExit,
                    TrackerError, TrackerQuit, storeVars
<1>5. CASE LndStep \/ Crash \/ UNCHANGED vars
  BY <1>1, <1>5 DEF LndStep, LndStart, LndRefuse, LndResolve, Crash, vars, storeVars
<1>6. CASE StartStep
  BY <1>1, <1>6 DEF StartStep, Start, StartTrack, StartDone, storeVars
<1> QED
  BY <1>2, <1>3, <1>4, <1>5, <1>6 DEF Next

\* Only an association makes lnd able to pay for another hash.
LEMMA BackedFrame ==
    ASSUME IInv, [Next]_vars, NEW h \in Hashes, Backed(h)', ~Backed(h)
    PROVE  \E r \in Reqs, db \in StoreResults : AssociatePayment(r, db) /\ req'[r].st = "accepted"
<1>1. ASSUME NEW r \in Reqs, req'[r].st = "accepted", req'[r].hash = h
      PROVE  \E q \in Reqs, db \in StoreResults : AssociatePayment(q, db) /\ req'[q].st = "accepted"
  <2>1. req[r].st # "accepted"
    BY <1>1, RequestFrame DEF Backed
  <2> QED
    BY <1>1, <2>1, RequestFrame
<1>2. CASE LndBusy(h)'
  <2>1. ~LndBusy(h)
    BY DEF Backed
  <2>2. PICK r \in Reqs : LndStart(r) /\ req[r].hash = h
    BY <1>2, <2>1, LndFrame DEF LndBusy
  <2> QED
    BY <2>2 DEF LndStart, Backed
<1> QED
  BY <1>1, <1>2 DEF Backed

\* While Start resumes payments nothing else writes their entries or tracks them.
LEMMA ResumedStep ==
    ASSUME "remove" \notin Faults, IInv, OwnInv, GoroutineInv, StartInv, [Next]_vars
    PROVE  StartInv'
<1>0. /\ \A p \in startQ : p.acct \in Accounts /\ p.hash \in Hashes /\ p.amt \in Nat
      /\ NoAcct \notin Accounts
  BY RowFacts DEF IInv, TypeOK
<1>1. ASSUME UNCHANGED <<startQ, phase, payments, pending>> PROVE StartInv'
  BY <1>1 DEF StartInv
<1>2. ASSUME startQ' = {} PROVE StartInv'
  BY <1>2 DEF StartInv
<1>3. CASE Start
  <2>1. \A p \in Resumed : p.hash \in Hashes /\ p.amt = payments[p.acct][p.hash].amt
    BY SMTT(20), Z3T(20) DEF Resumed
  <2>2. /\ startQ' = Resumed /\ phase' = "starting" /\ UNCHANGED <<payments, pending>>
        /\ \A h \in Hashes : pending[h] = NoAcct
    BY <1>3 DEF Start, storeVars, IInv, PhaseInv
  <2> QED
    BY <2>1, <2>2 DEF StartInv
<1>4. ASSUME NEW p \in startQ, NEW db \in StoreResults, NEW router \in RouterResults,
             StartTrack(p, db, router)
      PROVE  StartInv'
  <2>1. /\ startQ' = {} \/ (startQ' = startQ \ {p} /\ phase' = "starting")
        /\ TrackEffect(p.acct, p.hash, p.amt, TrackResult(p.acct, p.hash, p.amt, db, router))
    BY <1>4 DEF StartTrack
  <2>2. OnlyEntry(p.acct, p.hash) /\ \A g \in Hashes : g # p.hash => pending'[g] = pending[g]
    BY <1>0, <2>1, TrackAmount
  <2>3. ASSUME NEW q \in startQ, q # p PROVE q.hash # p.hash
    <3>1. q.hash = p.hash => q.acct = p.acct
      BY SMTT(20), Z3T(20) DEF OwnInv, RequestOf
    <3>2. q.hash = p.hash => q.amt = p.amt
      BY <3>1 DEF StartInv
    <3>3. /\ p \in [acct : Accounts, hash : Hashes, amt : Nat]
          /\ q \in [acct : Accounts, hash : Hashes, amt : Nat]
      BY DEF IInv, TypeOK
    <3> QED
      BY <2>3, <3>1, <3>2, <3>3, SMTT(20), Z3T(20)
  <2>4. CASE startQ' = startQ \ {p} /\ phase' = "starting"
    <3>1. ASSUME NEW q \in startQ' PROVE payments'[q.acct][q.hash].amt = q.amt /\ pending'[q.hash] = NoAcct
      <4>1. q \in startQ /\ q.hash # p.hash
        BY <2>3, <2>4
      <4> QED
        BY <1>0, <2>2, <4>1 DEF OnlyEntry, StartInv
    <3> QED
      BY <2>4, <3>1 DEF StartInv
  <2> QED
    BY <1>2, <2>1, <2>4
<1>5. ASSUME NEW g \in Hashes, TrackerStep(g) PROVE StartInv'
  <2>1. UNCHANGED <<startQ, phase>>
    BY <1>5 DEF TrackerStep, TrackerUpdate, TrackerNotInitiated, StaleUpdate, StaleExit,
                TrackerError, TrackerQuit
  <2>2. ASSUME NEW q \in startQ PROVE payments'[q.acct][q.hash].amt = q.amt /\ pending'[q.hash] = NoAcct
    <3>1. pending[q.hash] = NoAcct /\ payments[q.acct][q.hash].amt = q.amt
      BY DEF StartInv
    <3>2. pending'[q.hash] = NoAcct
      BY <1>0, <1>5, <3>1, TrackerMoney
    <3>3. Kept \/ (pending[g] \in Accounts /\ OnlyEntry(pending[g], g))
      BY <1>5, TrackerMoney DEF Released, Debited
    <3>4. payments'[q.acct][q.hash] = payments[q.acct][q.hash]
      BY <1>0, <3>1, <3>3 DEF Kept, OnlyEntry
    <3> QED
      BY <3>1, <3>2, <3>4
  <2> QED
    BY <2>1, <2>2 DEF StartInv
<1>6. ASSUME NEW r \in Reqs, RequestStep(r) PROVE StartInv'
  <2>1. UNCHANGED startQ
    BY <1>6 DEF RequestStep, CheckSend, Intercept, AssociatePayment, PaymentErrored, SendFailed,
                SendTracked, serviceVars
  <2>2. phase # "starting"
    BY <1>6 DEF RequestStep, CheckSend, Intercept, AssociatePayment, PaymentErrored, SendFailed,
                SendTracked, IInv, PhaseInv, MtxFree
  <2> QED
    BY <1>2, <2>1, <2>2 DEF StartInv
<1>7. ASSUME NEW a \in Accounts, AdminStep(a) PROVE StartInv'
  BY <1>1, <1>7 DEF AdminStep, NewAccount, UpdateBalance, CreditAccount, DebitAccount,
                    AdjustBalance, UpdateExpiry, Expire, RemoveAccount, serviceVars
<1>8. CASE LndStep \/ UNCHANGED vars
  BY <1>1, <1>8 DEF LndStep, LndStart, LndRefuse, LndResolve, vars, storeVars, serviceVars
<1>9. CASE Crash
  BY <1>2, <1>9 DEF Crash
<1>10. CASE StartStep
  BY <1>2, <1>3, <1>4, <1>10 DEF StartStep, StartDone
<1> QED
  BY <1>5, <1>6, <1>7, <1>8, <1>9, <1>10 DEF Next

\* lnd takes up a request or resolves a payment in a step of its own, and pays
\* no more than the value and the fee limit.
LEMMA ResolveFrame ==
    ASSUME IInv, [Next]_vars, NEW h \in Hashes, lnd'[h] # lnd[h]
    PROVE  /\ UNCHANGED payments
           /\ \/ /\ lnd[h].st = "inflight" /\ lnd'[h].req = lnd[h].req
                 /\ lnd'[h].st = "succeeded" => lnd'[h].amt =< Limit(req[lnd[h].req])
              \/ \E r \in Reqs : /\ LndStart(r) /\ req[r].hash = h
                                 /\ lnd'[h].st = "inflight" /\ lnd'[h].req = r
<1> DEFINE Goal == /\ UNCHANGED payments
                   /\ \/ /\ lnd[h].st = "inflight" /\ lnd'[h].req = lnd[h].req
                         /\ lnd'[h].st = "succeeded" => lnd'[h].amt =< Limit(req[lnd[h].req])
                      \/ \E r \in Reqs : /\ LndStart(r) /\ req[r].hash = h
                                         /\ lnd'[h].st = "inflight" /\ lnd'[h].req = r
<1> SUFFICES Goal
  OBVIOUS
<1>1. ASSUME UNCHANGED lnd PROVE Goal
  BY <1>1
<1>2. ASSUME NEW r \in Reqs, LndStart(r) PROVE Goal
  <2>1. lnd' = [lnd EXCEPT ![req[r].hash] = [st |-> "inflight", req |-> r, amt |-> 0]]
    BY <1>2 DEF LndStart
  <2>2. req[r].hash = h /\ lnd'[h].st = "inflight" /\ lnd'[h].req = r
    BY <2>1, SMTT(20), Z3T(20) DEF IInv, TypeOK
  <2> QED
    BY <1>2, <2>2 DEF LndStart, storeVars
<1>3. ASSUME NEW g \in Hashes, NEW ok \in BOOLEAN, NEW fee \in UNION {0 .. f : f \in FeeLimits},
             LndResolve(g, ok, fee)
      PROVE  Goal
  <2> DEFINE q == req[lnd[g].req]
  <2>1. /\ lnd[g].st = "inflight" /\ fee \in (IF q.kind = "route" THEN {q.fee} ELSE 0 .. q.fee)
        /\ lnd' = [lnd EXCEPT ![g] = [st |-> IF ok THEN "succeeded" ELSE "failed", req |-> @.req,
                                      amt |-> IF ok THEN q.val + fee ELSE 0]]
    BY <1>3 DEF LndResolve
  <2>2. q.val \in Nat /\ q.fee \in Nat
    BY <2>1 DEF IInv, TypeOK, LndInv, Requests
  <2> HIDE DEF q
  <2>3. fee \in Nat /\ fee =< q.fee
    BY <2>1, <2>2, SMTT(20), Z3T(20)
  <2>4. /\ g = h /\ lnd'[h].req = lnd[h].req
        /\ lnd'[h].st = "succeeded" => lnd'[h].amt = q.val + fee
    BY <2>1, SMTT(20), Z3T(20) DEF IInv, TypeOK
  <2>5. q.val + fee =< Limit(q)
    BY <2>2, <2>3, SMTT(20), Z3T(20) DEF Limit
  <2> QED
    BY <1>3, <2>1, <2>4, <2>5 DEF LndResolve, storeVars, q
<1> HIDE DEF Goal
<1>4. CASE LndStep
  BY <1>1, <1>2, <1>3, <1>4 DEF LndStep, LndRefuse
<1>5. ASSUME NEW r \in Reqs, RequestStep(r) PROVE Goal
  BY <1>1, <1>5 DEF RequestStep, CheckSend, Intercept, AssociatePayment, PaymentErrored,
                    SendFailed, SendTracked
<1>6. ASSUME NEW g \in Hashes, TrackerStep(g) PROVE Goal
  BY <1>1, <1>6 DEF TrackerStep, TrackerUpdate, TrackerNotInitiated, StaleUpdate, StaleExit,
                    TrackerError, TrackerQuit
<1>7. ASSUME NEW a \in Accounts, AdminStep(a) PROVE Goal
  BY <1>1, <1>7 DEF AdminStep, NewAccount, UpdateBalance, CreditAccount, DebitAccount,
                    AdjustBalance, UpdateExpiry, Expire, RemoveAccount
<1>8. CASE StartStep
  BY <1>1, <1>8 DEF StartStep, Start, StartTrack, StartDone
<1>9. CASE Crash \/ UNCHANGED vars
  BY <1>1, <1>9 DEF Crash, vars
<1> QED
  BY <1>4, <1>5, <1>6, <1>7, <1>8, <1>9 DEF Next

-----------------------------------------------------------------------------
\* The amount checked and reserved covers the value and the fee limit.
LEMMA SendCovers ==
    ASSUME NEW kind, NEW val \in Nat, NEW fee \in Nat
    PROVE  SendAmt(kind, val, fee) \in Nat /\ SendAmt(kind, val, fee) >= val + fee
  BY SMTT(20), Z3T(20) DEF SendAmt

\* AssociatePayment reserves for a payment that was not reserved, or does nothing.
LEMMA AssociateFacts ==
    ASSUME IInv, NEW r \in Reqs, NEW db \in StoreResults, AssociatePayment(r, db)
    PROVE  LET a == req[r].acct
               h == req[r].hash
           IN
           /\ a \in Accounts /\ h \in Hashes /\ req[r].st = "checked"
           /\ UNCHANGED <<accts, balance, lnd>> /\ \A q \in Reqs : q # r => req'[q] = req[q]
           /\ \/ req'[r].st = "done" /\ Kept
              \/ /\ req'[r].st = "accepted" /\ OnlyEntry(a, h)
                 /\ payments[a][h].status \in {"none", "FAILED"} /\ payments'[a][h].status = "UNKNOWN"
                 /\ payments'[a][h].amt = SendAmt(req[r].kind, req[r].val, req[r].fee)
<1> DEFINE a == req[r].acct
           h == req[r].hash
           amt == SendAmt(req[r].kind, req[r].val, req[r].fee)
           stored == a \in accts /\ UpsertError(payments[a][h], AssociateOpts) = "ok" /\ db = "ok"
           new == UpsertEntry(payments[a][h], amt, "UNKNOWN", AssociateOpts)
<1>1. /\ a \in Accounts /\ h \in Hashes /\ req[r].st = "checked" /\ UNCHANGED <<accts, balance, lnd>>
      /\ payments \in [Accounts -> [Hashes -> PaymentEntry]] /\ req \in [Reqs -> Requests]
  BY DEF AssociatePayment, IInv, TypeOK, ReqInv
<1>2. /\ payments' = IF stored THEN [payments EXCEPT ![a][h] = new] ELSE payments
      /\ req' = [req EXCEPT ![r] = Answered(@, IF stored THEN "accepted" ELSE "done", @.resp, @.amt)]
  BY DEF AssociatePayment, Moved
<1>3. new.status = "UNKNOWN" /\ new.amt = amt
  BY DEF UpsertEntry, AssociateOpts
<1>4. stored => payments[a][h].status \in {"none", "FAILED"}
  BY DEF UpsertError, AssociateOpts, Known
<1> HIDE DEF stored, new, amt
<1>5. /\ req'[r].st = IF stored THEN "accepted" ELSE "done"
      /\ \A q \in Reqs : q # r => req'[q] = req[q]
  BY <1>1, <1>2, AnsweredFields, SMTT(20), Z3T(20)
<1>6. /\ ~stored => Kept
      /\ stored => OnlyEntry(a, h) /\ payments'[a][h] = new
  BY <1>1, <1>2 DEF Kept, OnlyEntry
<1> QED
  BY <1>1, <1>3, <1>4, <1>5, <1>6 DEF amt

\* The payer of a hash is the account that has an entry for it.
LEMMA OnePayer ==
    ASSUME IInv, OwnInv, NEW h \in Hashes, lnd[h].st # "none", NEW a \in Accounts, Known(payments[a][h])
    PROVE  lnd[h].req \in Reqs /\ req[lnd[h].req].acct = a /\ PayerEntry(h) = payments[a][h]
<1>1. /\ lnd[h].req \in Reqs /\ lnd[h].req # NoReq /\ req[lnd[h].req].st # "new"
      /\ req[lnd[h].req].hash = h
  BY RequestsAssumption DEF IInv, TypeOK, LndInv
<1>2. req[lnd[h].req].acct = a
  BY <1>1, SMTT(20), Z3T(20) DEF OwnInv, RequestOf
<1> QED
  BY <1>1, <1>2, RowFacts DEF PayerEntry, Payer

\* No other live request is for the hash of a live one.
LEMMA OneLive ==
    ASSUME IInv, OwnInv, NEW r \in Reqs, NEW q \in Reqs, Live(r), Live(q), req[q].hash = req[r].hash
    PROVE  q = r
<1>1. req[q].acct = req[r].acct
  BY DEF OwnInv, Live, IInv, ValuesInv
<1> QED
  BY <1>1 DEF IInv, LiveInv

\* What is reserved for an accepted request stays.
LEMMA AssociatedStep ==
    ASSUME "admin" \notin Faults, "remove" \notin Faults, IInv, OwnInv, GoroutineInv, AcceptedInv,
           AcceptedInv', AssociatedInv, [Next]_vars
    PROVE  AssociatedInv'
<1> SUFFICES ASSUME NEW r \in Reqs, req'[r].st = "accepted"
             PROVE  payments'[req'[r].acct][req'[r].hash].amt >= Limit(req'[r])
  BY DEF AssociatedInv
<1> DEFINE a == req[r].acct
           h == req[r].hash
<1>1. req[r].val \in Nat /\ req[r].fee \in Nat
  BY DEF IInv, TypeOK, Requests
<1>2. CASE req[r].st # "accepted"
  <2>1. PICK db \in StoreResults : AssociatePayment(r, db)
    BY <1>2, RequestFrame
  <2>2. payments'[a][h].amt = SendAmt(req[r].kind, req[r].val, req[r].fee) /\ req[r].st # "new"
    BY <2>1, AssociateFacts
  <2>3. SendAmt(req[r].kind, req[r].val, req[r].fee) >= Limit(req[r])
    BY <1>1, SendCovers DEF Limit
  <2> QED
    BY <2>2, <2>3, RequestFrame DEF Limit
<1>3. CASE req[r].st = "accepted"
  <2>1. /\ req'[r].acct = a /\ req'[r].hash = h /\ Limit(req'[r]) = Limit(req[r])
        /\ a \in Accounts /\ h \in Hashes /\ payments[a][h].amt >= Limit(req[r])
    BY <1>3, RequestFrame DEF Limit, IInv, TypeOK, ReqInv, AssociatedInv
  <2>2. inflightState(payments[a][h].status) /\ inflightState(payments'[a][h].status)
    BY <1>3, <2>1 DEF AcceptedInv
  <2>3. phase # "down" => Live(r)
    BY <1>3 DEF AcceptedInv, Live
  <2>4. pending[h] = NoAcct
    BY <2>1, <2>3, LiveUntracked DEF GoroutineInv, IInv, PhaseInv
  <2> SUFFICES payments'[a][h] = payments[a][h]
    BY <2>1
  <2> HIDE DEF a, h
  <2>5. ASSUME NEW g \in Hashes, pending[g] \in Accounts, Released(pending[g], g) \/ Debited(g)
        PROVE  payments'[a][h] = payments[a][h]
    <3>1. g # h
      BY <2>4, <2>5, RowFacts
    <3> QED
      BY <2>1, <2>5, <3>1 DEF Released, Debited, OnlyEntry
  <2>6. ASSUME NEW q \in Reqs, Released(req[q].acct, req[q].hash)
        PROVE  payments'[a][h] = payments[a][h]
    BY <2>1, <2>2, <2>6 DEF Released, OnlyEntry
  <2>7. ASSUME NEW q \in Reqs, NEW db \in StoreResults, AssociatePayment(q, db)
        PROVE  payments'[a][h] = payments[a][h]
    BY <2>1, <2>2, <2>7, AssociateFacts DEF Kept, OnlyEntry, inflightState
  <2>8. ASSUME NEW q \in Reqs, NEW db \in StoreResults, NEW router \in RouterResults,
               SendTracked(q, db, router)
        PROVE  payments'[a][h] = payments[a][h]
    <3>1. /\ req[q].st = "replying" /\ Live(q) /\ phase = "up"
          /\ req[q].acct \in Accounts /\ req[q].hash \in Hashes /\ req[q].amt \in Nat
      BY <2>8 DEF SendTracked, IInv, TypeOK, Requests, ReqInv, ValuesInv, PhaseInv, MtxFree, Live
    <3>2. req[q].hash # h
      BY <1>3, <2>3, <3>1, OneLive DEF h
    <3>3. OnlyEntry(req[q].acct, req[q].hash)
      BY <2>8, <3>1, TrackAmount DEF SendTracked
    <3> QED
      BY <2>1, <3>2, <3>3 DEF OnlyEntry
  <2>9. ASSUME NEW p, NEW db, NEW router, StartTrack(p, db, router)
        PROVE  payments'[a][h] = payments[a][h]
    BY <2>3, <2>9 DEF StartTrack, IInv, PhaseInv, Live
  <2> QED
    BY <2>1, <2>5, <2>6, <2>7, <2>8, <2>9, MoneyFrame DEF Kept
<1> QED
  BY <1>2, <1>3

\* What is reserved for a payment that lnd is making, or has made, covers it
\* still: only an answer that says what it costs writes another amount.
LEMMA PaidStep ==
    ASSUME "admin" \notin Faults, "remove" \notin Faults, IInv, IInv', OwnInv, GoroutineInv,
           BusyInv, BusyInv', StartInv, AssociatedInv, PaidInv, AnswerInv, [Next]_vars
    PROVE  PaidInv'
<1> SUFFICES ASSUME NEW h \in Hashes, LndBusy(h)', ~successState(PayerEntry(h)'.status)
             PROVE  PayerEntry(h)'.amt >= (IF lnd'[h].st = "succeeded" THEN lnd'[h].amt
                                           ELSE Limit(req'[lnd'[h].req]))
  BY DEF PaidInv
<1> DEFINE r == lnd'[h].req
           a == req[r].acct
<1>1. r \in Reqs /\ r # NoReq
  BY RequestsAssumption DEF IInv, TypeOK, LndInv, LndBusy
<1>2. ASSUME req[r].st # "new"
      PROVE  /\ req'[r].acct = a /\ Limit(req'[r]) = Limit(req[r]) /\ Limit(req[r]) \in Nat
             /\ a \in Accounts /\ PayerEntry(h)' = payments'[a][h]
  <2>1. /\ req'[r].acct = a /\ Limit(req'[r]) = Limit(req[r])
        /\ a \in Accounts /\ a # NoAcct
    BY <1>1, <1>2, RequestFrame, RowFacts DEF IInv, TypeOK, ReqInv, Limit
  <2>2. Limit(req[r]) \in Nat
    <3>1. req[r].val \in Nat /\ req[r].fee \in Nat
      BY <1>1 DEF IInv, TypeOK, Requests
    <3> HIDE DEF r, a
    <3> QED
      BY <3>1, SMTT(20), Z3T(20) DEF Limit
  <2> QED
    BY <1>1, <2>1, <2>2 DEF PayerEntry, Payer
<1>3. ASSUME NEW q \in Reqs, UNCHANGED payments, LndStart(q), req[q].hash = h,
             lnd'[h].st = "inflight", r = q
      PROVE  payments'[a][h].amt >= Limit(req[r]) /\ req[r].st # "new"
  BY <1>3 DEF LndStart, AssociatedInv
<1>4. ASSUME LndBusy(h), lnd'[h].req = lnd[h].req
      PROVE  /\ req[r].st # "new" /\ req[r].hash = h /\ PayerEntry(h) = payments[a][h]
             /\ Known(payments[a][h]) /\ payments[a][h].status # "FAILED"
  <2>1. req[r].st # "new" /\ req[r].hash = h
    BY <1>1, <1>4 DEF IInv, LndInv
  <2>2. PayerEntry(h) = payments[a][h]
    BY <1>1, <1>2, <1>4, <2>1, RowFacts DEF PayerEntry, Payer
  <2> QED
    BY <1>4, <2>1, <2>2 DEF BusyInv
<1> HIDE DEF r
<1>5. CASE lnd'[h] # lnd[h]
  <2>1. ASSUME lnd[h].st = "inflight", lnd'[h].req = lnd[h].req, UNCHANGED payments,
               lnd'[h].st = "succeeded" => lnd'[h].amt =< Limit(req[lnd[h].req])
        PROVE  PayerEntry(h)'.amt >= (IF lnd'[h].st = "succeeded" THEN lnd'[h].amt ELSE Limit(req'[r]))
    <3>1. /\ req[r].st # "new" /\ PayerEntry(h) = payments[a][h] /\ r = lnd[h].req
      BY <1>4, <2>1 DEF LndBusy, r
    <3>2. PayerEntry(h)' = payments[a][h] /\ Limit(req'[r]) = Limit(req[r]) /\ Limit(req[r]) \in Nat
      BY <1>2, <2>1, <3>1
    <3>3. payments[a][h].amt >= Limit(req[r])
      BY <2>1, <3>1, <3>2 DEF PaidInv, LndBusy
    <3>4. a \in Accounts
      BY <1>2, <3>1
    <3> HIDE DEF a
    <3>5. lnd'[h].amt \in Nat /\ payments[a][h].amt \in Nat
      BY <3>4, SMTT(20), Z3T(20) DEF IInv, TypeOK, PaymentEntry
    <3>6. lnd'[h].st = "succeeded" => payments[a][h].amt >= lnd'[h].amt
      BY <2>1, <3>1, <3>2, <3>3, <3>5, SMTT(20), Z3T(20)
    <3> QED
      BY <3>2, <3>3, <3>6
  <2>2. ASSUME NEW q \in Reqs, UNCHANGED payments, LndStart(q), req[q].hash = h,
               lnd'[h].st = "inflight", r = q
        PROVE  PayerEntry(h)'.amt >= (IF lnd'[h].st = "succeeded" THEN lnd'[h].amt ELSE Limit(req'[r]))
    BY <1>2, <1>3, <2>2
  <2> QED
    BY <1>5, <2>1, <2>2, ResolveFrame DEF r
<1>6. CASE lnd'[h] = lnd[h]
  <2> DEFINE B == IF lnd[h].st = "succeeded" THEN lnd[h].amt ELSE Limit(req[r])
  <2>1. /\ LndBusy(h) /\ r = lnd[h].req /\ req[r].st # "new" /\ req[r].hash = h
        /\ PayerEntry(h) = payments[a][h] /\ payments[a][h].status \notin {"none", "FAILED"}
    BY <1>4, <1>6 DEF LndBusy, r, Known
  <2>2. /\ a \in Accounts /\ PayerEntry(h)' = payments'[a][h] /\ Limit(req'[r]) = Limit(req[r])
    BY <1>2, <2>1
  <2>3. inflightState(payments'[a][h].status)
    BY <2>2 DEF BusyInv, Known, inflightState, successState
  <2>4. ~successState(payments[a][h].status) => payments[a][h].amt >= B
    BY <2>1 DEF PaidInv
  <2> SUFFICES payments'[a][h].amt >= B
    BY <1>6, <2>2 DEF r
  <2>5. ASSUME payments'[a][h] = payments[a][h] PROVE payments'[a][h].amt >= B
    BY <2>3, <2>4, <2>5 DEF inflightState, successState
  <2> HIDE DEF a, B
  <2>6. ASSUME NEW b, NEW g, Released(b, g) PROVE payments'[a][h] = payments[a][h]
    BY <2>2, <2>3, <2>6 DEF Released, OnlyEntry
  <2>7. ASSUME NEW g, Debited(g) PROVE payments'[a][h] = payments[a][h]
    BY <2>2, <2>3, <2>7 DEF Debited, OnlyEntry, inflightState, successState
  <2>8. ASSUME NEW q \in Reqs, NEW db \in StoreResults, AssociatePayment(q, db)
        PROVE  payments'[a][h] = payments[a][h]
    BY <2>1, <2>2, <2>8, AssociateFacts DEF Kept, OnlyEntry
  <2>9. ASSUME NEW b \in Accounts, NEW g \in Hashes, NEW amt \in Nat, NEW db, NEW router,
               TrackEffect(b, g, amt, TrackResult(b, g, amt, db, router)),
               b = a /\ g = h => amt >= B \/ amt = payments[a][h].amt
        PROVE  payments'[a][h].amt >= B
    <3>1. OnlyEntry(b, g) /\ \/ payments'[b][g] = payments[b][g]
                             \/ /\ ~successState(payments[b][g].status)
                                /\ payments'[b][g].amt \in {payments[b][g].amt, amt}
      BY <2>9, TrackAmount
    <3> QED
      BY <2>2, <2>4, <2>5, <2>9, <3>1 DEF OnlyEntry
  <2>10. ASSUME NEW q \in Reqs, NEW db \in StoreResults, NEW router \in RouterResults,
                SendTracked(q, db, router)
         PROVE  payments'[a][h].amt >= B
    <3>1. /\ req[q].st = "replying" /\ req[q].resp \in {"IN_FLIGHT", "SUCCEEDED"}
          /\ req[q].acct \in Accounts /\ req[q].hash \in Hashes /\ req[q].amt \in Nat
          /\ TrackEffect(req[q].acct, req[q].hash, req[q].amt,
                         TrackResult(req[q].acct, req[q].hash, req[q].amt, db, router))
      BY <2>10 DEF SendTracked, IInv, TypeOK, Requests, ReqInv
    <3>2. req[q].hash = h => req[q].amt >= B
      BY <2>1, <3>1 DEF AnswerInv, B
    <3> QED
      BY <2>9, <3>1, <3>2
  <2>11. ASSUME NEW p \in startQ, NEW db, NEW router, StartTrack(p, db, router)
         PROVE  payments'[a][h].amt >= B
    <3>1. /\ p.acct \in Accounts /\ p.hash \in Hashes /\ p.amt \in Nat
          /\ p.acct = a /\ p.hash = h => p.amt = payments[a][h].amt
      BY DEF IInv, TypeOK, StartInv
    <3> QED
      BY <2>9, <2>11, <3>1 DEF StartTrack
  <2>12. ASSUME Kept PROVE payments'[a][h] = payments[a][h]
    BY <2>2, <2>12 DEF Kept
  <2> QED
    BY <2>5, <2>6, <2>7, <2>8, <2>10, <2>11, <2>12, MoneyFrame
<1> QED
  BY <1>5, <1>6 DEF r

\* An answer that arrives while lnd is busy with the hash is the one of a request
\* that lnd has paid.
LEMMA AnswerStep ==
    ASSUME Waiting, IInv, OwnInv, GoroutineInv, AcceptedInv, BusyInv, AnswerInv, [Next]_vars
    PROVE  AnswerInv'
<1> SUFFICES ASSUME NEW r \in Reqs, req'[r].st = "replying",
                    req'[r].resp \in {"IN_FLIGHT", "SUCCEEDED"},
                    lnd'[req'[r].hash].st \in {"inflight", "succeeded"}
             PROVE  /\ lnd'[req'[r].hash].st = "succeeded"
                    /\ req'[r].amt >= lnd'[req'[r].hash].amt
  BY DEF AnswerInv, LndBusy
<1> DEFINE h == req[r].hash
<1>1. CASE req'[r] = req[r]
  <2>1. Live(r) /\ h \in Hashes /\ phase = "up"
    BY <1>1 DEF IInv, ValuesInv, Live, ReqInv, PhaseInv, MtxFree
  <2>2. CASE lnd'[h] = lnd[h]
    BY <1>1, <2>2 DEF AnswerInv, LndBusy
  <2>3. CASE lnd'[h] # lnd[h]
    <3>1. lnd[h].st # "inflight"
      BY <1>1 DEF AnswerInv, LndBusy
    <3>2. PICK q \in Reqs : LndStart(q) /\ req[q].hash = h
      <4> HIDE DEF h
      <4> QED
        BY <2>1, <2>3, <3>1, ResolveFrame
    <3>3. Live(q) /\ req[q].st = "accepted"
      BY <2>1, <3>2 DEF LndStart, AcceptedInv, Live
    <3> QED
      BY <1>1, <2>1, <3>2, <3>3, OneLive
  <2> QED
    BY <2>2, <2>3
<1>2. CASE Intercept(r)
  <2>1. PICK answer \in Answers(r) :
            req' = IF Admits(req[r].acct) /\ r \in reqVals
                   THEN [req EXCEPT ![r] = Answered(@, "replying", answer.status, answer.amt)]
                   ELSE [req EXCEPT ![r] = Moved(@, "done")]
    BY <1>2 DEF Intercept
  <2>2. /\ req \in [Reqs -> Requests] /\ UNCHANGED lnd
        /\ req[r].st \in {"started", "refused", "payerr"}
    BY <1>2 DEF Intercept, IInv, TypeOK
  <2>3. r \in reqVals /\ req'[r] = Answered(req[r], "replying", answer.status, answer.amt)
    <3>1. Moved(req[r], "done").st = "done"
      BY DEF Moved, Answered
    <3>2. CASE Admits(req[r].acct) /\ r \in reqVals
      BY <2>1, <2>2, <3>2
    <3>3. CASE ~(Admits(req[r].acct) /\ r \in reqVals)
      <4>1. req'[r] = Moved(req[r], "done")
        BY <2>1, <2>2, <3>3
      <4> QED
        BY <3>1, <4>1
    <3> QED
      BY <3>2, <3>3
  <2>4. /\ req'[r].hash = h /\ req'[r].amt = answer.amt
        /\ answer.status \in {"IN_FLIGHT", "SUCCEEDED"}
    BY <2>3, AnsweredFields, SMTT(20), Z3T(20)
  <2>5. h \in Hashes /\ LndBusy(h) /\ Live(r)
    BY <2>2, <2>3, <2>4 DEF LndBusy, Live, IInv, ReqInv
  <2>6. lnd[h].req = r
    BY <2>5 DEF BusyInv
  <2>7. answer \in ResponseAnswers(r)
    <3>1. req[r].st \notin {"refused", "payerr"}
      BY <2>4, SMTT(20), Z3T(20) DEF Answers, Answer
    <3> QED
      BY <3>1 DEF Answers, Waiting
  <2>8. lnd[h].st = "succeeded" /\ answer = Answer("IN_FLIGHT", lnd[h].amt + (lnd[h].amt - req[r].val))
    BY <2>5, <2>6, <2>7 DEF ResponseAnswers, LndStatus, LndBusy
  <2>9. /\ lnd[h].amt \in Nat /\ req[r].val \in Nat /\ lnd[h].amt >= req[r].val
        /\ answer.amt = lnd[h].amt + (lnd[h].amt - req[r].val)
    <3>1. lnd[h].amt \in Nat /\ req[r].val \in Nat /\ lnd[h].amt >= req[r].val
      BY <2>2, <2>5, <2>6, <2>8, RequestsAssumption DEF IInv, TypeOK, LndInv, Requests
    <3> QED
      BY <2>8, <3>1 DEF Answer
  <2>10. answer.amt >= lnd[h].amt
    BY <2>9, SMTT(20), Z3T(20)
  <2> QED
    BY <2>2, <2>4, <2>8, <2>10
<1> QED
  BY <1>1, <1>2, TurnFrame
=============================================================================
