----------------------- MODULE AccountPaymentsBalance -----------------------
(***************************************************************************)
(* No balance becomes negative: what may still be debited is covered after *)
(* every check, reservation, payment and debit.                            *)
(***************************************************************************)
EXTENDS AccountPaymentsReserve

\* The backends, in turn, of each leaf below that names none of its own.
USE ZenonT(20), SMTT(40), Z3T(40)

\* What is reserved, or due, for a hash is a natural number.
LEMMA ReservedNat ==
    ASSUME NEW entries \in [Hashes -> PaymentEntry], IsFiniteSet(Hashes)
    PROVE  /\ \A h \in Hashes : Reserved(entries)[h] \in Nat
           /\ SumOver(Reserved(entries), Hashes) \in Nat
<1>1. \A h \in Hashes : Reserved(entries)[h] \in Nat
  BY SMTT(40), Z3T(40) DEF Reserved, PaymentEntry
<1> QED
  BY <1>1, SumNat

\* Taking a payment's amount off the balance needs no more than the
\* reservation it ends.
LEMMA DebitWithinReserve ==
    ASSUME NEW bal \in Int, NEW sum \in Nat, NEW need \in Nat, NEW rest \in Nat,
           NEW amt \in Nat, NEW entry \in Nat, bal >= sum + need, entry >= amt,
           rest = sum + (0 - entry)
    PROVE  bal - amt >= rest + need
  BY SMTT(40), Z3T(40)

\* A check stays good until the request is associated: until then nothing else
\* is reserved, and a payment that is debited had reserved as much.
LEMMA CheckStep ==
    ASSUME IsFiniteSet(Hashes), "admin" \notin Faults, "remove" \notin Faults,
           IInv, IInv', OwnInv, GoroutineInv, TurnInv, PaidInv, CheckInv, [Next]_vars
    PROVE  CheckInv'
<1> SUFFICES ASSUME NEW r \in Reqs, req'[r].st = "checked"
             PROVE  balance'[req'[r].acct] >= SumOver(Reserved(payments'[req'[r].acct]), Hashes)
                                              + SendAmt(req'[r].kind, req'[r].val, req'[r].fee)
  BY DEF CheckInv
<1>0. /\ payments \in [Accounts -> [Hashes -> PaymentEntry]] /\ balance \in [Accounts -> Int]
      /\ payments' \in [Accounts -> [Hashes -> PaymentEntry]] /\ balance' \in [Accounts -> Int]
      /\ req \in [Reqs -> Requests]
  BY DEF IInv, TypeOK
<1>1. ASSUME NEW a \in Accounts, NEW h \in Hashes, NEW k \in Kinds, NEW v \in Values,
             NEW f \in FeeLimits, CheckSend(r, a, h, k, v, f)
      PROVE  balance'[req'[r].acct] >= SumOver(Reserved(payments'[req'[r].acct]), Hashes)
                                       + SendAmt(req'[r].kind, req'[r].val, req'[r].fee)
  <2>1. /\ UNCHANGED <<balance, payments>> /\ req'[r] = Request("checked", a, h, k, v, f)
        /\ balance[a] - InFlightAmt(payments[a]) >= SendAmt(k, v, f)
    BY <1>0, <1>1 DEF CheckSend, storeVars, calcAvailableAccountBalance
  <2>2. req'[r].acct = a /\ req'[r].kind = k /\ req'[r].val = v /\ req'[r].fee = f
    BY <2>1, SMTT(40), Z3T(40) DEF Request
  <2>3. SendAmt(k, v, f) \in Nat
    BY AmountsAssumption, SendCovers
  <2>4. /\ InFlightAmt(payments[a]) = SumOver(Reserved(payments[a]), Hashes)
        /\ SumOver(Reserved(payments[a]), Hashes) \in Nat /\ balance[a] \in Int
    BY <1>0, InFlightSum, ReservedNat
  <2>5. balance[a] >= SumOver(Reserved(payments[a]), Hashes) + SendAmt(k, v, f)
    BY <2>1, <2>3, <2>4, SMTT(40), Z3T(40)
  <2> QED
    BY <2>1, <2>2, <2>5
<1>2. CASE req'[r] = req[r]
  <2> DEFINE a == req[r].acct
             old == Reserved(payments[a])
             new == Reserved(payments'[a])
             need == SendAmt(req[r].kind, req[r].val, req[r].fee)
  <2>1. req[r].st = "checked" /\ a \in Accounts /\ a \in accts /\ phase = "up"
    BY <1>2 DEF IInv, TypeOK, ReqInv, GoroutineInv, PhaseInv, MtxFree
  <2>2. /\ balance[a] >= SumOver(old, Hashes) + need /\ balance[a] \in Int /\ balance'[a] \in Int
        /\ \A h \in Hashes : old[h] \in Nat /\ new[h] \in Nat
        /\ SumOver(old, Hashes) \in Nat /\ SumOver(new, Hashes) \in Nat
    BY <1>0, <2>1, ReservedNat DEF CheckInv
  <2>3. need \in Nat
    BY <1>0, SendCovers DEF Requests
  <2> SUFFICES balance'[a] >= SumOver(new, Hashes) + need
    BY <1>2
  <2> HIDE DEF need
  <2>4. ASSUME balance'[a] = balance[a], \A h \in Hashes : new[h] =< old[h]
        PROVE  balance'[a] >= SumOver(new, Hashes) + need
    <3> HIDE DEF old, new
    <3>1. SumOver(new, Hashes) =< SumOver(old, Hashes)
      <4>1. \A h \in Hashes : new[h] \in Int /\ old[h] \in Int /\ new[h] =< old[h]
        BY <2>2, <2>4, SMTT(40), Z3T(40)
      <4> QED
        BY <4>1, SumLeq
    <3> QED
      BY <2>2, <2>3, <2>4, <3>1, SMTT(40), Z3T(40)
  <2>5. \A h \in Hashes : payments'[a][h] = payments[a][h] => new[h] = old[h]
    BY DEF Reserved
  <2>6. \A h \in Hashes : ~inflightState(payments'[a][h].status) => new[h] = 0
    BY DEF Reserved
  <2>7. \A h \in Hashes : inflightState(payments[a][h].status) => old[h] = payments[a][h].amt
    BY DEF Reserved
  <2> HIDE DEF old, new
  <2>8. ASSUME \A h \in Hashes : new[h] = old[h] \/ new[h] = 0 PROVE \A h \in Hashes : new[h] =< old[h]
    BY <2>2, <2>8, SMTT(40), Z3T(40)
  <2>9. ASSUME Kept, balance'[a] = balance[a] PROVE balance'[a] >= SumOver(new, Hashes) + need
    <3>1. \A h \in Hashes : new[h] = old[h]
      BY <2>1, <2>5, <2>9 DEF Kept
    <3> QED
      BY <2>4, <2>8, <2>9, <3>1
  <2>10. ASSUME NEW b \in Accounts, NEW g \in Hashes, Released(b, g)
         PROVE  balance'[a] >= SumOver(new, Hashes) + need
    <3>1. \A h \in Hashes : new[h] = old[h] \/ new[h] = 0
      BY <2>1, <2>5, <2>6, <2>10 DEF Released, OnlyEntry
    <3> QED
      BY <2>4, <2>8, <2>10, <3>1 DEF Released
  <2>11. ASSUME NEW g \in Hashes, pending[g] \in Accounts, Debited(g)
         PROVE  balance'[a] >= SumOver(new, Hashes) + need
    <3>1. CASE pending[g] # a
      <4>1. balance'[a] = balance[a] /\ \A h \in Hashes : new[h] = old[h]
        <5>1. /\ balance'[a] = balance[a]
              /\ \A h \in Hashes : payments'[a][h] = payments[a][h]
          BY <1>0, <2>1, <2>11, <3>1 DEF Debited, OnlyEntry
        <5> QED
          BY <2>5, <5>1
      <4> QED
        BY <2>4, <2>8, <4>1
    <3>2. CASE pending[g] = a
      <4>1. /\ balance'[a] = balance[a] - lnd[g].amt /\ lnd[g].st = "succeeded"
            /\ inflightState(payments[a][g].status) /\ ~inflightState(payments'[a][g].status)
        BY <1>0, <2>1, <2>11, <3>2 DEF Debited, inflightState, successState
      <4>2. payments[a][g].amt >= lnd[g].amt
        <5>1. PayerEntry(g) = payments[a][g]
          BY <2>1, <4>1, OnePayer DEF inflightState, Known
        <5> QED
          BY <4>1, <5>1 DEF PaidInv, LndBusy, inflightState, successState
      <4>3. old[g] = payments[a][g].amt /\ new[g] = 0
        BY <2>6, <2>7, <4>1
      <4>4. \A h \in Hashes \ {g} : new[h] = old[h]
        BY <2>1, <2>5, <2>11, <3>2 DEF Debited, OnlyEntry
      <4>5. SumOver(new, Hashes) = SumOver(old, Hashes) + (new[g] - old[g])
        <5>1. \A h \in Hashes : old[h] \in Int /\ new[h] \in Int
          BY <2>2, SMTT(40), Z3T(40)
        <5> QED
          BY <4>4, <5>1, SumChange, SMTT(40), Z3T(40)
      <4>6. lnd[g].amt \in Nat
        BY DEF IInv, TypeOK
      <4>7. SumOver(new, Hashes) = SumOver(old, Hashes) + (0 - payments[a][g].amt)
        BY <4>3, <4>5
      <4>8. payments[a][g].amt \in Nat
        BY <2>2, <4>3
      <4>9. balance[a] - lnd[g].amt >= SumOver(new, Hashes) + need
        BY <2>2, <2>3, <4>2, <4>6, <4>7, <4>8, DebitWithinReserve
      <4> QED
        BY <4>1, <4>9
    <3> QED
      BY <3>1, <3>2
  <2>12. ASSUME NEW q \in Reqs, req[q].st \in {"checked", "replying"}, req'[q].st # "checked" PROVE FALSE
    BY <1>2, <2>1, <2>12 DEF TurnInv
  <2>13. ASSUME NEW q \in Reqs, NEW db \in StoreResults, AssociatePayment(q, db) PROVE FALSE
    BY <2>12, <2>13, AssociateFacts
  <2>14. ASSUME NEW q \in Reqs, Replied(q), req[q].st = "replying" PROVE FALSE
    <3>1. req'[q].st = "done"
      BY <1>0, <2>14, AnsweredFields, SMTT(40), Z3T(40) DEF Replied
    <3> QED
      BY <2>12, <2>14, <3>1
  <2> HIDE DEF a
  <2> QED
    BY <2>1, <2>9, <2>10, <2>11, <2>13, <2>14, MoneyFrame DEF PaymentErrored, SendTracked, StartTrack
<1> QED
  BY <1>1, <1>2, TurnFrame

\* What is due for an entry that stays, of a hash that lnd could pay before, does
\* not grow: lnd pays no more than is reserved.
LEMMA DueFrame ==
    ASSUME IInv, IInv', OwnInv, PaidInv, [Next]_vars, NEW a \in Accounts, NEW h \in Hashes,
           payments'[a][h] = payments[a][h], Backed(h)' => Backed(h)
    PROVE  Due(a)'[h] =< Due(a)[h]
<1> DEFINE e == payments[a][h]
<1>0. /\ e.amt \in Nat /\ lnd[h].amt \in Nat /\ lnd'[h].amt \in Nat
  BY SMTT(40), Z3T(40) DEF IInv, TypeOK, PaymentEntry
<1>1. /\ Due(a)[h] = IF ~inflightState(e.status) \/ ~Backed(h) THEN 0
                     ELSE IF lnd[h].st = "succeeded" THEN lnd[h].amt ELSE e.amt
      /\ Due(a)'[h] = IF ~inflightState(e.status) \/ ~Backed(h)' THEN 0
                      ELSE IF lnd'[h].st = "succeeded" THEN lnd'[h].amt ELSE e.amt
  BY DEF Due
<1>2. CASE lnd'[h] = lnd[h] \/ ~inflightState(e.status) \/ ~Backed(h)'
  <2> HIDE DEF e
  <2>1. Due(a)'[h] = Due(a)[h] \/ Due(a)'[h] = 0
    BY <1>1, <1>2
  <2>2. Due(a)[h] \in Nat
    BY <1>0, <1>1, SMTT(40), Z3T(40)
  <2> QED
    BY <2>1, <2>2, SMTT(40), Z3T(40)
<1>3. CASE lnd'[h] # lnd[h] /\ inflightState(e.status) /\ Backed(h)'
  <2>1. lnd[h].st # "succeeded"
    <3>1. lnd[h].st = "inflight" \/ \E r \in Reqs : LndStart(r) /\ req[r].hash = h
      BY <1>3, ResolveFrame
    <3>2. ASSUME NEW r \in Reqs, LndStart(r), req[r].hash = h PROVE ~LndBusy(h)
      BY <3>2 DEF LndStart
    <3> QED
      BY <3>1, <3>2 DEF LndBusy
  <2>2. lnd'[h].st = "succeeded" => lnd'[h].amt =< e.amt
    <3> SUFFICES ASSUME lnd'[h].st = "succeeded" PROVE lnd'[h].amt =< e.amt
      OBVIOUS
    <3>1. lnd[h].st = "inflight" /\ lnd'[h].amt =< Limit(req[lnd[h].req])
      BY <1>3, ResolveFrame
    <3>2. PayerEntry(h) = e /\ lnd[h].req \in Reqs
      BY <1>3, <3>1, OnePayer DEF inflightState, Known
    <3>3. e.amt >= Limit(req[lnd[h].req])
      BY <1>3, <3>1, <3>2 DEF PaidInv, LndBusy, inflightState, successState
    <3>4. Limit(req[lnd[h].req]) \in Nat
      BY <3>2, SMTT(40), Z3T(40) DEF IInv, TypeOK, Requests, Limit
    <3> HIDE DEF e
    <3> QED
      BY <1>0, <3>1, <3>3, <3>4, SMTT(40), Z3T(40)
  <2>3. Due(a)[h] = e.amt /\ Due(a)'[h] \in {lnd'[h].amt, e.amt}
    BY <1>1, <1>3, <2>1
  <2> HIDE DEF e
  <2>4. CASE lnd'[h].st = "succeeded"
    BY <1>0, <2>2, <2>3, <2>4, SMTT(40), Z3T(40)
  <2>5. CASE lnd'[h].st # "succeeded"
    <3>1. Due(a)'[h] = e.amt
      BY <1>1, <1>3, <2>5
    <3> QED
      BY <1>0, <2>3, <3>1, SMTT(40), Z3T(40)
  <2> QED
    BY <2>4, <2>5
<1> QED
  BY <1>2, <1>3

\* What is due is an amount.
LEMMA DueNat ==
    ASSUME IInv, NEW a \in Accounts, NEW h \in Hashes
    PROVE  Due(a)[h] \in Nat /\ Due(a)[h] \in Int
<1>1. payments[a][h].amt \in Nat /\ lnd[h].amt \in Nat
  BY SMTT(40), Z3T(40) DEF IInv, TypeOK, PaymentEntry
<1>2. Due(a)[h] \in {0, payments[a][h].amt, lnd[h].amt}
  BY DEF Due
<1> QED
  BY <1>1, <1>2, SMTT(40), Z3T(40)

\* The same after the step.
LEMMA DueNatNext ==
    ASSUME IInv', NEW a \in Accounts, NEW h \in Hashes
    PROVE  Due(a)'[h] \in Nat /\ Due(a)'[h] \in Int
<1>1. payments'[a][h].amt \in Nat /\ lnd'[h].amt \in Nat
  BY SMTT(40), Z3T(40) DEF IInv, TypeOK, PaymentEntry
<1>2. Due(a)'[h] \in {0, payments'[a][h].amt, lnd'[h].amt}
  BY DEF Due
<1> QED
  BY <1>1, <1>2, SMTT(40), Z3T(40)

\* A step that does not associate and debits nothing leaves no more due.
LEMMA DueLess ==
    ASSUME IsFiniteSet(Hashes), IInv, IInv', NEW a \in Accounts,
           \A h \in Hashes : Due(a)'[h] =< Due(a)[h]
    PROVE  /\ SumOver(Due(a)', Hashes) =< SumOver(Due(a), Hashes)
           /\ SumOver(Due(a), Hashes) \in Int /\ SumOver(Due(a)', Hashes) \in Int
<1>1. \A h \in Hashes : Due(a)[h] \in Int /\ Due(a)'[h] \in Int
  BY DueNat, DueNatNext
<1> DEFINE old == Due(a)
           new == Due(a)'
<1> HIDE DEF old, new
<1>2. \A h \in Hashes : new[h] \in Int /\ old[h] \in Int /\ new[h] =< old[h]
  BY <1>1 DEF old, new
<1>3. SumOver(new, Hashes) =< SumOver(old, Hashes)
  BY <1>2, SumLeq
<1>4. SumOver(old, Hashes) \in Int /\ SumOver(new, Hashes) \in Int
  BY <1>2, SumInt
<1> QED
  BY <1>3, <1>4 DEF old, new

\* An association leaves no more due than the check has found available.
LEMMA CoverAssociate ==
    ASSUME IsFiniteSet(Hashes), IInv, IInv', OwnInv, BusyInv, PaidInv, CheckInv, [Next]_vars,
           NEW r \in Reqs, NEW db \in StoreResults, AssociatePayment(r, db), req'[r].st = "accepted",
           NEW a \in Accounts, a = req[r].acct
    PROVE  balance'[a] >= SumOver(Due(a)', Hashes)
<1> DEFINE g == req[r].hash
           amt == SendAmt(req[r].kind, req[r].val, req[r].fee)
           old == Reserved(payments[a])
           new == Reserved(payments'[a])
           due == Due(a)'
<1>1. /\ a \in Accounts /\ g \in Hashes /\ req[r].st = "checked" /\ UNCHANGED <<balance, lnd>>
      /\ OnlyEntry(a, g) /\ payments[a][g].status \in {"none", "FAILED"}
      /\ payments'[a][g].status = "UNKNOWN" /\ payments'[a][g].amt = amt
  BY AssociateFacts
<1>2. amt \in Nat
  BY SendCovers DEF IInv, TypeOK, Requests
<1> HIDE DEF amt
<1>3. /\ balance[a] >= SumOver(old, Hashes) + amt /\ balance[a] \in Int
      /\ \A h \in Hashes : old[h] \in Nat /\ new[h] \in Nat
      /\ SumOver(old, Hashes) \in Nat /\ SumOver(new, Hashes) \in Nat
  <2>1. balance[a] >= SumOver(old, Hashes) + amt
    BY <1>1 DEF CheckInv, amt
  <2>2. /\ balance[a] \in Int
        /\ payments[a] \in [Hashes -> PaymentEntry] /\ payments'[a] \in [Hashes -> PaymentEntry]
    BY <1>1 DEF IInv, TypeOK
  <2> QED
    BY <2>1, <2>2, ReservedNat
<1>4. SumOver(new, Hashes) = SumOver(old, Hashes) + amt
  <2>1. new[g] = amt /\ old[g] = 0
    BY <1>1 DEF Reserved, inflightState
  <2>2. \A h \in Hashes \ {g} : new[h] = old[h]
    BY <1>1 DEF Reserved, OnlyEntry
  <2> HIDE DEF old, new, g
  <2>3. \A h \in Hashes : old[h] \in Int /\ new[h] \in Int
    BY <1>3, SMTT(40), Z3T(40)
  <2>4. SumOver(new, Hashes) = SumOver(old, Hashes) + (new[g] - old[g])
    BY <1>1, <2>2, <2>3, SumChange, SMTT(40), Z3T(40)
  <2> QED
    BY <1>2, <1>3, <2>1, <2>4, SMTT(40), Z3T(40)
<1>5. ~LndBusy(g)
  <2> SUFFICES ASSUME LndBusy(g) PROVE FALSE
    OBVIOUS
  <2>1. lnd[g].req \in Reqs /\ lnd[g].req # NoReq /\ req[lnd[g].req].st # "new" /\ req[lnd[g].req].hash = g
    BY <1>1, RequestsAssumption DEF IInv, TypeOK, LndInv, LndBusy
  <2>2. req[lnd[g].req].acct = a
    BY <1>1, <2>1 DEF OwnInv
  <2>3. PayerEntry(g) = payments[a][g]
    BY <1>1, <2>1, <2>2, RowFacts DEF PayerEntry, Payer
  <2> QED
    BY <1>1, <2>3 DEF BusyInv, Known
<1>6. ASSUME NEW h \in Hashes PROVE due[h] =< new[h]
  <2>0. due[h] = IF ~inflightState(payments'[a][h].status) \/ ~Backed(h)' THEN 0
                 ELSE IF lnd[h].st = "succeeded" THEN lnd[h].amt ELSE payments'[a][h].amt
    BY <1>1 DEF Due
  <2>1. CASE ~inflightState(payments'[a][h].status) \/ ~Backed(h)'
    <3>1. due[h] = 0
      BY <2>0, <2>1
    <3> HIDE DEF due, new
    <3> QED
      BY <1>3, <3>1, SMTT(40), Z3T(40)
  <2>2. CASE inflightState(payments'[a][h].status) /\ Backed(h)' /\ lnd[h].st # "succeeded"
    <3>1. due[h] = new[h]
      BY <2>0, <2>2 DEF Reserved
    <3> HIDE DEF due, new
    <3> QED
      BY <1>3, <3>1, SMTT(40), Z3T(40)
  <2>3. CASE inflightState(payments'[a][h].status) /\ Backed(h)' /\ lnd[h].st = "succeeded"
    <3>1. h # g
      BY <1>5, <2>3 DEF LndBusy
    <3>2. payments'[a][h] = payments[a][h]
      BY <1>1, <3>1 DEF OnlyEntry
    <3>3. PayerEntry(h) = payments[a][h]
      BY <1>1, <2>3, <3>2, OnePayer DEF inflightState, Known
    <3>4. payments[a][h].amt >= lnd[h].amt
      BY <2>3, <3>2, <3>3 DEF PaidInv, LndBusy, inflightState, successState
    <3>5. due[h] = lnd[h].amt /\ new[h] = payments[a][h].amt
      BY <2>0, <2>3, <3>2 DEF Reserved
    <3>6. lnd[h].amt \in Nat /\ new[h] \in Nat
      BY <1>3 DEF IInv, TypeOK
    <3> HIDE DEF due, new
    <3> QED
      BY <3>4, <3>5, <3>6, SMTT(40), Z3T(40)
  <2> QED
    BY <2>1, <2>2, <2>3
<1>7. \A h \in Hashes : due[h] \in Int /\ new[h] \in Int /\ due[h] =< new[h]
  <2>1. \A h \in Hashes : due[h] \in Int
    BY DueNatNext
  <2> HIDE DEF due, new
  <2> QED
    BY <1>3, <1>6, <2>1, SMTT(40), Z3T(40)
<1>8. SumOver(due, Hashes) =< SumOver(new, Hashes) /\ SumOver(due, Hashes) \in Int
  <2> HIDE DEF due, new
  <2> QED
    BY <1>7, SumLeq, SumInt
<1>9. balance'[a] = balance[a]
  BY <1>1
<1> HIDE DEF due, new, old
<1>10. balance'[a] >= SumOver(due, Hashes)
  BY <1>3, <1>2, <1>4, <1>8, <1>9, SMTT(40), Z3T(40)
<1> QED
  BY <1>10 DEF due

\* TrackPayment leaves no more due: it changes the amount of a payment that lnd
\* can pay only once lnd has paid it.
LEMMA DueTracked ==
    ASSUME IInv, IInv', OwnInv, PaidInv, [Next]_vars, NEW b \in Accounts, NEW g \in Hashes,
           NEW amt \in Nat, NEW db, NEW router, UNCHANGED lnd,
           TrackEffect(b, g, amt, TrackResult(b, g, amt, db, router)),
           Backed(g) => /\ inflightState(payments[b][g].status)
                        /\ lnd[g].st = "succeeded" \/ amt = payments[b][g].amt,
           \A h \in Hashes : Backed(h)' => Backed(h),
           NEW a \in Accounts, NEW h \in Hashes
    PROVE  Due(a)'[h] =< Due(a)[h]
<1>1. /\ OnlyEntry(b, g)
      /\ payments'[b][g] = payments[b][g] \/ payments'[b][g].amt \in {payments[b][g].amt, amt}
  BY TrackAmount
<1>2. CASE payments'[a][h] = payments[a][h]
  BY <1>2, DueFrame
<1>3. CASE payments'[a][h] # payments[a][h]
  <2>1. a = b /\ h = g
    BY <1>1, <1>3 DEF OnlyEntry
  <2>2. Due(a)'[h] = Due(a)[h] \/ Due(a)'[h] = 0
    BY <1>1, <1>3, <2>1 DEF Due
  <2>3. Due(a)[h] \in Nat
    BY DueNat
  <2> QED
    BY <2>2, <2>3, SMTT(40), Z3T(40)
<1> QED
  BY <1>2, <1>3

\* An association by one account adds nothing to what another account owes.
LEMMA DueOthers ==
    ASSUME IInv, IInv', OwnInv, OwnInv', PaidInv, [Next]_vars,
           NEW r \in Reqs, NEW db \in StoreResults, AssociatePayment(r, db), req'[r].st = "accepted",
           NEW a \in Accounts, a # req[r].acct, NEW h \in Hashes
    PROVE  Due(a)'[h] =< Due(a)[h] /\ payments'[a][h] = payments[a][h]
<1>1. /\ req[r].st = "checked" /\ UNCHANGED lnd /\ OnlyEntry(req[r].acct, req[r].hash)
      /\ \A q \in Reqs : q # r => req'[q] = req[q]
  BY AssociateFacts
<1>2. payments'[a][h] = payments[a][h]
  BY <1>1 DEF OnlyEntry
<1>3. CASE Backed(h)' => Backed(h)
  BY <1>2, <1>3, DueFrame
<1>4. CASE Backed(h)' /\ ~Backed(h)
  <2>1. ~LndBusy(h)'
    BY <1>1, <1>4 DEF Backed, LndBusy
  <2>2. PICK q \in Reqs : req'[q].st = "accepted" /\ req'[q].hash = h
    BY <1>4, <2>1 DEF Backed
  <2>3. q = r
    BY <1>1, <1>4, <2>2 DEF Backed, IInv, TypeOK
  <2>4. req[r].hash = h
    BY <2>2, <2>3, RequestFrame, <1>1
  <2>5. ~Known(payments[a][h])
    BY <1>1, <2>4, SMTT(40), Z3T(40) DEF OwnInv, RequestOf
  <2>6. Due(a)'[h] = 0
    BY <1>2, <2>5 DEF Due, Known, inflightState
  <2>7. Due(a)[h] \in Nat
    BY DueNat
  <2> QED
    BY <1>2, <2>6, <2>7, SMTT(40), Z3T(40)
<1> QED
  BY <1>2, <1>3, <1>4

\* A debit takes as much from what is owed as from the balance.
LEMMA StillCovers ==
    ASSUME NEW b \in Int, NEW x \in Int, NEW before \in Int, NEW m \in Int, NEW after \in Int,
           b >= before, m = before + (0 - x), after =< m
    PROVE  b - x >= after
  BY SMTT(40), Z3T(40)

\* A debit takes no more than was due for the payment.
LEMMA CoverDebit ==
    ASSUME IsFiniteSet(Hashes), IInv, IInv', OwnInv, PaidInv, CoverInv, [Next]_vars,
           NEW a \in accts, NEW g \in Hashes, pending[g] = a, Debited(g),
           \A h \in Hashes : Backed(h)' => Backed(h)
    PROVE  balance'[a] >= SumOver(Due(a)', Hashes)
<1> DEFINE old == Due(a)
           new == Due(a)'
           mid == [h \in Hashes |-> IF h = g THEN 0 ELSE old[h]]
<1>0. a \in Accounts /\ balance \in [Accounts -> Int] /\ lnd[g].amt \in Nat
  BY DEF IInv, TypeOK
<1>1. old[g] = lnd[g].amt /\ new[g] = 0
  BY DEF Due, Debited, Backed, LndBusy, inflightState, successState
<1>2. \A h \in Hashes : old[h] \in Int /\ new[h] \in Int
  BY <1>0, DueNat, DueNatNext
<1>3. \A h \in Hashes : mid[h] \in Int /\ new[h] =< mid[h]
  <2> SUFFICES ASSUME NEW h \in Hashes PROVE mid[h] \in Int /\ new[h] =< mid[h]
    OBVIOUS
  <2>1. CASE h = g
    <3> HIDE DEF new, old
    <3> QED
      BY <1>1, <2>1, SMTT(40), Z3T(40)
  <2>2. CASE h # g
    <3>1. payments'[a][h] = payments[a][h]
      BY <1>0, <2>2 DEF Debited, OnlyEntry
    <3>2. new[h] =< old[h]
      BY <1>0, <3>1, DueFrame
    <3> HIDE DEF new, old
    <3> QED
      BY <1>2, <2>2, <3>2
  <2> QED
    BY <2>1, <2>2
<1>4. balance[a] >= SumOver(old, Hashes) /\ balance'[a] = balance[a] - lnd[g].amt
  BY <1>0 DEF CoverInv, Debited
<1> HIDE DEF old, new
<1>5. \A h \in Hashes \ {g} : mid[h] = old[h]
  OBVIOUS
<1>6. mid[g] = 0
  OBVIOUS
<1> HIDE DEF mid
<1>7. SumOver(mid, Hashes) = SumOver(old, Hashes) + (mid[g] - old[g])
  BY <1>2, <1>3, <1>5, SumChange, SMTT(40), Z3T(40)
<1>8. SumOver(new, Hashes) =< SumOver(mid, Hashes)
  BY <1>2, <1>3, SumLeq
<1>9. SumOver(new, Hashes) \in Int /\ SumOver(old, Hashes) \in Int /\ SumOver(mid, Hashes) \in Int
  BY <1>2, <1>3, SumInt
<1>10. balance[a] \in Int
  BY <1>0
<1>11. lnd[g].amt \in Int
  BY <1>1, <1>2
<1>12. balance'[a] >= SumOver(new, Hashes)
  <2>1. SumOver(mid, Hashes) = SumOver(old, Hashes) + (0 - lnd[g].amt)
    BY <1>1, <1>6, <1>7
  <2>2. balance[a] - lnd[g].amt >= SumOver(new, Hashes)
    BY <1>4, <1>8, <1>9, <1>10, <1>11, <2>1, StillCovers
  <2> QED
    BY <1>4, <2>2
<1> QED
  BY <1>12 DEF new

\* Nothing due for any payment is nothing due.
LEMMA SumZero ==
    ASSUME IsFiniteSet(Hashes), NEW f, \A h \in Hashes : f[h] = 0
    PROVE  SumOver(f, Hashes) = 0
<1>1. {} \in SUBSET Hashes /\ \A h \in Hashes : f[h] \in Int
  BY SMTT(40), Z3T(40)
<1>2. SumOver(f, Hashes) = SumOver(f, {})
  BY <1>1, SumSupport
<1> QED
  BY <1>2, SumEmpty

\* A new account owes nothing.
LEMMA CoverNew ==
    ASSUME IsFiniteSet(Hashes), IInv, [Next]_vars, NEW a \in accts', a \in Accounts, a \notin accts
    PROVE  balance'[a] >= SumOver(Due(a)', Hashes)
<1> DEFINE due == Due(a)'
<1>1. NewAccount(a)
  BY NewFrame
<1>2. balance'[a] = InitBalance /\ UNCHANGED payments
  BY <1>1 DEF NewAccount, IInv, TypeOK
<1>3. \A h \in Hashes : due[h] = 0
  BY <1>2, SMTT(40), Z3T(40) DEF IInv, StoreInv, Due, NotAssociated, inflightState
<1> HIDE DEF due
<1>5. SumOver(due, Hashes) = 0
  BY <1>3, SumZero
<1>6. balance'[a] >= SumOver(due, Hashes)
  BY <1>2, <1>5, AmountsAssumption, SMTT(40), Z3T(40)
<1> QED
  BY <1>6 DEF due

\* What Start resumes is in flight if lnd pays it or may still pay it.
LEMMA ResumedBacked ==
    ASSUME IInv, OwnInv, AcceptedInv, BusyInv, NEW p \in startQ,
           p.acct \in Accounts, p.hash \in Hashes, Backed(p.hash),
           ~successState(payments[p.acct][p.hash].status)
    PROVE  inflightState(payments[p.acct][p.hash].status)
<1> DEFINE a == p.acct
           h == p.hash
<1>1. PICK r \in Reqs : RequestOf(r, a, h)
  BY DEF OwnInv
<1>2. CASE LndBusy(h)
  <2>1. lnd[h].req \in Reqs /\ lnd[h].req # NoReq /\ req[lnd[h].req].st # "new" /\ req[lnd[h].req].hash = h
    BY <1>2, RequestsAssumption DEF IInv, TypeOK, LndInv, LndBusy
  <2>2. req[lnd[h].req].acct = a
    BY <1>1, <2>1, SMTT(40), Z3T(40) DEF OwnInv, RequestOf
  <2>3. PayerEntry(h) = payments[a][h]
    BY <2>1, <2>2, RowFacts DEF PayerEntry, Payer
  <2> QED
    BY <1>2, <2>3 DEF BusyInv, Known, IInv, TypeOK, PaymentEntry, inflightState, successState
<1>3. CASE \E q \in Reqs : req[q].st = "accepted" /\ req[q].hash = h
  <2>1. PICK q \in Reqs : req[q].st = "accepted" /\ req[q].hash = h
    BY <1>3
  <2>2. req[q].acct = a
    BY <1>1, <2>1, SMTT(40), Z3T(40) DEF OwnInv, RequestOf
  <2> QED
    BY <2>1, <2>2 DEF AcceptedInv
<1> QED
  BY <1>2, <1>3 DEF Backed

\* An account can pay what is due after a step too.
LEMMA CoverStep ==
    ASSUME IsFiniteSet(Hashes), "admin" \notin Faults, "remove" \notin Faults, IInv, IInv',
           OwnInv, OwnInv', GoroutineInv, AcceptedInv, BusyInv, StartInv, PaidInv,
           AnswerInv, CheckInv, CoverInv, [Next]_vars
    PROVE  CoverInv'
<1> SUFFICES ASSUME NEW a \in accts' PROVE balance'[a] >= SumOver(Due(a)', Hashes)
  BY DEF CoverInv
<1> DEFINE Goal == balance'[a] >= SumOver(Due(a)', Hashes)
<1> SUFFICES Goal
  OBVIOUS
<1>0. a \in Accounts
  BY DEF IInv, TypeOK
<1>1. CASE a \notin accts
  BY <1>0, <1>1, CoverNew
<1>2. CASE a \in accts
  <2>0. balance[a] >= SumOver(Due(a), Hashes)
    BY <1>2 DEF CoverInv
  <2>1. ASSUME balance'[a] = balance[a], \A h \in Hashes : Due(a)'[h] =< Due(a)[h]
        PROVE  Goal
    <3> DEFINE old == SumOver(Due(a), Hashes)
               new == SumOver(Due(a)', Hashes)
    <3>1. new =< old /\ old \in Int /\ new \in Int
      BY <1>0, <2>1, DueLess
    <3>2. balance[a] \in Int /\ balance[a] >= old
      BY <1>0, <2>0 DEF IInv, TypeOK
    <3>3. Goal <=> balance[a] >= new
      BY <2>1
    <3> HIDE DEF old, new, Goal
    <3> QED
      BY <3>1, <3>2, <3>3, SMTT(40), Z3T(40)
  <2> HIDE DEF Goal
  <2>2. ASSUME NEW r \in Reqs, NEW db \in StoreResults, AssociatePayment(r, db), req'[r].st = "accepted"
        PROVE  Goal
    <3>1. balance'[a] = balance[a]
      BY <2>2, AssociateFacts
    <3>2. CASE a = req[r].acct
      BY <1>0, <2>2, <3>2, CoverAssociate DEF Goal
    <3>3. CASE a # req[r].acct
      <4>1. \A h \in Hashes : Due(a)'[h] =< Due(a)[h]
        BY <1>0, <2>2, <3>3, DueOthers
      <4> QED
        BY <2>1, <3>1, <4>1
    <3> QED
      BY <3>2, <3>3
  <2>3. ASSUME \A h \in Hashes : Backed(h)' => Backed(h)
        PROVE  Goal
    <3>1. CASE Kept /\ \A b \in accts : balance'[b] = balance[b]
      <4>1. \A h \in Hashes : Due(a)'[h] =< Due(a)[h]
        BY <1>0, <2>3, <3>1, DueFrame DEF Kept
      <4> QED
        BY <1>2, <2>1, <3>1, <4>1
    <3>2. ASSUME NEW b \in Accounts, NEW g \in Hashes, Released(b, g) PROVE Goal
      <4>1. ASSUME NEW h \in Hashes PROVE Due(a)'[h] =< Due(a)[h]
        <5>1. CASE payments'[a][h] = payments[a][h]
          BY <1>0, <2>3, <5>1, DueFrame
        <5>2. CASE payments'[a][h] # payments[a][h]
          <6>1. ~inflightState(payments'[a][h].status)
            BY <1>0, <3>2, <5>2 DEF Released, OnlyEntry
          <6>2. Due(a)'[h] = 0
            BY <6>1 DEF Due
          <6>3. Due(a)[h] \in Nat
            BY <1>0, DueNat
          <6> QED
            BY <6>2, <6>3, SMTT(40), Z3T(40)
        <5> QED
          BY <5>1, <5>2
      <4>2. balance'[a] = balance[a]
        BY <3>2 DEF Released
      <4> QED
        BY <2>1, <4>1, <4>2
    <3>3. ASSUME NEW g \in Hashes, TrackerStep(g), pending[g] \in Accounts, Debited(g) PROVE Goal
      <4>1. CASE pending[g] = a
        BY <1>2, <2>3, <3>3, <4>1, CoverDebit DEF Goal
      <4>2. CASE pending[g] # a
        <5>1. balance'[a] = balance[a]
          BY <1>0, <3>3, <4>2 DEF Debited, IInv, TypeOK
        <5>2. \A h \in Hashes : payments'[a][h] = payments[a][h]
          BY <1>0, <3>3, <4>2 DEF Debited, OnlyEntry
        <5>3. \A h \in Hashes : Due(a)'[h] =< Due(a)[h]
          BY <1>0, <2>3, <5>2, DueFrame
        <5> QED
          BY <2>1, <5>1, <5>3
      <4> QED
        BY <4>1, <4>2
    <3>4. ASSUME NEW r \in Reqs, NEW db \in StoreResults, AssociatePayment(r, db) PROVE Goal
      <4>1. UNCHANGED balance
        BY <3>4, AssociateFacts
      <4>2. req'[r].st = "accepted" \/ Kept
        BY <3>4, AssociateFacts
      <4> QED
        BY <2>2, <3>1, <3>4, <4>1, <4>2
    <3>5. ASSUME NEW r \in Reqs, NEW db \in StoreResults, NEW router \in RouterResults,
                 SendTracked(r, db, router)
          PROVE  Goal
      <4> DEFINE b == req[r].acct
                 g == req[r].hash
      <4>1. /\ req[r].st = "replying" /\ req[r].resp \in {"IN_FLIGHT", "SUCCEEDED"}
            /\ TrackEffect(b, g, req[r].amt, TrackResult(b, g, req[r].amt, db, router))
            /\ UNCHANGED <<balance, lnd>>
        BY <3>5 DEF SendTracked
      <4>2. b \in Accounts /\ g \in Hashes /\ req[r].amt \in Nat /\ Live(r)
        <5>1. req[r] \in Requests
          BY DEF IInv, TypeOK
        <5>2. g \in Hashes /\ b \in accts \cup gone
          BY <4>1 DEF IInv, ReqInv
        <5>3. Live(r)
          BY <4>1 DEF IInv, ValuesInv, Live
        <5> QED
          BY <5>1, <5>2, <5>3 DEF IInv, TypeOK, Requests
      <4>3. ASSUME Backed(g) PROVE lnd[g].st = "succeeded" /\ inflightState(payments[b][g].status)
        <5>1. LndBusy(g)
          <6> SUFFICES ASSUME NEW q \in Reqs, req[q].st = "accepted", req[q].hash = g PROVE FALSE
            BY <4>3 DEF Backed
          <6>1. Live(q)
            BY <4>1 DEF AcceptedInv, Live, IInv, PhaseInv, MtxFree
          <6> QED
            BY <4>1, <4>2, <6>1, OneLive
        <5>2. lnd[g].st = "succeeded"
          BY <4>1, <5>1 DEF AnswerInv
        <5>3. b \in accts \/ payments[b][g] = NotAssociated
          BY <4>2 DEF IInv, StoreInv
        <5>4. lnd[g].req = r
          BY <4>2, <5>1 DEF BusyInv
        <5>5. PayerEntry(g) = payments[b][g]
          BY <4>2, <5>4, RowFacts, RequestsAssumption DEF PayerEntry, Payer
        <5>6. b \in accts
          <6>1. payments[b][g].status # "none"
            BY <4>2, <5>1, <5>5 DEF BusyInv, Known
          <6>2. NotAssociated.status = "none"
            BY DEF NotAssociated
          <6> QED
            BY <5>3, <6>1, <6>2
        <5> QED
          BY <4>2, <5>2, <5>6 DEF IInv, LiveInv
      <4>4. \A h \in Hashes : Due(a)'[h] =< Due(a)[h]
        <5> HIDE DEF b, g
        <5> QED
          BY <1>0, <2>3, <4>1, <4>2, <4>3, DueTracked
      <4> QED
        BY <2>1, <4>1, <4>4
    <3>6. ASSUME NEW p \in startQ, NEW db \in StoreResults, NEW router \in RouterResults,
                 StartTrack(p, db, router)
          PROVE  Goal
      <4> DEFINE b == p.acct
                 g == p.hash
      <4>1. /\ TrackEffect(b, g, p.amt, TrackResult(b, g, p.amt, db, router))
            /\ UNCHANGED <<balance, lnd>>
        BY <3>6 DEF StartTrack
      <4>2. b \in Accounts /\ g \in Hashes /\ p.amt \in Nat /\ p.amt = payments[b][g].amt
        BY <3>6 DEF IInv, TypeOK, StartInv
      <4>3. CASE payments'[b][g] = payments[b][g]
        <5>1. \A h \in Hashes : payments'[a][h] = payments[a][h]
          <6>1. OnlyEntry(b, g)
            BY <4>1, <4>2, TrackAmount
          <6> HIDE DEF b, g
          <6> QED
            BY <1>0, <4>3, <6>1 DEF OnlyEntry
        <5>2. \A h \in Hashes : Due(a)'[h] =< Due(a)[h]
          BY <1>0, <2>3, <5>1, DueFrame
        <5> QED
          BY <2>1, <4>1, <5>2
      <4>4. CASE payments'[b][g] # payments[b][g]
        <5>1. ~successState(payments[b][g].status)
          BY <4>1, <4>2, <4>4, TrackAmount
        <5>2. Backed(g) => inflightState(payments[b][g].status)
          BY <3>6, <4>2, <5>1, ResumedBacked
        <5>3. \A h \in Hashes : Due(a)'[h] =< Due(a)[h]
          <6> HIDE DEF b, g
          <6> QED
            BY <1>0, <2>3, <4>1, <4>2, <5>2, DueTracked
        <5> QED
          BY <2>1, <4>1, <5>3
      <4> QED
        BY <4>3, <4>4
    <3>7. ASSUME NEW r \in Reqs, NEW db \in StoreResults, PaymentErrored(r, db),
                 Released(req[r].acct, req[r].hash)
          PROVE  Goal
      <4>1. req[r].acct \in Accounts /\ req[r].hash \in Hashes
        BY <3>7 DEF PaymentErrored, IInv, TypeOK, ReqInv
      <4> QED
        BY <3>2, <3>7, <4>1
    <3> QED
      BY <3>1, <3>2, <3>3, <3>4, <3>5, <3>6, <3>7, MoneyFrame
  <2> QED
    BY <2>2, <2>3, BackedFrame
<1> QED
  BY <1>1, <1>2

(***************************************************************************)
(* No balance becomes negative while every request waits for its payment:  *)
(* the check of a payment counts what all others have reserved, the        *)
(* reservation covers what lnd takes for it, and only lnd's payment of a   *)
(* tracked hash is debited, once.  Failed writes, lost streams, crashes    *)
(* and expiry are allowed.  An administrator's update, a removed account,  *)
(* a hash paid for by two accounts and a payment that lnd begins after a   *)
(* restart are not: the code gives no such guarantee for them.             *)
(***************************************************************************)
THEOREM BalanceCoveredTheorem ==
    ASSUME IsFiniteSet(Hashes), "admin" \notin Faults, "share" \notin Faults,
           "remove" \notin Faults, "late" \notin Faults
    PROVE  Spec => []BalanceCovered
<1> DEFINE Money == AssociatedInv /\ PaidInv /\ AnswerInv /\ CheckInv /\ CoverInv
           Inv == StartInv /\ TurnInv /\ (Waiting => Money)
           Resume == IInv /\ OwnInv /\ GoroutineInv /\ AcceptedInv /\ BusyInv
<1>1. Init => Inv
  <2> SUFFICES ASSUME Init PROVE Inv
    OBVIOUS
  <2>1. /\ \A r \in Reqs : req[r].st = "new" /\ req[r].kind = "none"
        /\ startQ = {} /\ \A h \in Hashes : lnd[h].st = "none"
        /\ \A a \in Accounts, h \in Hashes : payments[a][h].status = "none"
        /\ accts \subseteq Accounts /\ \A a \in accts : balance[a] = InitBalance
    BY AccountsAssumption DEF Init, NewReq, Request, NotAssociated
  <2>2. StartInv /\ TurnInv
    BY <2>1 DEF StartInv, TurnInv
  <2>3. AssociatedInv /\ PaidInv /\ AnswerInv /\ CheckInv
    BY <2>1 DEF AssociatedInv, PaidInv, AnswerInv, CheckInv, LndBusy
  <2>4. CoverInv
    <3> SUFFICES ASSUME NEW a \in accts PROVE balance[a] >= SumOver(Due(a), Hashes)
      BY DEF CoverInv
    <3>1. \A h \in Hashes : Due(a)[h] = 0
      BY <2>1 DEF Due, inflightState
    <3>2. SumOver(Due(a), Hashes) = 0
      BY <3>1, SumZero
    <3> QED
      BY <2>1, <3>2, AmountsAssumption, SMTT(40), Z3T(40)
  <2> QED
    BY <2>2, <2>3, <2>4
<1>2. Resume /\ Resume' /\ Inv /\ [Next]_vars => Inv'
  <2> SUFFICES ASSUME Resume, Resume', Inv, [Next]_vars PROVE Inv'
    OBVIOUS
  <2>1. StartInv'
    BY ResumedStep
  <2>2. TurnInv'
    BY TurnStep
  <2>3. ASSUME Waiting' PROVE Money'
    <3>1. Waiting
      BY <2>3, WaitingFrame
    <3>2. AssociatedInv'
      BY <3>1, AssociatedStep
    <3>3. PaidInv'
      BY <3>1, PaidStep
    <3>4. AnswerInv'
      BY <3>1, AnswerStep
    <3>5. CheckInv'
      BY <3>1, CheckStep
    <3>6. CoverInv'
      BY <3>1, CoverStep
    <3> QED
      BY <3>2, <3>3, <3>4, <3>5, <3>6
  <2> QED
    BY <2>1, <2>2, <2>3
<1>3. IInv /\ Inv => BalanceCovered
  <2> SUFFICES ASSUME IInv, CoverInv, NEW a \in accts PROVE balance[a] >= 0
    BY DEF BalanceCovered, BalanceNonNegative, Waiting
  <2>1. a \in Accounts /\ balance[a] \in Int
    BY DEF IInv, TypeOK
  <2>2. \A h \in Hashes : Due(a)[h] \in Nat
    BY <2>1, DueNat
  <2>3. SumOver(Due(a), Hashes) \in Nat
    BY <2>2, SumNat
  <2>4. balance[a] >= SumOver(Due(a), Hashes)
    BY DEF CoverInv
  <2> QED
    BY <2>1, <2>3, <2>4, SMTT(40), Z3T(40)
<1> HIDE DEF Inv
<1>4. Spec => []Resume
  BY ResumeInvariant
<1> QED
  BY <1>1, <1>2, <1>3, <1>4, PTL DEF Spec
=============================================================================
