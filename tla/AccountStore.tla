---------------------------- MODULE AccountStore ----------------------------
(***************************************************************************)
(* The arithmetic of the account store: what each write of an account row  *)
(* computes, for the key-value store (accounts/store_kvdb.go) and the SQL  *)
(* store (accounts/store_sql.go), which agree on all of it.  Amounts are   *)
(* millisatoshi; a payment hash that is not associated with an account has *)
(* the entry NotAssociated.                                                *)
(***************************************************************************)
EXTENDS Integers, FiniteSetsExt

\* The statuses the service writes, and "none" for a hash with no entry.
PaymentStatus == {"none", "UNKNOWN", "SUCCEEDED", "FAILED"}

PaymentEntry == [status : PaymentStatus, amt : Nat]

NotAssociated == [status |-> "none", amt |-> 0]

Known(e) == e.status # "none"

successState(status) == status = "SUCCEEDED"

inflightState(status) == status \notin {"none", "SUCCEEDED", "FAILED"}

(***************************************************************************)
(* UpsertAccountPayment: the error it returns for the stored entry e, the  *)
(* entry it writes and the balance it leaves when there is no error.       *)
(***************************************************************************)
UpsertError(e, opts) ==
    IF Known(e)
    THEN IF "ErrIfAlreadySucceeded" \in opts /\ successState(e.status) THEN "ErrAlreadySucceeded"
         ELSE IF "ErrIfAlreadyPending" \in opts /\ e.status # "FAILED" THEN "ErrAlreadyPending"
         ELSE "ok"
    ELSE IF "ErrIfUnknown" \in opts THEN "ErrPaymentNotAssociated" ELSE "ok"

UpsertEntry(e, amt, status, opts) ==
    [status |-> status,
     amt    |-> IF Known(e) /\ "UsePendingAmount" \in opts THEN e.amt ELSE amt]

UpsertBalance(balance, e, opts) ==
    IF "DebitAccount" \in opts THEN balance - e.amt ELSE balance

\* DebitAccount refuses to take more than the current balance; it does not
\* look at what in-flight payments have reserved.
DebitAllowed(balance, amt) == balance - amt >= 0

(***************************************************************************)
(* calcAvailableAccountBalance: the balance less what the in-flight        *)
(* payments of the account reserve.                                        *)
(***************************************************************************)
InFlightAmt(payments) ==
    MapThenSumSet(LAMBDA h : payments[h].amt,
                  {h \in DOMAIN payments : inflightState(payments[h].status)})

calcAvailableAccountBalance(balance, payments) == balance - InFlightAmt(payments)
=============================================================================
