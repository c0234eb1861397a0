-------------------------- MODULE AccountInvoices ---------------------------
(***************************************************************************)
(* The invoice side of the off-chain accounts service                      *)
(* (accounts/service.go, checkers.go): the AddInvoice response associates  *)
(* the invoice with the account, one goroutine reads lnd's invoice         *)
(* subscription and credits the account when the invoice is settled, and   *)
(* after a restart the subscription resumes from the stored add and settle *)
(* index.                                                                  *)
(*                                                                         *)
(* An account's balance is the sum of what was credited to it, so the      *)
(* model keeps, per invoice, how often it was credited.                    *)
(***************************************************************************)
EXTENDS Integers, FiniteSets

CONSTANTS
    Accounts,     \* account IDs
    NoAcct,       \* no account: an invoice of the node itself
    Invoices,     \* invoices, by payment hash
    InitIndex,    \* lnd's indexes, and the stored ones, at the first state
    MaxCrashes,   \* bound: crashes of litd
    Faults        \* which of FaultKinds can happen

\* Removal of an account; a failing subscription; a failing write; a service
\* disabled by its payment side; a crash between the two writes of one invoice
\* update; a crash before the settle backlog of the last start is read.
FaultKinds == {"remove", "stream", "store", "disable", "midcrash", "backlog"}

ASSUME AccountsAssumption == NoAcct \notin Accounts
ASSUME NumbersAssumption == InitIndex \in Nat /\ MaxCrashes \in Nat
ASSUME FaultsAssumption == Faults \subseteq FaultKinds

VARIABLES
    accts, gone,             \* store: existing and removed accounts
    invoices,                \* store: per account, its associated invoices
    lastAdd, lastSettle,     \* store: StoreLastIndexes
    credits,                 \* store: credits booked per invoice
    up, enabled,             \* litd runs; isEnabled
    currentAdd, currentSettle,
    invoiceToAccount,        \* invoice -> account or NoAcct
    crediting,               \* invoices whose update has stored the indexes and goes on to credit
    listening,               \* the subscription goroutine runs
    stream,                  \* events of the subscription not yet read
    lnd,                     \* external: lnd's invoices
    addIndex, settleIndex,   \* external: lnd's counters
    crashes

storeVars  == <<accts, gone, invoices, lastAdd, lastSettle, credits>>
memoryVars == <<up, enabled, currentAdd, currentSettle, invoiceToAccount, crediting, listening>>
lndVars    == <<lnd, addIndex, settleIndex>>
vars == <<storeVars, memoryVars, stream, lndVars, crashes>>
-----------------------------------------------------------------------------
\* The service lock is free: invoiceUpdate is not between its two writes.
LockFree == crediting = {}

StoreResults == IF "store" \in Faults THEN BOOLEAN ELSE {TRUE}

(***************************************************************************)
(* External: the events of a subscription.  With a non-zero index the      *)
(* backlog starts with every invoice added after it, then every invoice    *)
(* settled after it; live events follow.  An event carries the invoice as  *)
(* it is when the event is made.                                           *)
(***************************************************************************)
Event(class, key, i, settled) == [class |-> class, key |-> key, inv |-> i, settled |-> settled]

Before(e, f) == e.class < f.class \/ (e.class = f.class /\ e.key <= f.key)

Invoice(st, acct, add, settle) == [st |-> st, acct |-> acct, add |-> add, settle |-> settle]

Moved(v, st) == Invoice(st, v.acct, v.add, v.settle)

Exists(i) == lnd[i].st # "none"

Backlog(add, settle) ==
    {Event(0, lnd[i].add, i, lnd[i].st = "settled") :
        i \in {j \in Invoices : add > 0 /\ Exists(j) /\ lnd[j].add > add}}
    \cup
    {Event(1, lnd[i].settle, i, TRUE) :
        i \in {j \in Invoices : settle > 0 /\ lnd[j].st = "settled" /\ lnd[j].settle > settle}}

\* A live event, if somebody listens.
Publish(i, settled) ==
    stream' = IF listening THEN stream \cup {Event(2, addIndex + settleIndex, i, settled)} ELSE stream

Init ==
    /\ accts = Accounts /\ gone = {}
    /\ invoices = [a \in Accounts |-> {}]
    /\ lastAdd = InitIndex /\ lastSettle = InitIndex
    /\ credits = [i \in Invoices |-> 0]
    /\ up = TRUE /\ enabled = TRUE /\ listening = TRUE
    /\ currentAdd = InitIndex /\ currentSettle = InitIndex
    /\ invoiceToAccount = [i \in Invoices |-> NoAcct]
    /\ crediting = {}
    /\ stream = {}
    /\ lnd = [i \in Invoices |-> Invoice("none", NoAcct, 0, 0)]
    /\ addIndex = InitIndex /\ settleIndex = InitIndex
    /\ crashes = 0
-----------------------------------------------------------------------------
(***************************************************************************)
(* lnd adds an invoice, for an account whose AddInvoice request Intercept  *)
(* admitted or for the node.  The account's client sees its invoice only   *)
(* once the response has passed the interceptor; until then it is          *)
(* "unissued" and cannot be paid.                                          *)
(***************************************************************************)
LndAddInvoice(i, a) ==
    /\ lnd[i].st = "none"
    /\ a # NoAcct => up /\ enabled /\ a \in accts
    /\ addIndex' = addIndex + 1
    /\ lnd' = [lnd EXCEPT ![i] = Invoice(IF a = NoAcct THEN "open" ELSE "unissued", a,
                                         addIndex + 1, 0)]
    /\ Publish(i, FALSE)
    /\ UNCHANGED <<storeVars, memoryVars, settleIndex, crashes>>

LndSettle(i) ==
    /\ lnd[i].st = "open"
    /\ settleIndex' = settleIndex + 1
    /\ lnd' = [lnd EXCEPT ![i] = Invoice("settled", @.acct, @.add, settleIndex + 1)]
    /\ Publish(i, TRUE)
    /\ UNCHANGED <<storeVars, memoryVars, addIndex, crashes>>

\* Variant for CreditEventually: the in-memory map is not updated.
AssociateInvoice_unmapped(i, db) ==
    /\ up /\ LockFree
    /\ lnd[i].st = "unissued" /\ lnd[i].acct \in accts
    /\ invoices' = [invoices EXCEPT ![lnd[i].acct] = @ \cup {i}]
    /\ lnd' = [lnd EXCEPT ![i] = Moved(@, "open")]
    /\ UNCHANGED <<accts, gone, lastAdd, lastSettle, credits, memoryVars, stream, addIndex,
                   settleIndex, crashes>>

\* The AddInvoice response: Intercept's checks, then AssociateInvoice.  When
\* any of them fails the client gets an error and no invoice.
AssociateInvoice(i, db) ==
    LET a == lnd[i].acct
        stored == enabled /\ a \in accts /\ db
    IN
    /\ up /\ LockFree
    /\ lnd[i].st = "unissued"
    /\ invoices' = IF stored THEN [invoices EXCEPT ![a] = @ \cup {i}] ELSE invoices
    /\ invoiceToAccount' = IF stored THEN [invoiceToAccount EXCEPT ![i] = a] ELSE invoiceToAccount
    /\ lnd' = [lnd EXCEPT ![i] = Moved(@, IF stored THEN "open" ELSE "withheld")]
    /\ UNCHANGED <<accts, gone, lastAdd, lastSettle, credits, up, enabled, currentAdd,
                   currentSettle, crediting, listening, stream, addIndex, settleIndex, crashes>>
-----------------------------------------------------------------------------
(***************************************************************************)
(* invoiceUpdate.  A disabled service refuses the event and the goroutine  *)
(* ends.  Otherwise the indexes are raised and stored, in a transaction of *)
(* their own; an event of a settled, mapped invoice goes on to credit the  *)
(* account, with the lock held.  A failed write disables the service.      *)
(***************************************************************************)
\* Variant for CreditOnce: the index stays one behind.
Raise_oneBehind(current, index) == IF index > current THEN index - 1 ELSE current

Raise(current, index) == IF index > current THEN index ELSE current

Disable == enabled' = FALSE /\ listening' = FALSE /\ stream' = {}

InvoiceUpdate(e, db) ==
    LET add    == Raise(currentAdd, lnd[e.inv].add)
        settle == IF e.settled THEN Raise(currentSettle, lnd[e.inv].settle) ELSE currentSettle
        write  == add # currentAdd \/ settle # currentSettle
    IN
    /\ listening /\ LockFree
    /\ e \in stream
    /\ \A f \in stream : Before(e, f)
    /\ IF ~enabled
       THEN Disable /\ UNCHANGED <<lastAdd, lastSettle, currentAdd, currentSettle, crediting>>
       ELSE /\ currentAdd' = add /\ currentSettle' = settle
            /\ IF write /\ ~db
               THEN Disable /\ UNCHANGED <<lastAdd, lastSettle, crediting>>
               ELSE /\ lastAdd' = IF write THEN add ELSE lastAdd
                    /\ lastSettle' = IF write THEN settle ELSE lastSettle
                    /\ crediting' = {e.inv} \cap
                          {i \in Invoices : e.settled /\ invoiceToAccount[i] # NoAcct}
                    /\ stream' = stream \ {e}
                    /\ UNCHANGED <<enabled, listening>>
    /\ UNCHANGED <<accts, gone, invoices, credits, up, invoiceToAccount, lndVars, crashes>>

Credited(n) == n + 1

CreditAccount(i, db) ==
    /\ i \in crediting
    /\ crediting' = {}
    /\ IF invoiceToAccount[i] \in accts /\ db
       THEN /\ credits' = [credits EXCEPT ![i] = Credited(@)]
            /\ invoiceToAccount' = [invoiceToAccount EXCEPT ![i] = NoAcct]
            /\ UNCHANGED <<enabled, listening, stream>>
       ELSE Disable /\ UNCHANGED <<credits, invoiceToAccount>>
    /\ UNCHANGED <<accts, gone, invoices, lastAdd, lastSettle, up, currentAdd, currentSettle,
                   lndVars, crashes>>

\* The subscription errors out: the service is disabled.
SubscriptionError ==
    /\ "stream" \in Faults
    /\ listening /\ LockFree
    /\ Disable
    /\ UNCHANGED <<storeVars, up, currentAdd, currentSettle, invoiceToAccount, crediting, lndVars,
                   crashes>>

\* The payment side disables the service; the goroutine finds out at the next
\* event.
PaymentSideDisables ==
    /\ "disable" \in Faults
    /\ enabled /\ LockFree
    /\ enabled' = FALSE
    /\ UNCHANGED <<storeVars, up, currentAdd, currentSettle, invoiceToAccount, crediting, listening,
                   stream, lndVars, crashes>>

\* RemoveAccount deletes the row; invoiceToAccount keeps the account.
RemoveAccount(a) ==
    /\ "remove" \in Faults
    /\ up /\ LockFree
    /\ a \in accts
    /\ accts' = accts \ {a} /\ gone' = gone \cup {a}
    /\ invoices' = [invoices EXCEPT ![a] = {}]
    /\ UNCHANGED <<lastAdd, lastSettle, credits, memoryVars, stream, lndVars, crashes>>
-----------------------------------------------------------------------------
Crash ==
    /\ up
    /\ crashes < MaxCrashes
    /\ "midcrash" \in Faults \/ LockFree
    /\ "backlog" \in Faults \/ \A e \in stream : e.class # 1
    /\ crashes' = crashes + 1
    /\ up' = FALSE /\ enabled' = FALSE /\ listening' = FALSE
    /\ currentAdd' = 0 /\ currentSettle' = 0
    /\ invoiceToAccount' = [i \in Invoices |-> NoAcct]
    /\ crediting' = {}
    /\ stream' = {}
    /\ lnd' = [i \in Invoices |-> IF lnd[i].st = "unissued" THEN Moved(lnd[i], "withheld")
                                                           ELSE lnd[i]]
    /\ UNCHANGED <<storeVars, addIndex, settleIndex>>

\* Variant for NoLostCredit: the map is not filled.
Mapped_empty == [i \in Invoices |-> NoAcct]

\* The map as Start fills it, with every invoice of every account, credited or
\* not.
Mapped ==
    [i \in Invoices |-> IF \E a \in accts : i \in invoices[a]
                        THEN CHOOSE a \in accts : i \in invoices[a] ELSE NoAcct]

\* Start fills the map and subscribes from the stored indexes.
Start ==
    /\ ~up
    /\ up' = TRUE /\ enabled' = TRUE /\ listening' = TRUE
    /\ invoiceToAccount' = Mapped
    /\ currentAdd' = lastAdd /\ currentSettle' = lastSettle
    /\ stream' = Backlog(lastAdd, lastSettle)
    /\ UNCHANGED <<storeVars, crediting, lndVars, crashes>>

Next ==
    \/ \E i \in Invoices :
          \/ \E a \in Accounts \cup {NoAcct} : LndAddInvoice(i, a)
          \/ LndSettle(i)
          \/ \E db \in StoreResults : AssociateInvoice(i, db) \/ CreditAccount(i, db)
    \/ \E e \in stream, db \in StoreResults : InvoiceUpdate(e, db)
    \/ SubscriptionError
    \/ PaymentSideDisables
    \/ \E a \in Accounts : RemoveAccount(a)
    \/ Crash
    \/ Start

Spec == Init /\ [][Next]_vars

\* The subscription goroutine runs when it has an event, and litd is restarted
\* after a crash.
FairSpec ==
    /\ Spec
    /\ WF_vars(\E e \in stream : InvoiceUpdate(e, TRUE))
    /\ WF_vars(\E i \in Invoices : CreditAccount(i, TRUE))
    /\ WF_vars(Start)
-----------------------------------------------------------------------------
(* Properties *)

\* The variables stay in the ranges the code's types and life cycles give them.
TypeOK ==
    /\ accts \subseteq Accounts /\ gone \subseteq Accounts
    /\ invoices \in [Accounts -> SUBSET Invoices]
    /\ lastAdd \in Nat /\ lastSettle \in Nat
    /\ credits \in [Invoices -> Nat]
    /\ up \in BOOLEAN /\ enabled \in BOOLEAN /\ listening \in BOOLEAN
    /\ currentAdd \in Nat /\ currentSettle \in Nat
    /\ invoiceToAccount \in [Invoices -> Accounts \cup {NoAcct}]
    /\ crediting \subseteq Invoices
    /\ stream \subseteq [class : 0 .. 2, key : Nat, inv : Invoices, settled : BOOLEAN]
    /\ lnd \in [Invoices -> [st : {"none", "unissued", "withheld", "open", "settled"},
                             acct : Accounts \cup {NoAcct}, add : Nat, settle : Nat]]
    /\ addIndex \in Nat /\ settleIndex \in Nat
    /\ crashes \in 0 .. MaxCrashes

\* An invoice is credited at most once, and only when it was settled, although
\* Start maps credited invoices again and a backlog can repeat an invoice.
CreditOnce == \A i \in Invoices : credits[i] <= 1 /\ (credits[i] = 1 => lnd[i].st = "settled")

\* The update of invoice i is under way, or the stored indexes make the next
\* subscription deliver it.
StillDue(i) ==
    \/ i \in crediting
    \/ \E e \in stream : e.inv = i /\ e.settled
    \/ lastAdd > 0 /\ lnd[i].add > lastAdd
    \/ lastSettle > 0 /\ lnd[i].settle > lastSettle

\* A settled invoice of an account is credited or still due: no crash and no
\* disabled service makes the account lose it.
NoLostCredit ==
    \A i \in Invoices :
        lnd[i].st = "settled" /\ lnd[i].acct \in accts => credits[i] > 0 \/ StillDue(i)

\* A settled invoice of an account is eventually credited.
CreditEventually ==
    \A i \in Invoices :
        lnd[i].st = "settled" /\ lnd[i].acct \in accts ~> credits[i] = 1
=============================================================================
