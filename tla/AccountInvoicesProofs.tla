----------------------- MODULE AccountInvoicesProofs ------------------------
(***************************************************************************)
(* Proofs about AccountInvoices, for every number of accounts, invoices    *)
(* and crashes and any of the fault kinds.                                 *)
(***************************************************************************)
EXTENDS AccountInvoices, TLAPS

\* The backends, in turn, of each leaf below that names none of its own.
USE ZenonT(20), SMTT(20), Z3T(20)

\* The subscription runs only while litd does, and as long as it runs the
\* indexes in memory are the stored ones.
ListenInv ==
    /\ listening => up /\ currentAdd = lastAdd /\ currentSettle = lastSettle
    /\ ~up => stream = {} /\ crediting = {}

\* An event tells the truth about its invoice.
StreamInv == \A e \in stream : e.settled => lnd[e.inv].st = "settled"

\* The stored indexes cover invoice i.
Covered(i) == lnd[i].st = "settled" /\ lnd[i].add <= lastAdd /\ lnd[i].settle <= lastSettle

\* An invoice is credited in the update that stored its indexes.
CreditingInv == \A i \in crediting : Covered(i) /\ credits[i] = 0 /\ crediting = {i}

\* A credited invoice is covered by the stored indexes, and what the stream
\* still says about it finds no account.
CreditedInv ==
    \A i \in Invoices : credits[i] # 0 =>
        /\ credits[i] = 1 /\ Covered(i) /\ i \notin crediting
        /\ invoiceToAccount[i] = NoAcct \/ \A e \in stream : e.inv = i => ~e.settled

IInv == TypeOK /\ ListenInv /\ StreamInv /\ CreditingInv /\ CreditedInv
-----------------------------------------------------------------------------
\* Nothing is credited before the first invoice.
LEMMA InitIInv == Init => IInv
<1> SUFFICES ASSUME Init PROVE IInv
  OBVIOUS
<1> USE NumbersAssumption DEF Init
<1>1. TypeOK
  BY SMTT(20), Z3T(20) DEF TypeOK, Invoice
<1>2. ListenInv /\ StreamInv /\ CreditingInv /\ CreditedInv
  BY DEF ListenInv, StreamInv, CreditingInv, CreditedInv
<1> QED
  BY <1>1, <1>2 DEF IInv

\* A new invoice is published as not settled.
LEMMA LndAddInvoiceStep ==
    ASSUME IInv, NEW i \in Invoices, NEW a \in Accounts \cup {NoAcct}, LndAddInvoice(i, a)
    PROVE  IInv'
<1> USE DEF LndAddInvoice, Publish, Invoice, Event, storeVars, memoryVars
<1>1. TypeOK'
  <2>1. addIndex \in Nat /\ settleIndex \in Nat /\ addIndex' \in Nat /\ settleIndex' \in Nat
    BY SMTT(20), Z3T(20) DEF IInv, TypeOK
  <2>2. stream' \subseteq [class : 0 .. 2, key : Nat, inv : Invoices, settled : BOOLEAN]
    <3>1. [class |-> 2, key |-> addIndex + settleIndex, inv |-> i, settled |-> FALSE]
            \in [class : 0 .. 2, key : Nat, inv : Invoices, settled : BOOLEAN]
      BY <2>1, SMTT(20), Z3T(20)
    <3>2. stream \subseteq [class : 0 .. 2, key : Nat, inv : Invoices, settled : BOOLEAN]
      BY DEF IInv, TypeOK
    <3> QED
      BY <3>1, <3>2
  <2>3. lnd' \in [Invoices -> [st : {"none", "unissued", "withheld", "open", "settled"},
                               acct : Accounts \cup {NoAcct}, add : Nat, settle : Nat]]
    BY <2>1 DEF IInv, TypeOK
  <2> QED
    BY <2>1, <2>2, <2>3 DEF IInv, TypeOK
<1>2. /\ lnd[i].st = "none" /\ UNCHANGED <<credits, lastAdd, lastSettle, crediting>>
      /\ \A j \in Invoices \ {i} : lnd'[j] = lnd[j]
      /\ UNCHANGED <<up, listening, currentAdd, currentSettle, invoiceToAccount>>
      /\ \A e \in stream' : e \in stream \/ (e.inv = i /\ e.settled = FALSE)
      /\ ~listening => stream' = stream
  BY SMTT(20), Z3T(20) DEF IInv, TypeOK
<1>3. \A j \in Invoices : Covered(j) => j # i /\ Covered(j)'
  BY <1>2 DEF Covered
<1>4. \A e \in stream : e.inv \in Invoices
  BY DEF IInv, TypeOK
<1> HIDE DEF LndAddInvoice
<1>5. (ListenInv /\ StreamInv)'
  BY <1>2, <1>4 DEF IInv, ListenInv, StreamInv
<1>6. (CreditingInv /\ CreditedInv)'
  BY <1>2, <1>3 DEF IInv, TypeOK, CreditingInv, CreditedInv
<1> QED
  BY <1>1, <1>5, <1>6 DEF IInv

\* A settled invoice was open, hence not credited before.
LEMMA LndSettleStep == ASSUME IInv, NEW i \in Invoices, LndSettle(i) PROVE IInv'
<1> USE DEF LndSettle, Publish, Invoice, Event, storeVars, memoryVars
<1>1. TypeOK'
  <2>1. addIndex \in Nat /\ settleIndex \in Nat /\ addIndex' \in Nat /\ settleIndex' \in Nat
    BY SMTT(20), Z3T(20) DEF IInv, TypeOK
  <2>2. stream' \subseteq [class : 0 .. 2, key : Nat, inv : Invoices, settled : BOOLEAN]
    <3>1. [class |-> 2, key |-> addIndex + settleIndex, inv |-> i, settled |-> TRUE]
            \in [class : 0 .. 2, key : Nat, inv : Invoices, settled : BOOLEAN]
      BY <2>1, SMTT(20), Z3T(20)
    <3>2. stream \subseteq [class : 0 .. 2, key : Nat, inv : Invoices, settled : BOOLEAN]
      BY DEF IInv, TypeOK
    <3> QED
      BY <3>1, <3>2
  <2>3. lnd' \in [Invoices -> [st : {"none", "unissued", "withheld", "open", "settled"},
                               acct : Accounts \cup {NoAcct}, add : Nat, settle : Nat]]
    BY <2>1 DEF IInv, TypeOK
  <2> QED
    BY <2>1, <2>2, <2>3 DEF IInv, TypeOK
<1>2. /\ lnd[i].st = "open" /\ lnd'[i].st = "settled"
      /\ UNCHANGED <<credits, lastAdd, lastSettle, crediting>>
      /\ \A j \in Invoices \ {i} : lnd'[j] = lnd[j]
      /\ UNCHANGED <<up, listening, currentAdd, currentSettle, invoiceToAccount>>
      /\ \A e \in stream' : e \in stream \/ e.inv = i
      /\ ~listening => stream' = stream
  BY SMTT(20), Z3T(20) DEF IInv, TypeOK
<1>3. \A j \in Invoices : Covered(j) => j # i /\ Covered(j)'
  BY <1>2 DEF Covered
<1>4. \A e \in stream : e.inv \in Invoices
  BY DEF IInv, TypeOK
<1> HIDE DEF LndSettle
<1>5. (ListenInv /\ StreamInv)'
  BY <1>2, <1>4 DEF IInv, ListenInv, StreamInv
<1>6. (CreditingInv /\ CreditedInv)'
  BY <1>2, <1>3, SMTT(20), Z3T(20) DEF IInv, TypeOK, CreditingInv, CreditedInv
<1> QED
  BY <1>1, <1>5, <1>6 DEF IInv

\* AssociateInvoice maps an invoice that its client has not seen yet.
LEMMA AssociateInvoiceStep ==
    ASSUME IInv, NEW i \in Invoices, NEW db \in StoreResults, AssociateInvoice(i, db) PROVE IInv'
<1> USE DEF AssociateInvoice, Moved, Invoice
<1>1. TypeOK'
  BY DEF IInv, TypeOK
<1>2. /\ lnd[i].st = "unissued" /\ UNCHANGED <<credits, lastAdd, lastSettle, crediting, stream>>
      /\ \A j \in Invoices \ {i} : lnd'[j] = lnd[j] /\ invoiceToAccount'[j] = invoiceToAccount[j]
      /\ UNCHANGED <<up, listening, currentAdd, currentSettle>>
  BY DEF IInv, TypeOK
<1>3. \A j \in Invoices : Covered(j) => j # i /\ Covered(j)'
  BY <1>2 DEF Covered
<1>4. \A e \in stream : e.inv \in Invoices
  BY DEF IInv, TypeOK
<1> HIDE DEF AssociateInvoice
<1>5. (ListenInv /\ StreamInv)'
  BY <1>2, <1>4 DEF IInv, ListenInv, StreamInv
<1>6. (CreditingInv /\ CreditedInv)'
  BY <1>2, <1>3 DEF IInv, TypeOK, CreditingInv, CreditedInv
<1> QED
  BY <1>1, <1>5, <1>6 DEF IInv

\* An update stores the indexes of its invoice before it goes on to credit it,
\* and goes on only for an invoice that has not been credited.
LEMMA InvoiceUpdateStep ==
    ASSUME IInv, NEW e \in stream, NEW db \in StoreResults, InvoiceUpdate(e, db) PROVE IInv'
<1> DEFINE add == Raise(currentAdd, lnd[e.inv].add)
           settle == IF e.settled THEN Raise(currentSettle, lnd[e.inv].settle) ELSE currentSettle
           write == add # currentAdd \/ settle # currentSettle
           credit == {e.inv} \cap {i \in Invoices : e.settled /\ invoiceToAccount[i] # NoAcct}
<1>1. /\ listening /\ up /\ crediting = {} /\ currentAdd = lastAdd /\ currentSettle = lastSettle
      /\ UNCHANGED <<accts, gone, invoices, credits, up, invoiceToAccount, lnd, addIndex,
                     settleIndex, crashes>>
  BY DEF InvoiceUpdate, IInv, ListenInv, LockFree, lndVars
<1>2. e.inv \in Invoices /\ lnd[e.inv].add \in Nat /\ lnd[e.inv].settle \in Nat
      /\ lastAdd \in Nat /\ lastSettle \in Nat
  BY DEF IInv, TypeOK
<1>3. /\ add \in Nat /\ settle \in Nat /\ add >= lastAdd /\ settle >= lastSettle
      /\ add >= lnd[e.inv].add /\ (e.settled => settle >= lnd[e.inv].settle)
  BY <1>1, <1>2, SMTT(20), Z3T(20) DEF Raise
<1>4. \/ /\ enabled' = FALSE /\ listening' = FALSE /\ stream' = {}
         /\ UNCHANGED <<lastAdd, lastSettle, crediting>>
         /\ currentAdd' \in {currentAdd, add} /\ currentSettle' \in {currentSettle, settle}
      \/ /\ currentAdd' = add /\ currentSettle' = settle /\ lastAdd' = add /\ lastSettle' = settle
         /\ crediting' = credit /\ stream' = stream \ {e} /\ UNCHANGED <<enabled, listening>>
  BY <1>1 DEF InvoiceUpdate, Disable
<1>5. credit \subseteq {e.inv} /\ (credit # {} => e.settled /\ invoiceToAccount[e.inv] # NoAcct)
  OBVIOUS
<1> HIDE DEF add, settle, write, credit
<1>6. CASE /\ enabled' = FALSE /\ listening' = FALSE /\ stream' = {}
           /\ UNCHANGED <<lastAdd, lastSettle, crediting>>
           /\ currentAdd' \in {currentAdd, add} /\ currentSettle' \in {currentSettle, settle}
  <2>1. TypeOK'
    BY <1>1, <1>3, <1>6 DEF IInv, TypeOK
  <2>2. (ListenInv /\ StreamInv)'
    BY <1>1, <1>6 DEF ListenInv, StreamInv
  <2>3. (CreditingInv /\ CreditedInv)'
    BY <1>1, <1>6 DEF IInv, CreditingInv, CreditedInv, Covered
  <2> QED
    BY <2>1, <2>2, <2>3 DEF IInv
<1>7. CASE /\ currentAdd' = add /\ currentSettle' = settle /\ lastAdd' = add /\ lastSettle' = settle
           /\ crediting' = credit /\ stream' = stream \ {e} /\ UNCHANGED <<enabled, listening>>
  <2>1. TypeOK'
    BY <1>1, <1>2, <1>3, <1>5, <1>7 DEF IInv, TypeOK
  <2>2. (ListenInv /\ StreamInv)'
    BY <1>1, <1>7 DEF IInv, ListenInv, StreamInv
  <2>3. \A i \in Invoices : Covered(i) => Covered(i)'
    BY <1>1, <1>2, <1>3, <1>7, SMTT(20), Z3T(20) DEF Covered, IInv, TypeOK
  <2>4. credit # {} => Covered(e.inv)' /\ credits[e.inv] = 0
    <3> SUFFICES ASSUME credit # {} PROVE Covered(e.inv)' /\ credits[e.inv] = 0
      OBVIOUS
    <3>1. Covered(e.inv)'
      BY <1>1, <1>3, <1>5, <1>7 DEF Covered, IInv, StreamInv
    <3>2. credits[e.inv] = 0
      BY <1>2, <1>5 DEF IInv, CreditedInv
    <3> QED
      BY <3>1, <3>2
  <2>5. CreditingInv'
    BY <1>1, <1>5, <1>7, <2>4 DEF CreditingInv
  <2>6. CreditedInv'
    BY <1>1, <1>5, <1>7, <2>3, <2>4 DEF IInv, CreditedInv
  <2> QED
    BY <2>1, <2>2, <2>5, <2>6 DEF IInv
<1> QED
  BY <1>4, <1>6, <1>7

\* The credited invoice leaves the map.
LEMMA CreditAccountStep ==
    ASSUME IInv, NEW i \in Invoices, NEW db \in StoreResults, CreditAccount(i, db) PROVE IInv'
<1>1. /\ i \in crediting /\ crediting' = {} /\ Covered(i) /\ credits[i] = 0
      /\ UNCHANGED <<accts, gone, invoices, lastAdd, lastSettle, up, currentAdd, currentSettle,
                     lnd, addIndex, settleIndex, crashes>>
  BY DEF CreditAccount, lndVars, IInv, CreditingInv
<1>2. \/ /\ credits' = [credits EXCEPT ![i] = 1]
         /\ invoiceToAccount' = [invoiceToAccount EXCEPT ![i] = NoAcct]
         /\ UNCHANGED <<enabled, listening, stream>>
      \/ /\ enabled' = FALSE /\ listening' = FALSE /\ stream' = {}
         /\ UNCHANGED <<credits, invoiceToAccount>>
  BY <1>1, SMTT(20), Z3T(20) DEF CreditAccount, Disable, Credited
<1>3. TypeOK'
  <2>1. /\ credits' \in [Invoices -> Nat] /\ stream' \subseteq stream
        /\ invoiceToAccount' \in [Invoices -> Accounts \cup {NoAcct}]
    BY <1>2, SMTT(20), Z3T(20) DEF IInv, TypeOK
  <2>2. enabled' \in BOOLEAN /\ listening' \in BOOLEAN
    BY <1>2 DEF IInv, TypeOK
  <2> QED
    BY <1>1, <2>1, <2>2 DEF IInv, TypeOK
<1>4. (ListenInv /\ StreamInv /\ CreditingInv)'
  BY <1>1, <1>2, SMTT(20), Z3T(20) DEF IInv, ListenInv, StreamInv, CreditingInv
<1>5. \A j \in Invoices : Covered(j)' <=> Covered(j)
  BY <1>1 DEF Covered
<1>6. /\ credits'[i] \in {0, 1} /\ (credits'[i] # 0 => invoiceToAccount'[i] = NoAcct)
      /\ \A j \in Invoices \ {i} : /\ credits'[j] = credits[j]
                                   /\ invoiceToAccount'[j] = invoiceToAccount[j]
      /\ stream' \subseteq stream
  BY <1>1, <1>2 DEF IInv, TypeOK
<1>7. CreditedInv'
  BY <1>1, <1>5, <1>6 DEF IInv, CreditedInv
<1> QED
  BY <1>3, <1>4, <1>7 DEF IInv

\* A disabled service credits nothing.
LEMMA DisableStep == ASSUME IInv, SubscriptionError \/ PaymentSideDisables PROVE IInv'
<1>1. /\ enabled' = FALSE
      /\ \/ UNCHANGED <<listening, stream>>
         \/ listening' = FALSE /\ stream' = {}
      /\ UNCHANGED <<storeVars, up, currentAdd, currentSettle, invoiceToAccount, crediting, lndVars,
                     crashes>>
  <2>1. CASE SubscriptionError
    BY <2>1 DEF SubscriptionError, Disable
  <2>2. CASE PaymentSideDisables
    BY <2>2 DEF PaymentSideDisables
  <2> QED
    BY <2>1, <2>2
<1>2. TypeOK'
  BY <1>1 DEF IInv, TypeOK, storeVars, lndVars
<1>3. (ListenInv /\ StreamInv)'
  BY <1>1, SMTT(20), Z3T(20) DEF IInv, ListenInv, StreamInv, storeVars, lndVars
<1>4. (CreditingInv /\ CreditedInv)'
  BY <1>1 DEF IInv, CreditingInv, CreditedInv, Covered, storeVars, lndVars
<1> QED
  BY <1>2, <1>3, <1>4 DEF IInv

\* RemoveAccount touches neither the indexes nor the credits.
LEMMA RemoveAccountStep == ASSUME IInv, NEW a \in Accounts, RemoveAccount(a) PROVE IInv'
<1> USE DEF RemoveAccount, memoryVars, lndVars
<1>1. TypeOK'
  BY DEF IInv, TypeOK
<1>2. (ListenInv /\ StreamInv /\ CreditingInv /\ CreditedInv)'
  BY DEF IInv, ListenInv, StreamInv, CreditingInv, CreditedInv, Covered
<1> QED
  BY <1>1, <1>2 DEF IInv

\* A crash loses the map and the stream, never an index or a credit.
LEMMA CrashStep == ASSUME IInv, Crash PROVE IInv'
<1> USE DEF Crash, storeVars
<1>1. /\ crashes' \in 0 .. MaxCrashes
      /\ up' = FALSE /\ enabled' = FALSE /\ listening' = FALSE /\ currentAdd' = 0
      /\ currentSettle' = 0 /\ crediting' = {} /\ stream' = {}
      /\ invoiceToAccount' \in [Invoices -> Accounts \cup {NoAcct}]
      /\ UNCHANGED <<accts, gone, invoices, lastAdd, lastSettle, credits, addIndex, settleIndex>>
  BY NumbersAssumption, SMTT(20), Z3T(20) DEF IInv, TypeOK
<1>2. lnd' \in [Invoices -> [st : {"none", "unissued", "withheld", "open", "settled"},
                             acct : Accounts \cup {NoAcct}, add : Nat, settle : Nat]]
  BY DEF IInv, TypeOK, Moved, Invoice
<1>3. \A i \in Invoices : lnd[i].st = "settled" => lnd'[i] = lnd[i]
  OBVIOUS
<1> HIDE DEF Crash
<1>4. TypeOK'
  BY <1>1, <1>2 DEF IInv, TypeOK
<1>5. (ListenInv /\ StreamInv /\ CreditingInv)'
  BY <1>1 DEF ListenInv, StreamInv, CreditingInv
<1>6. CreditedInv'
  BY <1>1, <1>3 DEF IInv, CreditedInv, Covered
<1> QED
  BY <1>4, <1>5, <1>6 DEF IInv

\* The backlog of the stored indexes says nothing about invoices they cover.
LEMMA BacklogFacts ==
    ASSUME IInv
    PROVE  /\ Backlog(lastAdd, lastSettle)
                  \subseteq [class : 0 .. 2, key : Nat, inv : Invoices, settled : BOOLEAN]
           /\ \A e \in Backlog(lastAdd, lastSettle) :
                  ~Covered(e.inv) /\ (e.settled => lnd[e.inv].st = "settled")
<1>1. ASSUME NEW e \in Backlog(lastAdd, lastSettle)
      PROVE  /\ e \in [class : 0 .. 2, key : Nat, inv : Invoices, settled : BOOLEAN]
             /\ ~Covered(e.inv) /\ (e.settled => lnd[e.inv].st = "settled")
  <2>1. CASE \E i \in Invoices : /\ lnd[i].add > lastAdd
                                 /\ e = Event(0, lnd[i].add, i, lnd[i].st = "settled")
    <3>1. PICK i \in Invoices : /\ lnd[i].add > lastAdd
                                /\ e = Event(0, lnd[i].add, i, lnd[i].st = "settled")
      BY <2>1
    <3>2. e.inv = i /\ e.settled = (lnd[i].st = "settled")
      BY <3>1 DEF Event
    <3>3. lnd[i].add \in Nat /\ (lnd[i].st = "settled") \in BOOLEAN
      BY DEF IInv, TypeOK
    <3>4. e \in [class : 0 .. 2, key : Nat, inv : Invoices, settled : BOOLEAN]
      BY <3>1, <3>3, SMTT(20), Z3T(20) DEF Event
    <3>5. ~Covered(i)
      BY <3>1, <3>3, SMTT(20), Z3T(20) DEF IInv, TypeOK, Covered
    <3> QED
      BY <3>2, <3>4, <3>5
  <2>2. CASE \E i \in Invoices : /\ lnd[i].st = "settled" /\ lnd[i].settle > lastSettle
                                 /\ e = Event(1, lnd[i].settle, i, TRUE)
    <3>1. PICK i \in Invoices : /\ lnd[i].st = "settled" /\ lnd[i].settle > lastSettle
                                /\ e = Event(1, lnd[i].settle, i, TRUE)
      BY <2>2
    <3>2. e.inv = i /\ lnd[i].settle \in Nat /\ lastSettle \in Nat
      BY <3>1 DEF Event, IInv, TypeOK
    <3>3. e \in [class : 0 .. 2, key : Nat, inv : Invoices, settled : BOOLEAN]
      BY <3>1, <3>2, SMTT(20), Z3T(20) DEF Event
    <3>4. ~Covered(i)
      BY <3>1, <3>2, SMTT(20), Z3T(20) DEF Covered
    <3> QED
      BY <3>1, <3>2, <3>3, <3>4
  <2> QED
    BY <2>1, <2>2 DEF Backlog
<1> QED
  BY <1>1

\* Start maps credited invoices again, but its backlog does not contain them.
LEMMA StartStep == ASSUME IInv, Start PROVE IInv'
<1>1. /\ up' = TRUE /\ enabled' = TRUE /\ listening' = TRUE /\ crediting = {}
      /\ currentAdd' = lastAdd /\ currentSettle' = lastSettle
      /\ stream' = Backlog(lastAdd, lastSettle) /\ invoiceToAccount' = Mapped
      /\ UNCHANGED <<accts, gone, invoices, lastAdd, lastSettle, credits, crediting, lnd, addIndex,
                     settleIndex, crashes>>
  BY DEF Start, storeVars, lndVars, IInv, ListenInv
<1>2. Mapped \in [Invoices -> Accounts \cup {NoAcct}]
  <2>1. ASSUME NEW i \in Invoices, \E a \in accts : i \in invoices[a]
        PROVE  (CHOOSE a \in accts : i \in invoices[a]) \in Accounts
    BY <2>1 DEF IInv, TypeOK
  <2> QED
    BY <2>1 DEF Mapped
<1>3. TypeOK'
  BY <1>1, <1>2, BacklogFacts DEF IInv, TypeOK
<1>4. (ListenInv /\ StreamInv /\ CreditingInv)'
  BY <1>1, BacklogFacts DEF ListenInv, StreamInv, CreditingInv
<1>5. CreditedInv'
  BY <1>1, BacklogFacts DEF IInv, CreditedInv, Covered
<1> QED
  BY <1>3, <1>4, <1>5 DEF IInv

\* Every step of the system preserves the inductive invariant.
LEMMA NextInv == IInv /\ [Next]_vars => IInv'
<1> SUFFICES ASSUME IInv, [Next]_vars PROVE IInv'
  OBVIOUS
<1>1. CASE Next
  BY <1>1, LndAddInvoiceStep, LndSettleStep, AssociateInvoiceStep, CreditAccountStep,
     InvoiceUpdateStep, DisableStep, RemoveAccountStep, CrashStep, StartStep DEF Next
<1>2. CASE UNCHANGED vars
  <2> USE <1>2 DEF vars, storeVars, memoryVars, lndVars
  <2>1. TypeOK'
    BY DEF IInv, TypeOK
  <2>2. (ListenInv /\ StreamInv /\ CreditingInv /\ CreditedInv)'
    BY DEF IInv, ListenInv, StreamInv, CreditingInv, CreditedInv, Covered
  <2> QED
    BY <2>1, <2>2 DEF IInv
<1> QED
  BY <1>1, <1>2

\* The invariant from which the theorems below follow.
THEOREM InductiveInvariant == Spec => []IInv
  BY InitIInv, NextInv, PTL DEF Spec

\* An invoice is credited at most once and only when it was settled, for every
\* interleaving of additions, settlements, crashes, failures and removals.
THEOREM CreditedOnce == Spec => []CreditOnce
<1>1. IInv => CreditOnce
  BY SMTT(20), Z3T(20) DEF IInv, TypeOK, CreditedInv, CreditOnce, Covered
<1> QED
  BY <1>1, InductiveInvariant, PTL
-----------------------------------------------------------------------------
(***************************************************************************)
(* No settled invoice of an account is lost, when nothing but a crash      *)
(* between two updates and after the settle backlog happens.               *)
(***************************************************************************)
\* The service is enabled and subscribed whenever litd runs.
HealthyInv == accts = Accounts /\ enabled = up /\ listening = up

\* The stored indexes are in use and at most lnd's own; no two invoices have
\* the same add index.
IndexInv ==
    /\ lastAdd > 0 /\ lastSettle > 0 /\ lastAdd <= addIndex /\ lastSettle <= settleIndex
    /\ \A i \in Invoices : /\ Exists(i) => lnd[i].add <= addIndex
                           /\ lnd[i].st = "settled" => lnd[i].settle <= settleIndex
    /\ \A i, j \in Invoices : Exists(i) /\ Exists(j) /\ lnd[i].add = lnd[j].add => i = j
    /\ \A e \in stream : Exists(e.inv)

\* The settlement that live event f reports is after the stored index and after
\* those of the events read before f.
LastSettled(f) ==
    /\ lastSettle < lnd[f.inv].settle
    /\ \A e \in stream : e.settled /\ (e.class < 2 \/ e.key < f.key)
                            => lnd[e.inv].settle < lnd[f.inv].settle

\* The add backlog is ahead of the stored add index; live events come one by
\* one, the settlements among them in order.
OrderInv ==
    /\ \A e \in stream : e.class = 0 => e.key = lnd[e.inv].add /\ e.key > lastAdd
    /\ \A e, f \in stream : e.class = 0 /\ f.class = 0 /\ e.inv = f.inv => e = f
    /\ \A e \in stream : e.class = 2 => e.key < addIndex + settleIndex
    /\ \A e, f \in stream : e.class = 2 /\ f.class = 2 /\ e.key = f.key => e = f
    /\ \A f \in stream : f.class = 2 /\ f.settled => LastSettled(f)

\* An uncredited invoice of an account is stored with the account, and mapped
\* to one while litd runs.
MapInv ==
    /\ \A i \in Invoices : lnd[i].st = "unissued" => lnd[i].acct \in Accounts
    /\ \A i \in crediting : invoiceToAccount[i] # NoAcct
    /\ \A i \in Invoices :
          lnd[i].st \in {"open", "settled"} /\ lnd[i].acct \in Accounts /\ credits[i] = 0
             => i \in invoices[lnd[i].acct] /\ (up => invoiceToAccount[i] # NoAcct)

\* An invoice of an account is settled, not credited and not about to be.
Owed(i) == lnd[i].st = "settled" /\ lnd[i].acct \in Accounts /\ credits[i] = 0 /\ i \notin crediting

Ahead(i) == lnd[i].add > lastAdd \/ lnd[i].settle > lastSettle

\* Such an invoice is in the stream while litd runs; once the settle backlog
\* is read it is ahead of the stored indexes.
DueInv ==
    \A i \in Invoices : Owed(i) =>
        /\ up => \E e \in stream : e.inv = i /\ e.settled
        /\ (\A e \in stream : e.class # 1) => Ahead(i)

DInv == HealthyInv /\ IndexInv /\ OrderInv /\ MapInv /\ DueInv
-----------------------------------------------------------------------------
\* The stored indexes are not zero and nothing is owed.
LEMMA InitDInv == ASSUME InitIndex > 0, Init PROVE DInv
<1>1. HealthyInv /\ OrderInv /\ stream = {}
  BY DEF Init, HealthyInv, OrderInv
<1>2. \A i \in Invoices : lnd[i].st = "none"
  BY DEF Init, Invoice
<1>3. IndexInv
  BY <1>1, <1>2, NumbersAssumption, SMTT(20), Z3T(20) DEF Init, IndexInv, Exists
<1>4. MapInv /\ DueInv
  BY <1>2 DEF Init, MapInv, DueInv, Owed
<1> QED
  BY <1>1, <1>3, <1>4 DEF DInv

\* A new invoice is the last one lnd added, and nothing is owed for it.
LEMMA AddKeepsDue ==
    ASSUME IInv, DInv, NEW i \in Invoices, NEW a \in Accounts \cup {NoAcct}, LndAddInvoice(i, a)
    PROVE  DInv'
<1> DEFINE n == Event(2, addIndex + settleIndex, i, FALSE)
<1>1. /\ lnd[i].st = "none" /\ addIndex' = addIndex + 1
      /\ UNCHANGED <<accts, gone, invoices, lastAdd, lastSettle, credits, up, enabled, currentAdd,
                     currentSettle, invoiceToAccount, crediting, listening, settleIndex, crashes>>
  BY DEF LndAddInvoice, storeVars, memoryVars
<1>2. /\ \A j \in Invoices \ {i} : lnd'[j] = lnd[j]
      /\ lnd'[i].st \in {"open", "unissued"} /\ lnd'[i].acct = a /\ lnd'[i].add = addIndex + 1
      /\ lnd'[i].st = "unissued" <=> a # NoAcct
  BY DEF LndAddInvoice, IInv, TypeOK, Invoice
<1>3. stream \subseteq stream' /\ stream' \subseteq stream \cup {n}
  BY DEF LndAddInvoice, Publish
<1>4. n.class = 2 /\ n.key = addIndex + settleIndex /\ n.inv = i /\ n.settled = FALSE
  BY DEF Event
<1> HIDE DEF n
<1>5. /\ addIndex \in Nat /\ settleIndex \in Nat /\ lastAdd \in Nat /\ lastSettle \in Nat
      /\ \A e \in stream : e.inv \in Invoices \ {i} /\ e.class \in 0 .. 2 /\ e.key \in Nat
      /\ \A j \in Invoices : lnd[j].add \in Nat /\ lnd[j].settle \in Nat
  BY <1>1 DEF IInv, TypeOK, DInv, IndexInv, Exists
<1>6. HealthyInv' /\ IndexInv'
  BY <1>1, <1>2, <1>3, <1>4, <1>5, SMTT(20), Z3T(20) DEF DInv, HealthyInv, IndexInv, Exists
<1>7. OrderInv'
  <2>1. \A e \in stream' : /\ e.class = 0 => e.key = lnd'[e.inv].add /\ e.key > lastAdd'
                           /\ e.class = 2 => e.key < addIndex' + settleIndex'
    BY <1>1, <1>2, <1>3, <1>4, <1>5, SMTT(20), Z3T(20) DEF DInv, OrderInv
  <2>2. \A e, f \in stream' : /\ e.class = 0 /\ f.class = 0 /\ e.inv = f.inv => e = f
                              /\ e.class = 2 /\ f.class = 2 /\ e.key = f.key => e = f
    BY <1>3, <1>4, <1>5, SMTT(20), Z3T(20) DEF DInv, OrderInv
  <2>3. ASSUME NEW f \in stream', f.class = 2, f.settled PROVE LastSettled(f)'
    <3>1. f \in stream /\ LastSettled(f)
      BY <2>3, <1>3, <1>4 DEF DInv, OrderInv
    <3> QED
      BY <3>1, <1>1, <1>2, <1>3, <1>4, <1>5 DEF LastSettled
  <2> QED
    BY <2>1, <2>2, <2>3 DEF OrderInv
<1>8. MapInv'
  BY <1>1, <1>2, AccountsAssumption DEF DInv, MapInv
<1>9. DueInv'
  <2> SUFFICES ASSUME NEW j \in Invoices, Owed(j)'
               PROVE  /\ up' => \E e \in stream' : e.inv = j /\ e.settled
                      /\ (\A e \in stream' : e.class # 1) => Ahead(j)'
    BY DEF DueInv
  <2>1. j # i /\ lnd'[j] = lnd[j] /\ Owed(j)
    BY <1>1, <1>2 DEF Owed
  <2> QED
    BY <2>1, <1>1, <1>3 DEF DInv, DueInv, Ahead
<1> QED
  BY <1>6, <1>7, <1>8, <1>9 DEF DInv

\* A settlement is the last one so far; its event is in the stream, or its
\* index is ahead of the stored one.
LEMMA SettleKeepsDue == ASSUME IInv, DInv, NEW i \in Invoices, LndSettle(i) PROVE DInv'
<1> DEFINE n == Event(2, addIndex + settleIndex, i, TRUE)
<1>1. /\ lnd[i].st = "open" /\ settleIndex' = settleIndex + 1
      /\ UNCHANGED <<accts, gone, invoices, lastAdd, lastSettle, credits, up, enabled, currentAdd,
                     currentSettle, invoiceToAccount, crediting, listening, addIndex, crashes>>
  BY DEF LndSettle, storeVars, memoryVars
<1>2. /\ \A j \in Invoices \ {i} : lnd'[j] = lnd[j]
      /\ lnd'[i].st = "settled" /\ lnd'[i].acct = lnd[i].acct /\ lnd'[i].add = lnd[i].add
      /\ lnd'[i].settle = settleIndex + 1
  BY DEF LndSettle, IInv, TypeOK, Invoice
<1>3. /\ stream \subseteq stream' /\ stream' \subseteq stream \cup {n}
      /\ listening => n \in stream'
  BY DEF LndSettle, Publish
<1>4. n.class = 2 /\ n.key = addIndex + settleIndex /\ n.inv = i /\ n.settled = TRUE
  BY DEF Event
<1> HIDE DEF n
<1>5. /\ addIndex \in Nat /\ settleIndex \in Nat /\ lastAdd \in Nat /\ lastSettle \in Nat
      /\ \A e \in stream : e.inv \in Invoices /\ e.class \in 0 .. 2 /\ e.key \in Nat
      /\ \A e \in stream : e.settled => e.inv # i /\ lnd[e.inv].settle <= settleIndex
      /\ \A j \in Invoices : lnd[j].add \in Nat /\ lnd[j].settle \in Nat
  BY <1>1 DEF IInv, TypeOK, StreamInv, DInv, IndexInv
<1>6. HealthyInv' /\ IndexInv'
  BY <1>1, <1>2, <1>3, <1>4, <1>5, SMTT(20), Z3T(20) DEF DInv, HealthyInv, IndexInv, Exists
<1>7. OrderInv'
  <2>1. \A e \in stream' : /\ e.class = 0 => e.key = lnd'[e.inv].add /\ e.key > lastAdd'
                           /\ e.class = 2 => e.key < addIndex' + settleIndex'
    BY <1>1, <1>2, <1>3, <1>4, <1>5, SMTT(20), Z3T(20) DEF DInv, OrderInv
  <2>2. \A e, f \in stream' : /\ e.class = 0 /\ f.class = 0 /\ e.inv = f.inv => e = f
                              /\ e.class = 2 /\ f.class = 2 /\ e.key = f.key => e = f
    BY <1>3, <1>4, <1>5, SMTT(20), Z3T(20) DEF DInv, OrderInv
  <2>3. ASSUME NEW f \in stream', f.class = 2, f.settled PROVE LastSettled(f)'
    <3>1. CASE f \in stream
      <4>1. LastSettled(f) /\ f.key < addIndex + settleIndex /\ f.inv # i
        BY <2>3, <3>1, <1>5 DEF DInv, OrderInv
      <4> QED
        BY <4>1, <3>1, <1>1, <1>2, <1>3, <1>4, <1>5, SMTT(20), Z3T(20) DEF LastSettled
    <3>2. CASE f = n
      <4>1. lastSettle' < lnd'[i].settle
        BY <1>1, <1>2, <1>5, SMTT(20), Z3T(20) DEF DInv, IndexInv
      <4>2. ASSUME NEW e \in stream', e.settled, e.class < 2 \/ e.key < f.key
            PROVE  lnd'[e.inv].settle < lnd'[i].settle
        BY <4>2, <3>2, <1>2, <1>3, <1>4, <1>5, SMTT(20), Z3T(20)
      <4> QED
        BY <3>2, <4>1, <4>2, <1>4 DEF LastSettled
    <3> QED
      BY <2>3, <3>1, <3>2, <1>3
  <2> QED
    BY <2>1, <2>2, <2>3 DEF OrderInv
<1>8. MapInv'
  BY <1>1, <1>2 DEF DInv, MapInv
<1>9. DueInv'
  <2> SUFFICES ASSUME NEW j \in Invoices, Owed(j)'
               PROVE  /\ up' => \E e \in stream' : e.inv = j /\ e.settled
                      /\ (\A e \in stream' : e.class # 1) => Ahead(j)'
    BY DEF DueInv
  <2>1. CASE j = i
    BY <2>1, <1>1, <1>2, <1>3, <1>4, <1>5, SMTT(20), Z3T(20) DEF Ahead, DInv, HealthyInv, IndexInv
  <2>2. CASE j # i
    <3>1. lnd'[j] = lnd[j] /\ Owed(j)
      BY <2>2, <1>1, <1>2 DEF Owed
    <3> QED
      BY <3>1, <1>1, <1>3 DEF DInv, DueInv, Ahead
  <2> QED
    BY <2>1, <2>2
<1> QED
  BY <1>6, <1>7, <1>8, <1>9 DEF DInv

\* Every response succeeds: an invoice its client sees is stored and mapped.
LEMMA AssociateKeepsDue ==
    ASSUME Faults = {}, IInv, DInv, NEW i \in Invoices, NEW db \in StoreResults,
           AssociateInvoice(i, db)
    PROVE  DInv'
<1> DEFINE a == lnd[i].acct
<1>1. up /\ db /\ enabled /\ a \in accts /\ lnd[i].st = "unissued" /\ a \in Accounts
  BY DEF AssociateInvoice, StoreResults, DInv, HealthyInv, MapInv
<1>2. /\ invoices' = [invoices EXCEPT ![a] = @ \cup {i}]
      /\ invoiceToAccount' = [invoiceToAccount EXCEPT ![i] = a]
      /\ lnd' = [lnd EXCEPT ![i] = Moved(@, "open")]
      /\ UNCHANGED <<accts, gone, lastAdd, lastSettle, credits, up, enabled, currentAdd,
                     currentSettle, crediting, listening, stream, addIndex, settleIndex, crashes>>
  BY <1>1 DEF AssociateInvoice
<1>3. /\ \A j \in Invoices \ {i} : lnd'[j] = lnd[j] /\ invoiceToAccount'[j] = invoiceToAccount[j]
      /\ lnd'[i].st = "open" /\ lnd'[i].acct = a /\ lnd'[i].add = lnd[i].add
      /\ lnd'[i].settle = lnd[i].settle /\ invoiceToAccount'[i] = a
  BY <1>2 DEF IInv, TypeOK, Moved, Invoice
<1>4. /\ i \in invoices'[a] /\ \A b \in Accounts : invoices[b] \subseteq invoices'[b]
      /\ \A e \in stream : e.inv \in Invoices
  BY <1>1, <1>2 DEF IInv, TypeOK
<1>5. HealthyInv' /\ IndexInv'
  BY <1>1, <1>2, <1>3, <1>4, SMTT(20), Z3T(20) DEF DInv, HealthyInv, IndexInv, Exists
<1>6. OrderInv'
  <2>1. \A e \in stream : lnd'[e.inv].add = lnd[e.inv].add /\ lnd'[e.inv].settle = lnd[e.inv].settle
    BY <1>3, <1>4
  <2> QED
    BY <1>2, <2>1 DEF DInv, OrderInv, LastSettled
<1>7. MapInv'
  BY <1>1, <1>2, <1>3, <1>4, AccountsAssumption, SMTT(20), Z3T(20) DEF DInv, MapInv
<1>8. DueInv'
  <2>1. \A j \in Invoices : Owed(j)' => Owed(j) /\ lnd'[j] = lnd[j]
    BY <1>2, <1>3 DEF Owed
  <2> QED
    BY <1>2, <2>1 DEF DInv, DueInv, Ahead
<1> QED
  BY <1>5, <1>6, <1>7, <1>8 DEF DInv

\* The event read is the first: what the rest of the stream owes is still ahead
\* of the indexes it raises, except for the settle backlog.
LEMMA UpdateKeepsDue ==
    ASSUME Faults = {}, IInv, DInv, NEW e \in stream, NEW db \in StoreResults, InvoiceUpdate(e, db)
    PROVE  DInv'
<1> DEFINE add == Raise(currentAdd, lnd[e.inv].add)
           settle == IF e.settled THEN Raise(currentSettle, lnd[e.inv].settle) ELSE currentSettle
           write == add # currentAdd \/ settle # currentSettle
           credit == {e.inv} \cap {i \in Invoices : e.settled /\ invoiceToAccount[i] # NoAcct}
<1>1. /\ listening /\ up /\ enabled /\ db /\ crediting = {}
      /\ currentAdd = lastAdd /\ currentSettle = lastSettle
      /\ UNCHANGED <<accts, gone, invoices, credits, up, invoiceToAccount, lnd, addIndex,
                     settleIndex, crashes>>
      /\ \A f \in stream : Before(e, f)
  BY DEF InvoiceUpdate, IInv, ListenInv, LockFree, lndVars, DInv, HealthyInv, StoreResults
<1>2. /\ e.inv \in Invoices /\ lnd[e.inv].add \in Nat /\ lnd[e.inv].settle \in Nat
      /\ lastAdd \in Nat /\ lastSettle \in Nat
  BY DEF IInv, TypeOK
<1>3. /\ lastAdd' = add /\ lastSettle' = settle
      /\ crediting' = credit /\ stream' = stream \ {e} /\ UNCHANGED <<enabled, listening>>
  BY <1>1 DEF InvoiceUpdate, Disable
<1>4. credit = IF e.settled /\ invoiceToAccount[e.inv] # NoAcct THEN {e.inv} ELSE {}
  BY <1>2
<1>5. /\ add \in {lastAdd, lnd[e.inv].add} /\ add >= lastAdd
      /\ settle \in {lastSettle, lnd[e.inv].settle} /\ settle >= lastSettle
      /\ ~e.settled => settle = lastSettle
  BY <1>1, <1>2, SMTT(20), Z3T(20) DEF Raise
<1> HIDE DEF add, settle, write, credit
<1>6. HealthyInv' /\ MapInv'
  BY <1>1, <1>3, <1>4 DEF DInv, HealthyInv, MapInv
<1>7. /\ Exists(e.inv) /\ lnd[e.inv].add <= addIndex
      /\ e.settled => lnd[e.inv].st = "settled" /\ lnd[e.inv].settle <= settleIndex
  BY <1>2 DEF DInv, IndexInv, IInv, StreamInv
<1>8. IndexInv'
  <2>1. lastAdd' > 0 /\ lastSettle' > 0 /\ lastAdd' <= addIndex' /\ lastSettle' <= settleIndex'
    BY <1>1, <1>2, <1>3, <1>5, <1>7, SMTT(20), Z3T(20) DEF DInv, IndexInv, IInv, TypeOK
  <2> QED
    BY <2>1, <1>1, <1>3 DEF DInv, IndexInv, Exists
<1>9. ASSUME NEW f \in stream' PROVE /\ f \in stream /\ f # e /\ Before(e, f) /\ f.inv \in Invoices
                                     /\ e.class \in 0 .. 2 /\ f.class \in 0 .. 2
                                     /\ e.key \in Nat /\ f.key \in Nat
                                     /\ lnd[f.inv].add \in Nat /\ lnd[f.inv].settle \in Nat
  BY <1>1, <1>3, <1>9 DEF IInv, TypeOK
<1>10. ASSUME NEW f \in stream', f.class = 0 PROVE f.key = lnd'[f.inv].add /\ f.key > lastAdd'
  <2>1. f.key = lnd[f.inv].add /\ f.key > lastAdd /\ Exists(f.inv)
    BY <1>9, <1>10 DEF DInv, OrderInv, IndexInv
  <2>2. e.class = 0 /\ e.key <= f.key
    BY <1>9, <1>10, SMTT(20), Z3T(20) DEF Before
  <2>3. e.key = lnd[e.inv].add
    BY <2>2 DEF DInv, OrderInv
  <2>4. lnd[e.inv].add < lnd[f.inv].add
    <3>1. e.inv # f.inv
      BY <1>9, <1>10, <2>2 DEF DInv, OrderInv
    <3>2. lnd[e.inv].add # lnd[f.inv].add
      BY <1>2, <1>7, <1>9, <2>1, <3>1 DEF DInv, IndexInv
    <3> QED
      BY <1>2, <1>9, <2>1, <2>2, <2>3, <3>2, SMTT(20), Z3T(20)
  <2> QED
    BY <1>1, <1>2, <1>3, <1>5, <1>9, <2>1, <2>4
<1>11. ASSUME NEW f \in stream', f.class = 2, f.settled PROVE LastSettled(f)'
  <2>1. LastSettled(f)
    BY <1>9, <1>11 DEF DInv, OrderInv
  <2>2. e.settled => lnd[e.inv].settle < lnd[f.inv].settle
    <3>1. e.class < 2 \/ e.key < f.key
      BY <1>9, <1>11, SMTT(20), Z3T(20) DEF Before, DInv, OrderInv
    <3> QED
      BY <2>1, <3>1 DEF LastSettled
  <2>3. lastSettle' < lnd'[f.inv].settle
    BY <1>1, <1>2, <1>3, <1>5, <2>1, <2>2 DEF LastSettled
  <2> QED
    BY <1>1, <1>3, <2>1, <2>3 DEF LastSettled
<1>12. OrderInv'
  BY <1>1, <1>3, <1>10, <1>11 DEF DInv, OrderInv
<1>13. DueInv'
  <2> SUFFICES ASSUME NEW j \in Invoices, Owed(j)'
               PROVE  /\ \E f \in stream' : f.inv = j /\ f.settled
                      /\ (\A f \in stream' : f.class # 1) => Ahead(j)'
    BY DEF DueInv
  <2>1. Owed(j)
    BY <1>1 DEF Owed
  <2>2. ~(e.inv = j /\ e.settled)
    BY <1>1, <1>3, <1>4, <2>1 DEF Owed, DInv, MapInv
  <2>3. PICK f \in stream' : f.inv = j /\ f.settled
    BY <1>1, <1>3, <2>1, <2>2 DEF DInv, DueInv
  <2>4. f.class = 0 => Ahead(j)'
    BY <1>1, <1>10, <2>3 DEF Ahead
  <2>5. f.class = 2 => Ahead(j)'
    BY <1>11, <2>3 DEF Ahead, LastSettled
  <2>6. f.class \in {0, 1, 2}
    BY <1>9, SMTT(20), Z3T(20)
  <2> QED
    BY <2>3, <2>4, <2>5, <2>6
<1> QED
  BY <1>6, <1>8, <1>12, <1>13 DEF DInv

\* The invoice whose update stored its indexes is credited.
LEMMA CreditKeepsDue ==
    ASSUME Faults = {}, IInv, DInv, NEW i \in Invoices, NEW db \in StoreResults, CreditAccount(i, db)
    PROVE  DInv'
<1>1. /\ i \in crediting /\ db /\ invoiceToAccount[i] \in accts /\ credits[i] = 0
      /\ crediting = {i} /\ crediting' = {}
      /\ UNCHANGED <<accts, gone, invoices, lastAdd, lastSettle, up, currentAdd, currentSettle,
                     lnd, addIndex, settleIndex, crashes>>
  BY DEF CreditAccount, lndVars, IInv, CreditingInv, TypeOK, DInv, MapInv, HealthyInv, StoreResults
<1>2. /\ credits' = [credits EXCEPT ![i] = 1]
      /\ invoiceToAccount' = [invoiceToAccount EXCEPT ![i] = NoAcct]
      /\ UNCHANGED <<enabled, listening, stream>>
  BY <1>1, SMTT(20), Z3T(20) DEF CreditAccount, Credited
<1>3. /\ credits'[i] # 0
      /\ \A j \in Invoices \ {i} : /\ credits'[j] = credits[j]
                                   /\ invoiceToAccount'[j] = invoiceToAccount[j]
  BY <1>2, SMTT(20), Z3T(20) DEF IInv, TypeOK
<1>4. HealthyInv' /\ IndexInv' /\ OrderInv'
  BY <1>1, <1>2 DEF DInv, HealthyInv, IndexInv, OrderInv, LastSettled, Exists
<1>5. MapInv'
  BY <1>1, <1>3 DEF DInv, MapInv
<1>6. DueInv'
  <2>1. \A j \in Invoices : Owed(j)' => Owed(j)
    BY <1>1, <1>3 DEF Owed
  <2> QED
    BY <1>1, <1>2, <2>1 DEF DInv, DueInv, Ahead
<1> QED
  BY <1>4, <1>5, <1>6 DEF DInv

\* A crash after the settle backlog leaves what is owed ahead of the indexes.
LEMMA CrashKeepsDue == ASSUME Faults = {}, IInv, DInv, Crash PROVE DInv'
<1>1. /\ up /\ crediting = {} /\ crediting' = {} /\ stream' = {} /\ \A e \in stream : e.class # 1
      /\ up' = FALSE /\ enabled' = FALSE /\ listening' = FALSE
      /\ UNCHANGED <<accts, invoices, lastAdd, lastSettle, credits, addIndex, settleIndex>>
  BY DEF Crash, LockFree, storeVars
<1>2. \A i \in Invoices :
        /\ lnd[i].st # "unissued" => lnd'[i] = lnd[i]
        /\ lnd[i].st = "unissued" => lnd'[i].st = "withheld"
        /\ lnd'[i].acct = lnd[i].acct /\ lnd'[i].add = lnd[i].add /\ lnd'[i].settle = lnd[i].settle
  BY DEF Crash, Moved, Invoice
<1>3. HealthyInv' /\ OrderInv'
  BY <1>1 DEF DInv, HealthyInv, OrderInv
<1>4. IndexInv'
  BY <1>1, <1>2, SMTT(20), Z3T(20) DEF DInv, IndexInv, Exists
<1>5. MapInv'
  BY <1>1, <1>2 DEF DInv, MapInv
<1>6. DueInv'
  <2>1. \A j \in Invoices : Owed(j)' => Owed(j) /\ lnd'[j] = lnd[j]
    BY <1>1, <1>2 DEF Owed
  <2> QED
    BY <1>1, <2>1 DEF DInv, DueInv, Ahead
<1> QED
  BY <1>3, <1>4, <1>5, <1>6 DEF DInv

\* The backlog that Start subscribes to has what is ahead of the indexes, and
\* the map has every invoice of an account.
LEMMA StartKeepsDue == ASSUME IInv, DInv, Start PROVE DInv'
<1>1. /\ ~up /\ up' = TRUE /\ enabled' = TRUE /\ listening' = TRUE /\ crediting = {}
      /\ stream = {} /\ stream' = Backlog(lastAdd, lastSettle) /\ invoiceToAccount' = Mapped
      /\ UNCHANGED <<accts, gone, invoices, lastAdd, lastSettle, credits, crediting, lnd, addIndex,
                     settleIndex, crashes>>
  BY DEF Start, storeVars, lndVars, IInv, ListenInv
<1>2. ASSUME NEW e \in stream'
      PROVE  /\ Exists(e.inv) /\ e.class \in {0, 1}
             /\ e.class = 0 => e.key = lnd[e.inv].add /\ e.key > lastAdd
  BY <1>1, <1>2, SMTT(20), Z3T(20) DEF Backlog, Event, Exists
<1>6. ASSUME NEW e \in stream', NEW f \in stream', e.class = 0, f.class = 0, e.inv = f.inv
      PROVE  e = f
  <2>1. PICK i \in Invoices : e = Event(0, lnd[i].add, i, lnd[i].st = "settled")
    BY <1>1, <1>6, SMTT(20), Z3T(20) DEF Backlog, Event
  <2>2. PICK j \in Invoices : f = Event(0, lnd[j].add, j, lnd[j].st = "settled")
    BY <1>1, <1>6, SMTT(20), Z3T(20) DEF Backlog, Event
  <2>3. e.inv = i /\ f.inv = j
    BY <2>1, <2>2 DEF Event
  <2> QED
    BY <1>6, <2>1, <2>2, <2>3, SMTT(20), Z3T(20)
<1>3. HealthyInv' /\ IndexInv' /\ OrderInv'
  BY <1>1, <1>2, <1>6, SMTT(20), Z3T(20) DEF DInv, HealthyInv, IndexInv, OrderInv, Exists
<1>4. MapInv'
  <2>1. ASSUME NEW i \in Invoices, NEW a \in Accounts, i \in invoices[a]
        PROVE  Mapped[i] # NoAcct
    BY <2>1, AccountsAssumption DEF Mapped, DInv, HealthyInv
  <2> QED
    BY <1>1, <2>1 DEF DInv, MapInv
<1>5. DueInv'
  <2> SUFFICES ASSUME NEW j \in Invoices, Owed(j)'
               PROVE  Ahead(j)' /\ \E e \in stream' : e.inv = j /\ e.settled
    BY DEF DueInv
  <2>1. Owed(j) /\ Ahead(j) /\ Ahead(j)' /\ lnd[j].st = "settled"
    BY <1>1 DEF Owed, DInv, DueInv, Ahead
  <2>2. lastAdd > 0 /\ lastSettle > 0
    BY DEF DInv, IndexInv
  <2>3. CASE lnd[j].add > lastAdd
    <3>1. Event(0, lnd[j].add, j, lnd[j].st = "settled") \in Backlog(lastAdd, lastSettle)
      BY <2>1, <2>2, <2>3 DEF Backlog, Exists
    <3>2. LET e == Event(0, lnd[j].add, j, lnd[j].st = "settled") IN e.inv = j /\ e.settled
      BY <2>1 DEF Event
    <3> QED
      BY <1>1, <2>1, <3>1, <3>2
  <2>4. CASE lnd[j].settle > lastSettle
    <3>1. Event(1, lnd[j].settle, j, TRUE) \in Backlog(lastAdd, lastSettle)
      BY <2>1, <2>2, <2>4 DEF Backlog
    <3>2. LET e == Event(1, lnd[j].settle, j, TRUE) IN e.inv = j /\ e.settled
      BY DEF Event
    <3> QED
      BY <1>1, <2>1, <3>1, <3>2
  <2> QED
    BY <2>1, <2>3, <2>4 DEF Ahead
<1> QED
  BY <1>3, <1>4, <1>5 DEF DInv

\* Every step preserves the delivery invariant when no fault happens.
LEMMA NextDInv == ASSUME Faults = {} PROVE IInv /\ DInv /\ [Next]_vars => DInv'
<1> SUFFICES ASSUME IInv, DInv, [Next]_vars PROVE DInv'
  OBVIOUS
<1>1. CASE Next
  <2>1. ~SubscriptionError /\ ~PaymentSideDisables /\ \A a \in Accounts : ~RemoveAccount(a)
    BY DEF SubscriptionError, PaymentSideDisables, RemoveAccount
  <2> QED
    BY <1>1, <2>1, AddKeepsDue, SettleKeepsDue, AssociateKeepsDue, CreditKeepsDue, UpdateKeepsDue,
       CrashKeepsDue, StartKeepsDue DEF Next
<1>2. CASE UNCHANGED vars
  <2> USE <1>2 DEF vars, storeVars, memoryVars, lndVars
  <2>1. HealthyInv' /\ IndexInv' /\ OrderInv'
    BY DEF DInv, HealthyInv, IndexInv, OrderInv, LastSettled, Exists
  <2>2. MapInv' /\ DueInv'
    BY DEF DInv, MapInv, DueInv, Owed, Ahead
  <2> QED
    BY <2>1, <2>2 DEF DInv
<1> QED
  BY <1>1, <1>2

\* For every number of accounts, invoices and crashes: with the stored indexes
\* in use and nothing failing but litd, between two updates and not before the
\* settle backlog of its last start is read, a settled invoice of an account is
\* credited, about to be, or delivered again (invoiceUpdate, Start).
THEOREM NothingLost == ASSUME Faults = {}, InitIndex > 0 PROVE Spec => []NoLostCredit
<1>1. IInv /\ DInv => NoLostCredit
  <2> SUFFICES ASSUME IInv, DInv, NEW i \in Invoices, lnd[i].st = "settled", lnd[i].acct \in accts,
                      ~(credits[i] > 0), i \notin crediting
               PROVE  StillDue(i)
    BY DEF NoLostCredit, StillDue
  <2>1. Owed(i)
    BY SMTT(20), Z3T(20) DEF Owed, IInv, TypeOK
  <2>2. CASE up
    BY <2>1, <2>2 DEF StillDue, DInv, DueInv
  <2>3. CASE ~up
    BY <2>1, <2>3 DEF StillDue, DInv, DueInv, Ahead, IInv, ListenInv, IndexInv
  <2> QED
    BY <2>2, <2>3
<1>2. Init => DInv
  BY InitDInv
<1>3. IInv /\ DInv /\ [Next]_vars => DInv'
  BY NextDInv
<1> QED
  BY <1>1, <1>2, <1>3, InductiveInvariant, PTL DEF Spec
=============================================================================
