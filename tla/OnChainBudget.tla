---------------------------- MODULE OnChainBudget ---------------------------
(***************************************************************************)
(* The on-chain budget rule (rules/onchain_budget.go) as the firewall's    *)
(* rule enforcer drives it (firewall/rule_enforcer.go): requests to open   *)
(* channels are checked against the budget, possibly rolled back because   *)
(* another rule refuses, run by lnd, and confirmed or cancelled by lnd's   *)
(* response. The manager's mutex and the store's transaction make each     *)
(* handler one step; requests interleave between them, and litd may crash. *)
(* The rule sees a request before lnd does: its amount is any int64, also  *)
(* a negative one, and is converted to uint64; sums of uint64s wrap around. *)
(***************************************************************************)
EXTENDS Integers, FiniteSetsExt

CONSTANTS
    Requests,        \* requests, each named by its lndConnID and request ID
    Amounts,         \* amounts of a request, all its channels together
    TwoTo63,         \* an int64 is below it, a uint64 below twice as much
    AbsoluteAmtSats, \* the budget
    MaxBudgetCrashes \* bound: crashes of litd

ASSUME BudgetAssumption ==
    /\ IsFiniteSet(Requests)
    /\ TwoTo63 \in Nat \ {0}
    /\ Amounts \subseteq -TwoTo63 .. TwoTo63 - 1
    /\ AbsoluteAmtSats \in 0 .. 2 * TwoTo63 - 1

VARIABLES
    spentAmt,  \* stored under spentKey
    pendingAmt, \* stored under pendingKey
    entry,     \* stored under pendingKey and the request's ID; 0 is no entry
    amount,    \* the request's int64, the sum over its channels
    wrapped,   \* history: a sum that was compared with the budget has overflowed
    rule,      \* progress of the request in the rule enforcer
    node,      \* external: what lnd has done with the request
    budgetCrashes

budgetVars == <<spentAmt, pendingAmt, entry, amount, wrapped, rule, node, budgetCrashes>>

Uint64s == 0 .. 2 * TwoTo63 - 1

\* Conversion to uint64, and what is left of a sum of uint64s.
uint64(n) == n % (2 * TwoTo63)

BudgetInit ==
    /\ spentAmt = 0 /\ pendingAmt = 0
    /\ entry = [r \in Requests |-> 0]
    /\ amount \in [Requests -> Amounts]
    /\ wrapped = FALSE
    /\ rule = [r \in Requests |-> "new"]
    /\ node = [r \in Requests |-> "none"]
    /\ budgetCrashes = 0

\* What is still pending does not count.
Affordable_spent(a) == uint64(spentAmt + a) <= AbsoluteAmtSats

Affordable(a) == uint64(spentAmt + pendingAmt + a) <= AbsoluteAmtSats

\* The request's entry and the new total, unless the request has an entry.
addPendingAmt(r, amt) ==
    /\ entry[r] = 0
    /\ entry' = [entry EXCEPT ![r] = amt]
    /\ pendingAmt' = uint64(pendingAmt + amt)

\* handleOpenChannelRequest and handleBatchOpenChannelRequest up to
\* handlePendingPayment: the request is refused before it comes to the budget
\* (fee rate, unsupported options), exceeds the budget, or becomes pending.
HandleRequest(r) ==
    /\ rule[r] = "new"
    /\ \/ /\ rule' = [rule EXCEPT ![r] = "refused"]
          /\ UNCHANGED <<entry, pendingAmt, wrapped>>
       \/ LET amt == uint64(amount[r]) IN
          /\ Affordable(amt)
          /\ addPendingAmt(r, amt)
          /\ wrapped' = (wrapped \/ spentAmt + pendingAmt + amt >= 2 * TwoTo63)
          /\ rule' = [rule EXCEPT ![r] = "pending"]
    /\ UNCHANGED <<spentAmt, amount, node, budgetCrashes>>

\* The enforcer has asked all its rules, and another one refuses.
OtherRuleRefuses(r) ==
    /\ rule[r] = "pending"
    /\ rule' = [rule EXCEPT ![r] = "refused"]
    /\ UNCHANGED <<spentAmt, pendingAmt, entry, amount, wrapped, node, budgetCrashes>>

\* None refuses: lnd gets the request.
ForwardRequest(r) ==
    /\ rule[r] = "pending"
    /\ rule' = [rule EXCEPT ![r] = "sent"]
    /\ node' = [node EXCEPT ![r] = "open"]
    /\ UNCHANGED <<spentAmt, pendingAmt, entry, amount, wrapped, budgetCrashes>>

\* The total is lowered though the entry is gone already.
cancelPendingPayment_again(r) ==
    /\ entry' = [entry EXCEPT ![r] = 0]
    /\ pendingAmt' = pendingAmt - uint64(amount[r])

\* Without an entry the request has been accounted for already. The transaction
\* fails and changes nothing if the total is less than the entry.
cancelPendingPayment(r) ==
    \/ /\ pendingAmt >= entry[r]
       /\ entry' = [entry EXCEPT ![r] = 0]
       /\ pendingAmt' = pendingAmt - entry[r]
    \/ pendingAmt < entry[r] /\ UNCHANGED <<entry, pendingAmt>>

\* handleRequest's roll back of every rule, the ones that refused included.
RollBack(r) ==
    /\ rule[r] = "refused"
    /\ cancelPendingPayment(r)
    /\ rule' = [rule EXCEPT ![r] = "done"]
    /\ UNCHANGED <<spentAmt, amount, wrapped, node, budgetCrashes>>

\* lnd publishes the funding transaction, or fails without it. It funds no
\* channel with nothing or less, so that what it publishes costs at most the
\* amount, a sum of the channels' amounts.
NodeEnds(r) ==
    /\ node[r] = "open"
    /\ \E out \in {"published", "failed"} :
          /\ out = "published" => amount[r] > 0
          /\ node' = [node EXCEPT ![r] = out]
    /\ UNCHANGED <<spentAmt, pendingAmt, entry, amount, wrapped, rule, budgetCrashes>>

\* handleErrorResponse for lnd's error. An error of another rule ends the loop
\* before this rule.
HandleErrorResponse(r) ==
    /\ rule[r] = "sent" /\ node[r] = "failed"
    /\ cancelPendingPayment(r) \/ UNCHANGED <<entry, pendingAmt>>
    /\ rule' = [rule EXCEPT ![r] = "done"]
    /\ UNCHANGED <<spentAmt, amount, wrapped, node, budgetCrashes>>

\* The response is taken for the amount that was asked for.
handlePaymentConfirmed_again(r) ==
    /\ entry' = [entry EXCEPT ![r] = 0]
    /\ pendingAmt' = uint64(pendingAmt - entry[r])
    /\ spentAmt' = uint64(spentAmt + amount[r])

\* The entry, if it is still there, moves from pending to spent; the transaction
\* fails as in cancelPendingPayment.
handlePaymentConfirmed(r) ==
    \/ /\ pendingAmt >= entry[r]
       /\ entry' = [entry EXCEPT ![r] = 0]
       /\ pendingAmt' = pendingAmt - entry[r]
       /\ spentAmt' = uint64(spentAmt + entry[r])
    \/ pendingAmt < entry[r] /\ UNCHANGED <<entry, pendingAmt, spentAmt>>

\* handleResponse. A request can have several responses, so this may repeat. An
\* error of another rule's HandleResponse ends the loop before this rule.
HandleResponse(r) ==
    /\ rule[r] = "sent" /\ node[r] = "published"
    /\ \/ handlePaymentConfirmed(r) /\ UNCHANGED rule
       \/ rule' = [rule EXCEPT ![r] = "done"] /\ UNCHANGED <<spentAmt, pendingAmt, entry>>
    /\ UNCHANGED <<amount, wrapped, node, budgetCrashes>>

\* litd goes down. Requests it was asked about fail in lnd; what lnd has been
\* given goes on, and its response does not come back: the new connection's
\* lndConnID is another one.
BudgetCrash ==
    /\ budgetCrashes < MaxBudgetCrashes
    /\ budgetCrashes' = budgetCrashes + 1
    /\ rule' = [r \in Requests |-> IF rule[r] = "new" THEN "new" ELSE "done"]
    /\ UNCHANGED <<spentAmt, pendingAmt, entry, amount, wrapped, node>>

BudgetNext ==
    \/ \E r \in Requests :
          \/ HandleRequest(r) \/ OtherRuleRefuses(r) \/ ForwardRequest(r) \/ RollBack(r)
          \/ NodeEnds(r) \/ HandleErrorResponse(r) \/ HandleResponse(r)
    \/ BudgetCrash

BudgetSpec == BudgetInit /\ [][BudgetNext]_budgetVars
-----------------------------------------------------------------------------
\* What lnd spends on a request; it opens no channel for nothing or less.
Spends == [r \in Requests |-> IF amount[r] > 0 THEN amount[r] ELSE 0]

Total(rs) == MapThenSumSet(LAMBDA r : Spends[r], rs)

\* Types of the variables.
BudgetTypeOK ==
    /\ spentAmt \in Uint64s /\ pendingAmt \in Uint64s
    /\ entry \in [Requests -> Uint64s] /\ amount \in [Requests -> Amounts]
    /\ wrapped \in BOOLEAN
    /\ rule \in [Requests -> {"new", "pending", "refused", "sent", "done"}]
    /\ node \in [Requests -> {"none", "open", "published", "failed"}]

\* What lnd has spent and what it may still spend for requests the rule let
\* through never exceeds the budget, whatever is rolled back, answered twice or
\* lost in a crash, unless a sum that handlePendingPayment compares with the
\* budget has overflowed; and that takes a request with a negative amount, or a
\* budget of 2^63 or more.
BudgetHolds ==
    /\ ~wrapped => Total({r \in Requests : node[r] \in {"open", "published"}}) <= AbsoluteAmtSats
    /\ wrapped => \/ AbsoluteAmtSats >= TwoTo63
                  \/ \E r \in Requests : amount[r] < 0 /\ rule[r] # "new"

\* The books are right, after an overflow too: what counts as spent was
\* published, however many responses a request has; and the pending total is
\* the sum of the entries, up to the width of the total. Without an overflow it
\* is the sum, so that "total pending cannot be less than requested amount" does
\* not occur.
BooksAreRight ==
    LET entries == MapThenSumSet(LAMBDA r : entry[r], Requests) IN
    /\ spentAmt <= Total({r \in Requests : node[r] = "published"})
    /\ pendingAmt = uint64(entries)
    /\ ~wrapped => pendingAmt = entries
=============================================================================
