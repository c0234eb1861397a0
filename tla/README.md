# A TLA+ model of lightning-terminal

lightning-terminal (litd) runs beside an lnd node. It adds off-chain accounts, Lightning Node
Connect sessions and a firewall on top of lnd's RPC middleware, bundles the sub-servers Loop, Pool,
Faraday and Taproot Assets, and serves a web app that talks to all of them. A second web app,
`paywall-web`, sells documents for Lightning payments. This directory holds TLA+ specifications of
their stateful parts, TLC configurations that check them on small instances, and TLAPS proofs for
all instances.

## The system's parts

| Part | Source | State | What makes it hard | Module |
|---|---|---|---|---|
| Accounts, payments | `accounts/service.go`, `checkers.go`, `interceptor.go`, `rpcserver.go` | account rows, `pendingPayments`, `requestValuesStore`, `isEnabled` | two locks, one goroutine per payment, cancellation, crash and resume, partial failure | `AccountPayments` |
| Accounts, invoices | `accounts/service.go`, `checkers.go` | `invoiceToAccount`, add and settle index in memory and in the store | backlog replay, order of two backlogs, crash between two writes | `AccountInvoices` |
| Account stores | `accounts/store_kvdb.go`, `store_sql.go` | account rows | two back ends that must agree | `AccountStore` |
| Sessions | `session_rpcserver.go`, `session/`, `autopilotserver/client.go` | session rows, active mailbox servers, timers, the sessions the autopilot client keeps alive | handlers, one goroutine per session, timers and start-up against each other; crash; linked groups | `Sessions` |
| On-chain budget | `rules/onchain_budget.go`, `firewall/rule_enforcer.go` | stored spent, pending and per-request amounts | check in one call, confirmation in another, rollback, lost answers, sums that overflow | `OnChainBudget` |
| Queue | `queue/queue.go` | two channels and a list | order, closing, stopping | `ConcurrentQueue`, `FifoQueue` |
| Fatal errors and shutdown | `rpcmiddleware/manager.go`, `terminal.go` | the error queue and its senders | blocked senders, order of shutdown | `ErrorQueue` |
| Web app, swap wizard | `app/src/store/views/buildSwapView.ts` | the wizard's step and form, terms, quotes, a timer | answers and timers that come after the user has moved on | `BuildSwap` |
| Web app, swaps | `app/src/store/stores/swapStore.ts` | swaps, channels in use (saved in the browser) | list against stream, throttled prune, reload | `SwapStore` |
| Web app, channels | `app/src/store/stores/channelStore.ts` | open and pending channels | lists against events | `ChannelStore` |
| Web app, Pool batches | `app/src/store/stores/batchStore.ts`, `models/market.ts` | ordered batches of a market | paging at both ends at once | `BatchStore` |
| Web app, messages | `app/src/types/generated/*_pb.js` | message objects, bytes on the wire | presence, oneofs, packing, 64-bit numbers | `WireFormat`, `WireFields`, `LitMessages`, `LndMessages`, `LndPaymentMessages`, `LoopMessages`, `PoolMessages` |
| L402 paywall | `paywall-web/` | content blobs, Postgres rows, Edge Config, invoices, receipts | three stores without a common transaction, handlers that overlap and are cut off | `Paywall` |

How they interact: lnd calls every registered interceptor (accounts, privacy mapper, rule enforcer,
request logger) for a request and again for its response; a session's macaroon decides which of
them apply. Interceptors and lnd report fatal errors through the error queue. The web app reaches
lnd, Loop, Pool and litd with the generated messages; the wizard starts swaps and marks their
channels in the swap store, whose updates make the channel store fetch again. The paywall uses an
lnd node for invoices and shares nothing else with litd.

## Modules

Each component module declares its state and one action per handler or step, with the environment
(lnd, Loop, the auctioneer, the clock, the stores of the paywall) as actions marked external.
`MCAccountPayments`, `MCAccountInvoices` add symmetry sets, `MCWireFormat` the set of all message
schemas. `MCApp` and `MCDaemon` hold several components that share no state: the variable `part`
chooses at the start which one a behaviour is of, and the others rest. `MCApp` extends the components
about which something is proved and instantiates the others; `MCDaemon` extends all of its own.

The proofs are in `AccountPaymentsProofs`, `AccountPaymentsResume`, `AccountPaymentsReserve`,
`AccountPaymentsBalance` (each extends the one before it), `AccountInvoicesProofs`, `DaemonProofs`
(sessions, queue, budget), `AppProofs` (paywall, wizard) and `FiniteSums` (facts about sums over
finite sets).

A definition whose name is another one's with a suffix (`SendAmt_noFee`, `Verified_anyVersion`) is a
faulty variant of it. No specification uses it; putting it in the place of the original must break
a property.

### AccountPayments

An action is one critical section of the service's `RWMutex`. `Intercept` holds `requestMtx` over
two such sections, so a request in state `checked` or `replying` excludes every other interception
(`MtxFree`) but not the tracking goroutines and the operator.

| State | Code |
|---|---|
| `accts`, `gone`, `expired`, `balance`, `payments` | the account rows; a removed ID is never used again |
| `phase` | the life of litd: down, inside `Start`, up, or stopped after a failed `Start` |
| `enabled` | `isEnabled` |
| `pending` | `pendingPayments`, by hash as in the code |
| `tracker` | per hash, the goroutine `TrackPayment` started, by the message it will act on |
| `stale` | messages received by goroutines whose context was cancelled afterwards |
| `reqVals` | `requestValuesStore` |
| `startQ` | the payments `Start` has read and not resumed yet |
| `req`, `lnd` | RPC requests on their way, and lnd's payment per hash |

| Action | Code |
|---|---|
| `CheckSend`, `AssociatePayment` | `checkSend`, `checkSendToRoute`: balance check, then reservation and `RegisterValues` |
| `LndStart`, `LndRefuse`, `LndResolve` | lnd (external): runs, refuses, ends a payment |
| `Intercept`, then `PaymentErrored`, `SendFailed` or `SendTracked` | the response: Intercept's checks, then `erroredPaymentHandler`, the failure branch of `checkSendResponse`, or the tracking one and `sendToRouteHTLCResponseHandler` |
| `TrackerUpdate`, `TrackerNotInitiated`, `TrackerError`, `TrackerQuit` | the branches of the goroutine's select |
| `StaleUpdate`, `StaleExit` | the same select after cancellation, when both the message and `ctxc.Done` are ready |
| `NewAccount`, `UpdateBalance`, `CreditAccount`, `DebitAccount`, `UpdateExpiry`, `RemoveAccount` | operator RPCs |
| `Expire`, `Crash` | time and failure |
| `Start`, `StartTrack`, `StartDone` | `Start`, one `TrackPayment` at a time |

The kinds of request are `v2` (`SendPaymentV2`, a stream of payment updates), `sync` (`SendPayment`
and `SendPaymentSync`, one answer at the end) and `route` (`SendToRouteV2`). The deprecated
`SendToRoute` and `SendToRouteSync` combine the request check of the one with the response handler
of the other.

The constant `Faults` says what can go wrong in a run: operator calls (`admin`), expiry, account
removal, failing `TrackPayment` calls (`router`), failing streams, failing writes (`store`), a
settlement whose second write fails (`settle`), two accounts paying one hash (`share`), and lnd
taking up a request after litd's restart that it had accepted before (`late`).

Assumptions about the environment: lnd answers with an RPC error only if it did not start a payment
for that request; a duplicate of a payment is answered by the `SendResponse` RPCs with a payment
error; a fee is within its limit; a cancelled stream reports no error; a response that the
interceptor rejects ends the RPC. `UpsertAccountPayment` returns `known` as set by the call beside
it, which is what the compiler produces. Amounts are unbounded integers: balances are `int64`
millisatoshi, far from overflow for amounts that exist.

### AccountInvoices

One goroutine reads the subscription. `invoiceUpdate` is two actions, `InvoiceUpdate` (store the
indexes) and `CreditAccount`, because they are two transactions and a crash can come in between;
the lock is held across both (`LockFree`). `Start` fills `invoiceToAccount` with every invoice of
every account and subscribes from the stored indexes. `Backlog` is lnd's behaviour: for a non-zero
index, everything added after it, then everything settled after it, then live events. The model
counts the credits of an invoice instead of adding amounts. An invoice cannot be paid before the
AddInvoice response has passed the interceptor, because its client has not seen it.
`PaymentSideDisables` stands for the payment side of the same service.

### Sessions

An action is one store transaction, one critical section or one message of another party.

| State | Code |
|---|---|
| `state`, `kind`, `group`, `remote` | the session row: state, type, group, whether a remote key is known |
| `adding`, `revoking` | how far `AddSession`, `AddAutopilotSession` or `RevokeSession` has come |
| `served`, `watch`, `timer` | `activeSessions`, the goroutine of `resumeSession`, the first-connection deadline |
| `byRpc` | that goroutine uses the context of the RPC that started it; on a SQL back end its writes fail after the RPC has ended |
| `tracked`, `rejected` | the autopilot client's sessions, and those its server has refused for good |
| `up`, `toResume`, `clock` | litd's life, the sessions start-up has not come to, deadline and expiry |

`NewSession`, `RegisterSession`, `Created`, `AddResumes` are the steps of the Add handlers;
`RevokeSession`, `RevokeUntracks`, `RevokeStops` those of the revocation; `WatchFires`, `WatchStops`,
`WatchShifts`, `WatchClosed` those of the goroutine; `start` and `StartResumes` those of start-up,
which deletes reserved rows. Revoking a session whose start failed stops a server that does not
exist, which ends the process (`RevokeStops`). Two history variables mark exceptions that the
properties name: `missed`, a session revoked between `ShiftState(Created)` and `resumeSession`;
`unwatched`, a session left without a goroutine to end it.

### OnChainBudget

One action per call of the rule: `HandleRequest` adds the amount to the pending total and stores an
entry; `RollBack` undoes that when another rule refuses; `HandleResponse` and `HandleErrorResponse`
confirm or cancel. The manager's mutex and the store's transaction make each one step. lnd may
publish after litd has crashed; then the entry stays pending for ever, which is the safe side.

The rule sees a request before lnd has looked at it. `amount` is the int64 that the handlers
compute, negative ones included; `uint64` is the conversion and what a sum of uint64s leaves.
Cancelling and confirming change nothing when the stored total is less than the entry ("total
pending cannot be less than requested amount"). The history variable `wrapped` records that a sum
compared with the budget has overflowed. `BudgetHolds` makes no promise after that, since a request
whose sum wraps around passes the check and lowers the stored total; it says instead what it takes:
a negative amount, or a budget of 2^63 or more. lnd is assumed to fund no channel with a negative or
zero amount, so that a request costs at most its amount (`NodeEnds`, `Spends`).

### ConcurrentQueue, FifoQueue, ErrorQueue

`FifoQueue` is the abstract specification, one sequence with `Push` and `Pop`. `ConcurrentQueue`
models the goroutine of `queue.go` with its two selects, the list and the buffered channel;
`FifoOrder` is the refinement with `items <- chanOut \o overflow`. `ErrorQueue` extends it with the
queue's users: the goroutines of the middleware manager and of lnd, which send errors, and `Run`,
which waits for the first one, then stops the manager, drains the queue, waits for its goroutines
and stops the queue.

### BuildSwap, SwapStore, ChannelStore, BatchStore

An action is one turn of the JavaScript event loop: a click, the continuation after an `await`, a
timer callback, a stream event. Answers of the server are taken when the server makes them and
applied later, so that a list can be older than an event that has been applied before it.

- `BuildSwap`: the wizard's steps, `getTerms`, `getQuote`, `requestSwap` with its delay and its
  callback, `abortSwap`, `cancel`. `hasty` marks that the user left the last step while a submitted
  swap had not been answered, and confirmed another one: the late answer then works on the wrong
  form, which the properties except.
- `SwapStore`: `fetchSwaps`, `onSwapUpdate`, `pruneSwappedChannels` and its throttled form,
  `addSwappedChannels`, reload with what the browser has saved. `overtaken` marks that a list was
  applied after a newer update. As in the code, `fetchSwaps` removes nothing: `Object.keys` of an
  observable map is empty.
- `ChannelStore`: `fetchChannels`, `fetchPendingChannels`, `onChannelEvent`. `chanFresh` and
  `pendFresh` say that the list applied last was not passed by an event.
- `BatchStore`: `fetchBatches`, `fetchLatestBatch`, `fetchLeaseDurations` and `Market.update` for one
  market. `crossed` marks two requests for the newest batches under way at once, `failed` a failed
  request, `Sparse` a full page in which the market did not clear.

### WireFields, the schema modules, WireFormat

Every generated message class is one record of `LitMessages`, `LndMessages`, `LndPaymentMessages`,
`LoopMessages` or `PoolMessages`: its fields in the order in which `serializeBinaryToWriter` writes
them, with number, kind of reader and writer, presence and oneof group. `WireFormat` gives setters,
writer and reader their meaning for any schema: the page sets fields and serializes; or a server
answers with any order of fields, packed or not, with a singular field more than once, several
members of a oneof, defaults and fields of a newer version, and the reader takes them apart. That
writer, reader and setters of a class agree on a field's number and kind is how the schemas are
written down, one record per field, and not a result of the run. A field read with `readInt64`
instead of `readInt64String` goes through a JavaScript number: values above `Safe` are rounded.

### Paywall

One skill. An action is one call of a handler to a store or to lnd.

| State | Code |
|---|---|
| `blob`, `rows`, `edge` | the blob store, `skill_versions` in Postgres, the skill's item in Edge Config |
| `pub` | publish handlers: uploaded, first statement begun, rows locked, committed; `seen` is the snapshot of the first statement, `alone` that no other publication has overlapped it |
| `req` | content handlers: verify, deliver, challenge, invoice, record |
| `invoice`, `challenges`, `receipts` | lnd's invoices with the macaroon minted for each, and the two tables |
| `served`, `announced` | history: what was served for which payment; the skill whose publication succeeded last without overlap |

`BeginUpdate`, `LockRows` and `Commit` are the transaction under Postgres' default isolation (read
committed): the update sees the rows committed when it begins, waits for rows that another
transaction has locked, and does not see rows inserted meanwhile. Any call may fail, and a handler
may be cut off after any step; a call that failed has taken effect or never will. The store may
accept or refuse a second upload of the same content; a macaroon cannot be made without the root
key, nor a preimage be known without paying. Edge Config gives what was written last, or an error;
the delay with which a write spreads, and the five minutes for which a manifest may be cached, are
outside the model. Prices stay within the configured range.

## Runs

Passing runs:

| Run | Checks | Shows |
|---|---|---|
| `Payments_live` | `OwnDebits`, `PaymentsResumable`, `RemovedNeverSucceeds`, `StaysEnabled`, `BalanceCovered`, `SettleEventually`, `ReleaseEventually` | with a healthy database and lnd, crashes alone lose, misattribute or disable nothing; the reservation is enough for the RPCs that answer at the end; a completed payment is debited and a failed `SendToRouteV2` payment is released in the end |
| `Payments_faults` | `TrackedReserved`, `DebitsAreReal` | what is tracked is reserved and what is debited was paid, across removal, expiry, shared hashes and every failure of a first write, call or stream |
| `Payments_settleFaults` | `SoleAttemptResumable`, `DebitOnce` | one debit per payment when a settlement fails half way, the operator changes balances and lnd takes up requests late |
| `Invoices_once` | `CreditOnce` | no replay credits twice, under every fault |
| `Invoices_delivery` | `NoLostCredit`, `CreditEventually` | two crashes, neither inside an update nor before the settle backlog is read: stored indexes and backlog lose nothing once both indexes are non-zero, and every settled invoice is credited in the end |
| `Wire_messages` | `ServerReceives`, `PageReceives` | for each message class, a server that follows the wire format receives what the page has set last, explicit defaults included, and the page the last of what a server has written to a field or a oneof, with every digit where the field is read as a string |
| `App` | wizard: `StepFollowsSwap`, `SwapAsConfirmed`, `ChannelsMarked` | a swap goes out as it was confirmed and can be aborted until then; its channels are marked |
| | swaps: `EndedUnmarked`; channels: `ChannelsConverge` | marks of ended swaps go; lists and events together leave what lnd has |
| | batches: `NewestFirst`, `OlderShown` | pages and latest batches leave one ordered list, and paging reaches the oldest batch |
| | paywall: `SoldIsStored`, `SalesRecorded`, `ManifestCurrent` | what is sold can be delivered; content goes out for its own paid invoice, with challenge and receipt on record; after a publication that overlapped no other both catalogs name it |
| `Daemon` | sessions: `OneLivePerGroup`, `RevokedNotServed`, `TerminalStays`, `OverdueEnds`, `RevokedUntracked` | the states of a session across handlers, timers, crashes and restarts |
| | budget: `BudgetHolds`, `BooksAreRight` | neither roll back, lost or repeated answers nor crashes overspend or miscount, while no sum overflows; what counts as spent was published, and the total is that of the entries modulo 2^64, also after an overflow |
| | queue: `FifoOrder`, `DrainedOnClose`; errors: `StopReturns`, `ErrorReachesMain` | the queue is a FIFO queue, hands on everything, and neither errors nor shutdown get stuck in it |

`App` and `Daemon` also check the types of their parts (`TypeOK`, `DaemonTypeOK`); those of the
account modules are proved.

Runs in which the code disagrees with its own comments or documentation:

| Run | Violates | What happens |
|---|---|---|
| `Payments_negative` | `BalanceNonNegative` | a `SendPaymentV2` update in flight replaces the reservation (value plus fee limit) by value plus fee so far; a second payment uses the difference; both settle |
| `Payments_failure` | `FailureReleases` | the first update of a payment is FAILED; nothing is tracked, so `RemovePayment` does nothing and the reservation stays until a restart |
| `Payments_removed` | `RemovedNeverSucceeds` | a second account sends a duplicate of a payment in flight; its failure removes the first account's payment |
| `Invoices_crash` | `NoLostCredit` | crash between `StoreLastIndexes` and `CreditAccount` |

Variations of these runs show five more consequences. With `InitIndex` 0 `NoLostCredit` fails: a
stored settle index of 0 asks for no settle backlog, so an invoice that settles while litd is down
is not delivered. With `"share"` and a crash `OwnDebits` fails: after a restart a hash that two
accounts know is tracked for the first account read. With `"disable"` `NoLostCredit` fails: the add
backlog can raise the settle index beyond an invoice of the settle backlog, and the service is
disabled before that one is read. With `"backlog"` it fails in the same way by two crashes: the
second one comes before the settle backlog of the start after the first is read. With `"remove"`
`StaysEnabled` fails: removing one account disables the service for all of them, when the answer to
a request of that account comes later and its row is gone, or when a cancelled goroutine holds a
terminal status already and acts on it.

### Bounds

- Accounts. Two requests on two hashes give every pair of a payment with a retry, a duplicate or a
  competitor for the balance. Two accounts are enough for sharing a hash and for the order of
  `Start`'s loop. `Values` and `FeeLimits` have one member each, so that a fee of zero and the full
  limit both occur and `InitBalance` admits one, two or no payments. `MaxCrashes` is one or two: the
  second crash hits a service that is already resuming. Three invoices give one that is covered by
  the indexes, one that is ahead of them and one in between. `MaxBalance` bounds the operator's
  credits only.
- Wire. `Messages` are all classes. Two setter calls, or two fields from the server, reach every
  pair of members of a oneof and every field twice; `Safe` is where JavaScript numbers stop being
  exact, 8 in place of 2^53, with values on both sides.
- Web app. Two swaps, two quotes and one change of the terms make a late answer meet a newer
  question; one channel, one flip of its activity and two fetches make a list meet an event on
  either side; three batches with pages of two make a page end before the last batch; one reload.
- Paywall. Two versions, two publish handlers and two transactions in all overlap in every way; one
  content handler and one invoice meet both versions. The same properties hold with three
  transactions and two prices (4.7 million states).
- Daemon. Four senders of errors and a buffer of one fill the queue; two sessions form a group; a
  single session runs with both kinds; three requests of one, two or minus one against a budget of
  three reach its limit exactly, exceed it and wrap around, with `TwoTo63` 8 in place of 2^63; one
  crash at any point.

Runs do not check for deadlock: requests, invoices, publications, errors and crashes are finite, and
a system that has handled all of them stops. Symmetry is used in safety runs of the accounts only:
requests and hashes, and accounts in `AccountInvoices` (they are ordered in `AccountPayments`).

### Fairness

All fairness is weak, and it is stated in the specification that the run uses.

- Accounts: litd's own goroutines and handlers (Go schedules them and every critical section ends),
  lnd's duty to take up or refuse a request and to answer it, and the supervisor that restarts litd.
- Sessions (`Fairness`): goroutines and timers run, the `RegisterSession` call returns, litd is
  restarted. Requests, peers and the clock owe nothing.
- Queue and errors (`DaemonFairness`): the queue's goroutine runs and its user receives; inside
  litd every goroutine that can go on does, and lnd ends after the shutdown signal. The signal and
  errors are not owed.
- Web app (`AppFairness`): timers fire, calls are answered one way or the other, streams deliver.
  Users, Loop, lnd and the auctioneer owe nothing, except that somebody who wants to see older
  batches keeps asking for them. The paywall's properties are safety properties.

## Proofs

For every value of the constants that satisfies the assumptions of the module:

| Theorem | States |
|---|---|
| `AccountPaymentsProofs!TypeCorrect` | `Spec => []TypeOK` |
| `AccountPaymentsProofs!TrackedIsReserved` | `Spec => []TrackedReserved` |
| `AccountPaymentsProofs!OnlyRealDebits` | `Spec => []DebitsAreReal` |
| `AccountPaymentsProofs!DebitOnceIfUpdatesSucceed` | `"settle" \notin Faults` implies `Spec => DebitOnce` |
| `AccountPaymentsResume!SoleAttemptTheorem` | `Spec => []SoleAttemptResumable` |
| `AccountPaymentsResume!OwnDebitsTheorem` | no `"share"`: `Spec => []OwnDebits` |
| `AccountPaymentsResume!StaysEnabledTheorem` | `Faults` within `"admin"`, `"expire"`, `"late"`, `"router"`: `Spec => []StaysEnabled` |
| `AccountPaymentsResume!PaymentsResumableTheorem` | no `"share"`, `"remove"`, `"late"`: `Spec => []PaymentsResumable` |
| `AccountPaymentsResume!RemovedNeverSucceedsTheorem` | no `"share"`, `"remove"`, `"late"`: `Spec => []RemovedNeverSucceeds` |
| `AccountPaymentsBalance!BalanceCoveredTheorem` | `Hashes` finite, no `"admin"`, `"share"`, `"remove"`, `"late"`: `Spec => []BalanceCovered` |
| `AccountInvoicesProofs!CreditedOnce` | `Spec => []CreditOnce` |
| `AccountInvoicesProofs!NothingLost` | `Faults` empty, `InitIndex > 0`: `Spec => []NoLostCredit` |
| `DaemonProofs!QueueImplementsFifo` | `QueueSpec => FifoOrder` |
| `DaemonProofs!ErrorQueueImplementsFifo` | `ErrSpec => FifoOrder` |
| `DaemonProofs!RevokedTheorem` | `Spec => []RevokedNotServed` |
| `DaemonProofs!ReservedTheorem` | `Spec => []ReservedIsRecent` |
| `DaemonProofs!TerminalTheorem` | `Spec => TerminalStays` |
| `DaemonProofs!GroupTheorem` | `Spec => []OneLivePerGroup` |
| `DaemonProofs!BudgetTheorem` | `BudgetSpec => []BudgetHolds` |
| `DaemonProofs!BooksTheorem` | `BudgetSpec => []BooksAreRight` |
| `AppProofs!StepTheorem` | `WizardSpec => []StepFollowsSwap` |
| `AppProofs!ConfirmedTheorem` | `WizardSpec => []SwapAsConfirmed` |
| `AppProofs!MarkedTheorem` | `WizardSpec => ChannelsMarked` |
| `AppProofs!SoldTheorem` | `Spec => []SoldIsStored` |
| `AppProofs!SalesTheorem` | `Spec => []SalesRecorded` |
| `AppProofs!ManifestTheorem` | `Spec => []ManifestCurrent` |

Payments (`Accounts` a set of positive numbers, any sets of hashes, requests and amounts, any bound
on crashes, any set of faults). `TrackedReserved` is not inductive: an answer that is being handled
could overwrite or delete the entry of a tracked payment. What excludes it is `LiveInv`: the payment
of a live request (one with registered values, not answered yet) is reserved, is not tracked for its
account, and no other live request has it, because `AssociatePayment` refuses a hash that is pending
for the account. This in turn needs that request values exist only while the service is up and are
gone after a crash (`PhaseInv`, `ValuesInv`), that a removed row holds nothing (`StoreInv`), and
that lnd's payment belongs to the request that started it (`LndInv`, `ReqInv`). `DebitsAreReal` adds
that a goroutine holds a success only if lnd has it (`MailboxInv`). `DebitOnce` follows from the
same invariant and `TrackedInflight`: when second writes succeed, what is tracked is in flight, so
a debit never meets a settled entry. There is one lemma per action, and one leaf per conjunct that
the action can disturb.

What the list keeps (`AccountPaymentsResume`). `SoleInv` says of the only request for a hash that
its entry exists from the moment lnd may take it up; `OutcomeInv`, that lnd does not refuse what it
has taken up. The other theorems exclude the faults for which the code gives no guarantee: TLC finds
a counterexample for each excluded fault, with up to three requests and two crashes. (In
`PaymentsResumableTheorem`, `RemovedNeverSucceedsTheorem` and `BalanceCoveredTheorem` it finds one
for `"remove"` only together with `"store"`, which they allow: `RemoveAccount` whose write fails
marks the payments of an account that stays as failed. With `"remove"` alone it finds none, up to
that size.) Without `"share"`, whatever is stored or resumed for an account was requested by it
(`OwnInv`). Without removals, no goroutine outlives the tracking of its payment (`GoroutineInv`), so
no cancelled goroutine acts on a hash that was reserved again. Without `"late"`, every request that
lnd can still take up is reserved and, while litd runs, has its values (`AcceptedInv`). Together
they keep `BusyInv`: what lnd pays is in the payer's list, not as failed, and neither a goroutine
nor another live request can mark it so.

Balances (`AccountPaymentsReserve`, `AccountPaymentsBalance`). `CoverInv` says that a balance is at
least the sum of what the account may still be debited with (`Due`): per payment in flight, what lnd
has taken, or else what is reserved. A debit takes as much from both sides; the difficulty is that it
is never more than what was reserved. `AssociatedInv`, `PaidInv` and `AnswerInv` say so for the time
before lnd takes the request up, while it pays, and while the answer is handled. `CheckInv` says that
a check is still good when the request is associated: `requestMtx` lets no other request reserve in
between (`TurnInv`), and a debit in between had its own reservation. `StartInv` says that `Start`
resumes the payments as it has read them. The money part assumes that no request is a
`SendPaymentV2`: `Payments_negative` shows why.

Sums. `FiniteSums` proves what these arguments and the budget's need of `MapThenSumSet`: the sum over
a finite set is defined by removing any one element, changes by the difference when one term does,
and is monotone. The library's induction theorems take an operator; here the induction is over a set
of subsets, by a minimal member (`MinimalSubset`), which the provers can handle.

Invoices. A credited invoice lies behind both stored indexes (`Covered`), so no backlog contains
it; while it is in the current stream, its mapping is gone (`CreditedInv`). `CreditingInv` says the
same of the update that is under way, and `ListenInv` that the indexes in memory are the stored
ones as long as somebody listens. `NoLostCredit` needs `DInv`: the stream is sorted the way lnd sends
it (`OrderInv`), the indexes are non-zero and not ahead of what exists (`IndexInv`), an owed invoice
keeps its mapping (`MapInv`), and it is in the stream while litd runs, and ahead of the stored
indexes once the settle backlog is read (`DueInv`).

Queue. The refinement mapping is `items <- chanOut \o overflow`. The invariant `QInv` types the two
sequences; three lemmas on sequences say that appending to the list is a push, moving its head to
the buffer changes nothing, and the buffer's head is the front. `ErrorQueueImplementsFifo` shows that
each step of litd is a step of the queue or leaves it alone.

Sessions. `IInv` is the type invariant with `Sync(s)` for each session, which relates the stored row
to what runs: who serves it, which handler holds it, whether a goroutine or a revocation that will
stop it is outstanding. The store's part of any step is one of three (`StoreStep`): adding a row,
deleting reserved rows, a legal shift; terminal states and groups follow from these, groups with
`Linked`: the session that another one is linked to has ended.

Budget. The theorems hold for any width, any int64 amounts and any budget (`BudgetAssumption`).
`BudgetInv` has the pending total as the uint64 of the sum of the entries and the spent total as at
most the sum of what was confirmed; as long as nothing has overflowed both are equal to their sums
and together within the budget (`Exact`). For each request it says what its entry, the rule's state
and lnd's state have to do with each other (`Accounted`): what lnd may publish has its entry. The
arithmetic rests on there being one uint64 that differs from an integer by a multiple of 2^64
(`Uint64Unique`), so that wrapping a sum once or at each step is the same (`Uint64Sum`).
`AdmissionSums` says what the check means when its sum does not overflow, and what it takes to
overflow for the first time.

Wizard. `WizardInv` says of a waiting and of a submitted swap how its order relates to the form and
to what was shown (`WaitOk`, `SentOk`), and that there is one of them and the step shows it, unless
`hasty` (`OneJob`).

Paywall. `SaleInv` consists of `Types`; `CatalogInv`, rows and Edge Config hold uploaded content
only; `RequestInv` and `InvoiceInv`, what a handler carries and what an invoice is for are rows of
the catalog; `ServedInv`, what was served has invoice, challenge and receipt. `ManifestCurrent` needs
`AloneInv` beside it: a publication that is still alone is the only one with a transaction or a sync
outstanding, its snapshot holds every row but its own, and once committed it is what the rows say.

Only model-checked:

- the liveness properties, since fairness and ENABLED are outside the prover;
- `DebitOnce` with half-failed settlements;
- `ServerReceives` and `PageReceives`, which are about what folds over sequences compute;
- `EndedUnmarked`, `NewestFirst` and the other properties of the web app's stores, and `TypeOK` and
  `DaemonTypeOK`, which put together types of components, some without proofs.

## Not modelled

- The rules of the firewall other than the on-chain budget check one request against configured
  values or logged actions. The rate limit counts actions that another interceptor adds later, so
  concurrent requests can all be admitted below it; what the limit promises them is not stated.
- The privacy mapper rewrites messages field by field; the action log is added to, marked once and
  listed; the key-value stores of `firewalldb` are maps behind transactions.
- Sub-server and status managers are flags set by the start sequence, in one place from two
  goroutines (`SetRunning` may follow the account service's `SetErrored`). The RPC proxy routes by
  URI; its readiness check is a guard in `AccountPayments` and `Sessions`. Permissions, macaroons,
  caveats and contexts are tables and encodings.
- Accounts: reuse of lnd's request IDs after a reconnect; an invoice channel that closes without an
  error; the order in which Go evaluates the two operands of a return in `UpsertAccountPayment` (the
  compiled one is modelled).
- Sessions: baking of macaroons, contents of a session, the mailbox protocol, the features the
  autopilot offers.
- Web app: the other stores replace a collection by the answer of one call; views render. `toObject`
  and the type declarations of the messages repeat the fields. Dismissed swaps, sorting, aliases,
  fee rates, node tiers and labels decorate what is modelled.
- Paywall: the macaroon's bytes, HTTP headers, the deployment without a database, the spread of
  Edge Config writes and HTTP caches.
- Databases, migrations, the command line, generated Go code and integration tests.
