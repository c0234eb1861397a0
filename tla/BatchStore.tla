----------------------------- MODULE BatchStore -----------------------------
(***************************************************************************)
(* The web app's list of Pool batches (app/src/store/stores/batchStore.ts, *)
(* app/src/store/models/market.ts) for one market: pages of older batches  *)
(* are appended at the end, the latest batch is put at the front, and both *)
(* kinds of request may be under way at once. An action is one turn of the *)
(* JavaScript event loop, or the auctioneer answering. A batch is a number *)
(* and the previous one's ID is the number before; 0 stands for no ID.     *)
(***************************************************************************)
EXTENDS Naturals, SequencesExt

CONSTANTS
    InitBatches,       \* batches there are when the page is opened
    MaxBatches,        \* bound: batches ever made
    BATCH_QUERY_LIMIT  \* batches in a page

VARIABLES
    batchCount,  \* external: number of batches made
    cleared,     \* external: batches in which this market has a clearing price
    hasMarket,   \* markets has this market
    orderedIds,  \* orderedIds of the market
    loading,     \* loading
    older,       \* calls of fetchBatches in flight, the first free slot taken first;
                 \* at most two (a bound)
    latest,      \* the call of fetchLatestBatch; at most one is in flight (a bound)
    crossed,     \* history: two requests for the newest batches were under way at once
    failed       \* history: a request failed

vars == <<batchCount, cleared, hasMarket, orderedIds, loading, older, latest, crossed, failed>>

Idle == [st |-> "idle", prevId |-> 0, list |-> <<>>]

Init ==
    /\ batchCount = InitBatches /\ cleared \in SUBSET (1 .. MaxBatches)
    /\ hasMarket = FALSE /\ orderedIds = <<>> /\ loading = TRUE
    /\ older = [k \in 1 .. 2 |-> Idle] /\ latest = Idle
    /\ crossed = FALSE /\ failed = FALSE

\* What the page shows: the batches in which the market cleared.
sortedBatches == SelectSeq(orderedIds, LAMBDA b : b \in cleared)

\* The previous batch of the oldest one shown; 0 when nothing is shown.
prevBatchId == IF sortedBatches = <<>> THEN 0 ELSE Last(sortedBatches) - 1

\* There are no more when the oldest one shown is one of the first two.
hasMoreBatches_early == sortedBatches # <<>> => prevBatchId > 1

\* There are more unless the oldest one shown is the first.
hasMoreBatches == sortedBatches # <<>> => prevBatchId # 0

\* A batch from the server always goes to the end.
update_append(list, appendToFront) ==
    FoldLeft(LAMBDA ids, b : IF b \in ToSet(ids) THEN ids ELSE Append(ids, b), orderedIds, list)

\* The batches of a list that are not yet known are added one by one.
update(list, appendToFront) ==
    FoldLeft(LAMBDA ids, b : IF b \in ToSet(ids) THEN ids
                             ELSE IF appendToFront THEN <<b>> \o ids ELSE Append(ids, b),
             orderedIds, list)

\* External: n batches downwards from batch b.
Page(b, n) == [i \in 1 .. (IF n < b THEN n ELSE b) |-> b + 1 - i]

\* A request for the newest batches is under way.
NewestAsked == latest.st # "idle" \/ \E k \in 1 .. 2 : older[k].st # "idle" /\ older[k].prevId = 0
-----------------------------------------------------------------------------
\* External: a batch is made.
NewBatch ==
    /\ batchCount < MaxBatches
    /\ batchCount' = batchCount + 1
    /\ UNCHANGED <<cleared, hasMarket, orderedIds, loading, older, latest, crossed, failed>>

\* fetchBatches up to its first await. It is called by the button, which is
\* there while nothing loads; when the page is opened and no batch is known; and
\* by the chart, which is there once a batch is shown.
CallOlder(k) ==
    /\ older[k].st = "idle" /\ (k = 2 => older[1].st # "idle") /\ hasMoreBatches
    /\ ~loading \/ orderedIds = <<>> \/ sortedBatches # <<>>
    /\ loading' = TRUE
    /\ older' = [older EXCEPT ![k] = [st |-> "durations", prevId |-> prevBatchId, list |-> <<>>]]
    /\ crossed' = (crossed \/ (prevBatchId = 0 /\ NewestAsked))
    /\ UNCHANGED <<batchCount, cleared, hasMarket, orderedIds, latest, failed>>

\* The durations arrive and make the market, or an error, which is reported;
\* either way the page is asked for.
fetchLeaseDurations(k) ==
    /\ older[k].st = "durations"
    /\ older' = [older EXCEPT ![k].st = "sent"]
    /\ \/ hasMarket' = TRUE /\ UNCHANGED failed
       \/ failed' = TRUE /\ UNCHANGED hasMarket
    /\ UNCHANGED <<batchCount, cleared, orderedIds, loading, latest, crossed>>

\* External: the auctioneer answers with a page from the batch asked for or
\* from the newest one.
OlderAnswered(k) ==
    /\ older[k].st = "sent"
    /\ LET from == IF older[k].prevId = 0 THEN batchCount ELSE older[k].prevId
       IN older' = [older EXCEPT ![k] = [@ EXCEPT !.st = "answered", !.list = Page(from, BATCH_QUERY_LIMIT)]]
    /\ UNCHANGED <<batchCount, cleared, hasMarket, orderedIds, loading, latest, crossed, failed>>

\* The page is added and loading ends, or an error: loading stays set.
OlderEnds(k) ==
    /\ older[k].st = "answered"
    /\ older' = [older EXCEPT ![k] = Idle]
    /\ \/ /\ orderedIds' = IF hasMarket THEN update(older[k].list, FALSE) ELSE orderedIds
          /\ loading' = FALSE /\ UNCHANGED failed
       \/ failed' = TRUE /\ UNCHANGED <<orderedIds, loading>>
    /\ UNCHANGED <<batchCount, cleared, hasMarket, latest, crossed>>

\* fetchLatestBatch, called by the polling interval, the timer of the next batch
\* and the event of a channel that opens.
CallLatest ==
    /\ latest.st = "idle"
    /\ latest' = [Idle EXCEPT !.st = "sent"]
    /\ crossed' = (crossed \/ NewestAsked)
    /\ UNCHANGED <<batchCount, cleared, hasMarket, orderedIds, loading, older, failed>>

\* External: the auctioneer answers with its newest batch.
LatestAnswered ==
    /\ latest.st = "sent"
    /\ latest' = [latest EXCEPT !.st = "answered", !.list = Page(batchCount, 1)]
    /\ UNCHANGED <<batchCount, cleared, hasMarket, orderedIds, loading, older, crossed, failed>>

\* After the next batch's time was fetched too, the batch is put at the front;
\* or an error.
LatestEnds ==
    /\ latest.st = "answered"
    /\ latest' = Idle
    /\ \/ /\ orderedIds' = IF hasMarket THEN update(latest.list, TRUE) ELSE orderedIds
          /\ UNCHANGED failed
       \/ failed' = TRUE /\ UNCHANGED orderedIds
    /\ UNCHANGED <<batchCount, cleared, hasMarket, loading, older, crossed>>

Next ==
    \/ NewBatch \/ CallLatest \/ LatestAnswered \/ LatestEnds
    \/ \E k \in 1 .. 2 : CallOlder(k) \/ fetchLeaseDurations(k) \/ OlderAnswered(k) \/ OlderEnds(k)

Spec == Init /\ [][Next]_vars

-----------------------------------------------------------------------------
\* Types of the variables.
TypeOK ==
    /\ batchCount \in InitBatches .. MaxBatches /\ cleared \subseteq 1 .. MaxBatches
    /\ orderedIds \in Seq(1 .. batchCount) /\ hasMarket \in BOOLEAN /\ loading \in BOOLEAN
    /\ \A c \in {older[k] : k \in 1 .. 2} \cup {latest} :
          c.st \in {"idle", "durations", "sent", "answered"} /\ c.prevId \in 0 .. MaxBatches

\* The batches are shown newest first and each once, whichever way pages and
\* latest batches interleave. The exception is two requests for the newest
\* batches under way at once: the one answered first may be applied last.
NewestFirst ==
    crossed \/ \A i, j \in DOMAIN sortedBatches : i < j => sortedBatches[i] > sortedBatches[j]

\* As many batches in a row as fit in a page, none of which cleared the market.
Sparse == \E b \in 1 .. batchCount : \A c \in b .. b + BATCH_QUERY_LIMIT - 1 : c <= batchCount /\ c \notin cleared

\* Someone who keeps asking for older batches sees every one that was there when
\* they opened the page. The exceptions are a failed request; crossed requests,
\* which may leave a newer batch at the end; and a full page of batches in which
\* the market did not clear. In the last two the next page is asked for from the
\* wrong batch, so that the same page comes back again and again.
OlderShown == <>[](failed \/ crossed \/ Sparse \/ \A b \in cleared \cap 1 .. InitBatches : b \in ToSet(orderedIds))
=============================================================================
