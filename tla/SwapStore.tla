----------------------------- MODULE SwapStore ------------------------------
(***************************************************************************)
(* The web app's store of Loop swaps (app/src/store/stores/swapStore.ts)   *)
(* with the Loop daemon as environment: the swaps known to the page, the   *)
(* channels marked as used by a swap, the Monitor stream that updates the  *)
(* swaps one by one, and fetchSwaps, which applies a list taken earlier.   *)
(* An action is one turn of the JavaScript event loop.                     *)
(***************************************************************************)
EXTENDS Naturals, FiniteSets

CONSTANTS
    Ids,        \* swap IDs
    Chans,      \* channel IDs
    MaxReloads  \* bound: reloads of the page

VARIABLES
    swaps,      \* swaps: the state of each swap the page knows
    swapped,    \* swappedChannels, saved to the browser's storage on every change
    pruneTimer, \* pruneSwappedChannelsThrottled is due
    list,       \* fetchSwaps in flight, with the list Loop answered
    call,       \* the wizard's call that starts the swap
    loop,       \* external: state of each swap in Loop
    seen,       \* external: what the Monitor stream has delivered to this page
    overtaken,  \* history: an update was delivered before an older list
    reloads

vars == <<swaps, swapped, pruneTimer, list, call, loop, seen, overtaken, reloads>>

SwapStates == {"none", "pending", "done"}
NoList == [st |-> "idle", snap |-> [j \in Ids |-> "none"]]

Init ==
    /\ swaps = [j \in Ids |-> "none"]
    /\ swapped = [c \in Chans |-> {}]
    /\ pruneTimer = FALSE
    /\ list = [NoList EXCEPT !.st = "sent"]
    /\ call = [j \in Ids |-> "none"]
    /\ loop = [j \in Ids |-> "none"]
    /\ seen = [j \in Ids |-> "none"]
    /\ overtaken = FALSE /\ reloads = 0
-----------------------------------------------------------------------------
\* Swap.isPending, for the swaps of the collection s.
PendingIds(s) == {j \in Ids : s[j] = "pending"}

addSwappedChannels(j, cs) == [c \in Chans |-> IF c \in cs THEN swapped[c] \cup {j} ELSE swapped[c]]

\* Prunes against the swaps that have ended instead.
pruneSwappedChannels_ended(s) == [c \in Chans |-> {j \in swapped[c] : s[j] # "none"}]

\* Marks of swaps that are not pending in the collection s are dropped.
pruneSwappedChannels(s) == [c \in Chans |-> swapped[c] \cap PendingIds(s)]

PruneTimeout ==
    /\ pruneTimer
    /\ pruneTimer' = FALSE
    /\ swapped' = pruneSwappedChannels(swaps)
    /\ UNCHANGED <<swaps, list, call, loop, seen, overtaken, reloads>>

\* addOrUpdateSwap for every swap in the list. The keys that fetchSwaps collects
\* to delete are Object.keys of the map object, never IDs: nothing is removed.
Listed(snap) == [j \in Ids |-> IF snap[j] = "none" THEN swaps[j] ELSE snap[j]]

\* Loop takes the list.
AnswerList ==
    /\ list.st = "sent"
    /\ list' = [st |-> "answered", snap |-> loop]
    /\ UNCHANGED <<swaps, swapped, pruneTimer, call, loop, seen, overtaken, reloads>>

\* The list arrives, as it was when Loop took it, or the call fails.
fetchSwaps(ok) ==
    /\ list.st = "answered"
    /\ list' = NoList
    /\ swaps' = IF ok THEN Listed(list.snap) ELSE swaps
    /\ swapped' = IF ok THEN pruneSwappedChannels(Listed(list.snap)) ELSE swapped
    /\ UNCHANGED <<pruneTimer, call, loop, seen, overtaken, reloads>>

\* The state Monitor reports next: every state of a swap, in order.
Reported(j) == IF seen[j] = "none" /\ loop[j] # "none" THEN {"pending", loop[j]}
               ELSE {loop[j]} \ {seen[j]}

\* Does not arm the prune.
onSwapUpdate_unpruned(j, st) ==
    /\ st \in Reported(j) \ {"none"}
    /\ seen' = [seen EXCEPT ![j] = st]
    /\ swaps' = [swaps EXCEPT ![j] = st]
    /\ overtaken' = (overtaken \/ list.st = "answered")
    /\ UNCHANGED <<swapped, pruneTimer, list, call, loop, reloads>>

onSwapUpdate(j, st) ==
    /\ st \in Reported(j) \ {"none"}
    /\ seen' = [seen EXCEPT ![j] = st]
    /\ swaps' = [swaps EXCEPT ![j] = st]
    /\ pruneTimer' = TRUE
    /\ overtaken' = (overtaken \/ list.st = "answered")
    /\ UNCHANGED <<swapped, list, call, loop, reloads>>

\* The callback of requestSwap calls Loop.
StartSwap(j) ==
    /\ call[j] = "none" /\ loop[j] = "none"
    /\ call' = [call EXCEPT ![j] = "sent"]
    /\ UNCHANGED <<swaps, swapped, pruneTimer, list, loop, seen, overtaken, reloads>>

\* External: Loop accepts the swap; from now on Monitor and lists include it.
LoopAccepts(j) ==
    /\ call[j] = "sent" /\ loop[j] = "none"
    /\ loop' = [loop EXCEPT ![j] = "pending"]
    /\ UNCHANGED <<swaps, swapped, pruneTimer, list, call, seen, overtaken, reloads>>

\* Loop's answer reaches the callback: the swap's channels are marked.
SwapStarted(j, cs) ==
    /\ call[j] = "sent" /\ loop[j] # "none"
    /\ call' = [call EXCEPT ![j] = "done"]
    /\ swapped' = addSwappedChannels(j, cs)
    /\ UNCHANGED <<swaps, pruneTimer, list, loop, seen, overtaken, reloads>>

\* External: a swap ends, in success or failure. It takes longer than the
\* answer to the call that started it.
LoopEnds(j) ==
    /\ loop[j] = "pending" /\ call[j] # "sent"
    /\ loop' = [loop EXCEPT ![j] = "done"]
    /\ UNCHANGED <<swaps, swapped, pruneTimer, list, call, seen, overtaken, reloads>>

\* load: a reloaded page has the stored marks and nothing else; it asks for
\* the list again and subscribes anew, and Monitor starts from the beginning.
Reload ==
    /\ reloads < MaxReloads
    /\ reloads' = reloads + 1
    /\ swaps' = [j \in Ids |-> "none"]
    /\ seen' = [j \in Ids |-> "none"]
    /\ pruneTimer' = FALSE
    /\ list' = [NoList EXCEPT !.st = "sent"]
    /\ call' = [j \in Ids |-> IF call[j] = "sent" THEN "lost" ELSE call[j]]
    /\ overtaken' = FALSE
    /\ UNCHANGED <<swapped, loop>>

Next ==
    \/ PruneTimeout
    \/ AnswerList
    \/ \E ok \in BOOLEAN : fetchSwaps(ok)
    \/ \E j \in Ids, st \in SwapStates : onSwapUpdate(j, st)
    \/ \E j \in Ids : StartSwap(j) \/ LoopAccepts(j) \/ LoopEnds(j)
    \/ \E j \in Ids, cs \in SUBSET Chans : SwapStarted(j, cs)
    \/ Reload

Spec == Init /\ [][Next]_vars

-----------------------------------------------------------------------------
(* Properties *)

\* The variables stay in the ranges of the code's types.
TypeOK ==
    /\ swaps \in [Ids -> SwapStates] /\ loop \in [Ids -> SwapStates] /\ seen \in [Ids -> SwapStates]
    /\ swapped \in [Chans -> SUBSET Ids]
    /\ pruneTimer \in BOOLEAN
    /\ list \in [st : {"idle", "sent", "answered"}, snap : [Ids -> SwapStates]]
    /\ call \in [Ids -> {"none", "sent", "done", "lost"}]
    /\ overtaken \in BOOLEAN /\ reloads \in 0 .. MaxReloads

\* The channels of a swap that has ended do not stay marked as used by it,
\* across reloads; an old list applied after the last update is the exception.
EndedUnmarked ==
    []<>(\A j \in Ids, c \in Chans : loop[j] = "done" /\ j \in swapped[c] => overtaken)
=============================================================================
