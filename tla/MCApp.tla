------------------------------- MODULE MCApp --------------------------------
(***************************************************************************)
(* Small instances of four stores and views of the web app and of the      *)
(* paywall, checked in one run: each behaviour is of one of them, chosen   *)
(* at the start, and the others rest. What one does to another is part of  *)
(* each model: the calls of the wizard are actions of SwapStore, the       *)
(* fetches that swap updates cause are actions of ChannelStore, and so on. *)
(***************************************************************************)
EXTENDS Paywall, BuildSwap

CONSTANTS
    MaxReloads, MaxFlips, MaxFetches, MaxPending, InitBatches, MaxBatches, BATCH_QUERY_LIMIT

VARIABLES
    part,
    swaps, swapped, pruneTimer, list, call, loop, seen, overtaken, reloads,
    channels, pendingChannels, chanCall, pendCall, pendTimer, lndChan, stream, flips, fetches,
    chanFresh, pendFresh,
    batchCount, cleared, hasMarket, orderedIds, loading, older, latest, crossed, failed

swapVars == <<swaps, swapped, pruneTimer, list, call, loop, seen, overtaken, reloads>>
channelVars == <<channels, pendingChannels, chanCall, pendCall, pendTimer, lndChan, stream, flips,
                 fetches, chanFresh, pendFresh>>
batchVars == <<batchCount, cleared, hasMarket, orderedIds, loading, older, latest, crossed, failed>>
allVars == <<part, wizardVars, swapVars, channelVars, batchVars, vars>>

\* No two channels have the same peer.
OwnPeer == [c \in Chans |-> c]

Swaps == INSTANCE SwapStore
Channels == INSTANCE ChannelStore WITH Channels <- Chans
Batches == INSTANCE BatchStore

AppInit ==
    /\ part \in {"wizard", "swaps", "channels", "batches", "paywall"}
    /\ WizardInit /\ Swaps!Init /\ Channels!Init /\ Batches!Init /\ Init
    /\ part # "channels" => lndChan = [c \in Chans |-> "none"]
    /\ part # "batches" => cleared = {}

AppNext ==
    /\ UNCHANGED part
    /\ \/ part = "wizard" /\ WizardNext /\ UNCHANGED <<swapVars, channelVars, batchVars, vars>>
       \/ part = "swaps" /\ Swaps!Next /\ UNCHANGED <<wizardVars, channelVars, batchVars, vars>>
       \/ part = "channels" /\ Channels!Next /\ UNCHANGED <<wizardVars, swapVars, batchVars, vars>>
       \/ part = "batches" /\ Batches!Next /\ UNCHANGED <<wizardVars, swapVars, channelVars, vars>>
       \/ part = "paywall" /\ Next /\ UNCHANGED <<wizardVars, swapVars, channelVars, batchVars>>

(***************************************************************************)
(* Timers fire, calls are answered one way or the other and the streams    *)
(* deliver, as long as the page is open. Users, Loop, lnd and the          *)
(* auctioneer owe nothing, except that someone who wants to see older      *)
(* batches keeps asking for them as long as the page lets them.            *)
(***************************************************************************)
AppFairness ==
    /\ WF_swapVars(part = "swaps" /\ Swaps!PruneTimeout)
    /\ WF_swapVars(part = "swaps" /\ Swaps!AnswerList)
    /\ WF_swapVars(part = "swaps" /\ \E ok \in BOOLEAN : Swaps!fetchSwaps(ok))
    /\ \A j \in Ids :
          WF_swapVars(part = "swaps" /\ \E st \in Swaps!SwapStates : Swaps!onSwapUpdate(j, st))
    /\ WF_channelVars(part = "channels" /\ Channels!ChannelsAnswered)
    /\ WF_channelVars(part = "channels" /\ Channels!fetchChannels)
    /\ WF_channelVars(part = "channels" /\ Channels!PendingTimeout)
    /\ WF_channelVars(part = "channels" /\ Channels!onChannelEvent)
    /\ WF_batchVars(part = "batches" /\ Batches!LatestAnswered)
    /\ WF_batchVars(part = "batches" /\ Batches!LatestEnds)
    /\ WF_batchVars(part = "batches" /\ \E k \in 1 .. 2 : Batches!CallOlder(k))
    /\ \A k \in 1 .. MaxPending :
          /\ WF_channelVars(part = "channels" /\ Channels!PendingAnswered(k))
          /\ WF_channelVars(part = "channels" /\ Channels!fetchPendingChannels(k))
    /\ \A k \in 1 .. 2 :
          /\ WF_batchVars(part = "batches" /\ Batches!fetchLeaseDurations(k))
          /\ WF_batchVars(part = "batches" /\ Batches!OlderAnswered(k))
          /\ WF_batchVars(part = "batches" /\ Batches!OlderEnds(k))

AppSpec == AppInit /\ [][AppNext]_allVars /\ AppFairness
-----------------------------------------------------------------------------
\* The types of all variables.
TypeOK == WizardTypeOK /\ Swaps!TypeOK /\ Channels!ChannelTypeOK /\ Batches!TypeOK /\ PaywallTypeOK

\* Swaps: the channels of a swap that has ended do not stay marked.
EndedUnmarked == Swaps!EndedUnmarked

\* Channels: lists and events together leave what lnd has.
ChannelsConverge == Channels!ChannelsConverge

\* Batches: they are shown newest first.
NewestFirst == Batches!NewestFirst

\* Batches: who keeps asking sees the older ones.
OlderShown == Batches!OlderShown
=============================================================================
