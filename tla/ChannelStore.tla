---------------------------- MODULE ChannelStore ----------------------------
(***************************************************************************)
(* The web app's store of channels (app/src/store/stores/channelStore.ts)  *)
(* with lnd as environment: the list of open channels, the list of pending *)
(* channels, and the stream of channel events that changes the first and   *)
(* has the second fetched anew. An action is one turn of the JavaScript    *)
(* event loop. Of a channel only its life cycle is kept; aliases and fee   *)
(* rates (fetchAliases, fetchFeeRates) are left out.                       *)
(***************************************************************************)
EXTENDS Naturals, Sequences

CONSTANTS
    Channels,   \* channels, by channel ID and by channel point
    MaxFlips,   \* bound: times a channel's peer goes away or comes back
    MaxFetches, \* bound: calls of fetchChannels
    MaxPending  \* bound: calls of fetchPendingChannels in flight

VARIABLES
    channels,        \* channels: "absent", "inactive" or "active"
    pendingChannels, \* pendingChannels: "absent", "opening" or "closing"
    chanCall,        \* fetchChannels in flight
    pendCall,        \* fetchPendingChannels in flight
    pendTimer,       \* fetchPendingChannelsThrottled is due
    lndChan,         \* external: the channel in lnd
    stream,          \* external: channel events on their way to the page
    flips, fetches,
    chanFresh, pendFresh \* history: the list applied last held what lnd had told before

vars == <<channels, pendingChannels, chanCall, pendCall, pendTimer, lndChan, stream,
          flips, fetches, chanFresh, pendFresh>>
page == <<channels, pendingChannels, chanCall, pendCall, pendTimer, fetches, chanFresh, pendFresh>>

Call(st) == [st |-> st, snap |-> [c \in Channels |-> "absent"], passed |-> FALSE]

\* A new page asks for the list and listens to the stream.
Init ==
    /\ channels = [c \in Channels |-> "absent"]
    /\ pendingChannels = [c \in Channels |-> "absent"]
    /\ chanCall = Call("sent") /\ pendCall = [k \in 1 .. MaxPending |-> Call("idle")]
    /\ pendTimer = FALSE
    /\ lndChan \in [Channels -> {"none", "active"}]
    /\ stream = <<>> /\ flips = 0 /\ fetches = 1
    /\ chanFresh = FALSE /\ pendFresh = FALSE
-----------------------------------------------------------------------------
\* External: lnd's channels and the events it sends about them.
Becomes(c, st, evs) ==
    /\ lndChan' = [lndChan EXCEPT ![c] = st]
    /\ stream' = stream \o [i \in 1 .. Len(evs) |-> [type |-> evs[i], chan |-> c]]
    /\ UNCHANGED page

LndStep(c) ==
    \/ lndChan[c] = "none" /\ Becomes(c, "opening", <<"PENDING_OPEN">>) /\ UNCHANGED flips
    \/ lndChan[c] = "opening" /\ Becomes(c, "active", <<"OPEN", "ACTIVE">>) /\ UNCHANGED flips
    \/ /\ lndChan[c] \in {"active", "inactive"} /\ flips < MaxFlips
       /\ flips' = flips + 1
       /\ IF lndChan[c] = "active" THEN Becomes(c, "inactive", <<"INACTIVE">>)
                                   ELSE Becomes(c, "active", <<"ACTIVE">>)
    \/ lndChan[c] = "active" /\ Becomes(c, "closing", <<"INACTIVE">>) /\ UNCHANGED flips
    \/ lndChan[c] = "inactive" /\ Becomes(c, "closing", <<>>) /\ UNCHANGED flips
    \/ lndChan[c] = "closing" /\ Becomes(c, "gone", <<"CLOSED">>) /\ UNCHANGED flips

\* External: lnd answers a call with those of its channels that are in Sts now.
Answer(call, Sts) ==
    [call EXCEPT !.st = "answered",
                 !.snap = [c \in Channels |-> IF lndChan[c] \in Sts THEN lndChan[c] ELSE "absent"]]

ChannelsAnswered ==
    /\ chanCall.st = "sent"
    /\ chanCall' = Answer(chanCall, {"active", "inactive"})
    /\ UNCHANGED <<channels, pendingChannels, pendCall, pendTimer, lndChan, stream, flips, fetches,
                   chanFresh, pendFresh>>

PendingAnswered(k) ==
    /\ pendCall[k].st = "sent"
    /\ pendCall' = [pendCall EXCEPT ![k] = Answer(@, {"opening", "closing"})]
    /\ UNCHANGED <<channels, pendingChannels, chanCall, pendTimer, lndChan, stream, flips, fetches,
                   chanFresh, pendFresh>>
-----------------------------------------------------------------------------
\* fetchChannels is called again (fetchChannelsThrottled, after swap updates).
CallFetchChannels ==
    /\ chanCall.st = "idle" /\ fetches < MaxFetches
    /\ fetches' = fetches + 1
    /\ chanCall' = Call("sent")
    /\ UNCHANGED <<channels, pendingChannels, pendCall, pendTimer, lndChan, stream, flips,
                   chanFresh, pendFresh>>

\* A call of pendingChannels takes the first free slot.
SendPending ==
    \E k \in 1 .. MaxPending : /\ pendCall[k].st = "idle" /\ \A j \in 1 .. k - 1 : pendCall[j].st # "idle"
                      /\ pendCall' = [pendCall EXCEPT ![k] = Call("sent")]

\* The list replaces the page's open channels and the pending ones are fetched
\* next, or there is an error.
fetchChannels ==
    /\ chanCall.st = "answered"
    /\ chanCall' = Call("idle")
    /\ \/ /\ channels' = chanCall.snap
          /\ chanFresh' = ~chanCall.passed
          /\ SendPending
       \/ UNCHANGED <<channels, chanFresh, pendCall>>
    /\ UNCHANGED <<pendingChannels, pendTimer, lndChan, stream, flips, fetches, pendFresh>>

\* The lists of opening and closing channels replace the page's, or there is an
\* error.
fetchPendingChannels(k) ==
    /\ pendCall[k].st = "answered"
    /\ pendCall' = [pendCall EXCEPT ![k] = Call("idle")]
    /\ \/ pendingChannels' = pendCall[k].snap /\ pendFresh' = ~pendCall[k].passed
       \/ pendFresh' = FALSE /\ UNCHANGED pendingChannels
    /\ UNCHANGED <<channels, chanCall, pendTimer, lndChan, stream, flips, fetches, chanFresh>>

PendingTimeout ==
    /\ pendTimer
    /\ SendPending
    /\ pendTimer' = FALSE
    /\ UNCHANGED <<channels, pendingChannels, chanCall, lndChan, stream, flips, fetches,
                   chanFresh, pendFresh>>

\* What the event of type t makes of a channel in state st. OPEN carries the
\* channel as it was then, not yet active.
Shown_keepClosed(t, st) ==
    CASE t = "OPEN" -> "inactive"
      [] t = "ACTIVE" /\ st # "absent" -> "active"
      [] t = "INACTIVE" /\ st # "absent" -> "inactive"
      [] OTHER -> st

Shown(t, st) ==
    CASE t = "OPEN" -> "inactive"
      [] t = "ACTIVE" /\ st # "absent" -> "active"
      [] t = "INACTIVE" /\ st # "absent" -> "inactive"
      [] t = "CLOSED" -> "absent"
      [] OTHER -> st

Refetches(t) == t \in {"OPEN", "PENDING_OPEN"}

\* An answer that is on its way is older than an event delivered now.
Passed(call) == [call EXCEPT !.passed = @ \/ call.st = "answered"]

onChannelEvent ==
    /\ stream # <<>>
    /\ stream' = Tail(stream)
    /\ LET e == Head(stream)
       IN /\ channels' = [channels EXCEPT ![e.chan] = Shown(e.type, @)]
          /\ pendTimer' = (pendTimer \/ Refetches(e.type))
    /\ chanCall' = Passed(chanCall)
    /\ pendCall' = [k \in 1 .. MaxPending |-> Passed(pendCall[k])]
    /\ UNCHANGED <<pendingChannels, lndChan, flips, fetches, chanFresh, pendFresh>>

Next ==
    \/ \E c \in Channels : LndStep(c)
    \/ ChannelsAnswered \/ CallFetchChannels \/ fetchChannels
    \/ \E k \in 1 .. MaxPending : PendingAnswered(k) \/ fetchPendingChannels(k)
    \/ PendingTimeout \/ onChannelEvent

Spec == Init /\ [][Next]_vars

-----------------------------------------------------------------------------
\* Types of the variables.
ChannelTypeOK ==
    /\ channels \in [Channels -> {"absent", "inactive", "active"}]
    /\ pendingChannels \in [Channels -> {"absent", "opening", "closing"}]
    /\ \A c \in {chanCall} \cup {pendCall[k] : k \in 1 .. MaxPending} : c.st \in {"idle", "sent", "answered"}
    /\ lndChan \in [Channels -> {"none", "opening", "inactive", "active", "closing", "gone"}]
    /\ pendTimer \in BOOLEAN /\ flips \in 0 .. MaxFlips /\ fetches \in 0 .. MaxFetches

\* Once lnd's channels stay as they are, the page shows each open channel with
\* its activity and no channel that is gone, and no channel that has opened
\* among the pending ones, in whatever order lists and events arrived. The
\* exceptions are a list that was answered before and applied after an event,
\* which stays on the page until the next one, and a failed fetch of the pending
\* channels.
ChannelsConverge ==
    <>[](\A c \in Channels :
            /\ chanFresh =>
                  CASE lndChan[c] \in {"active", "inactive"} -> channels[c] = lndChan[c]
                    [] lndChan[c] = "closing" -> channels[c] # "active"
                    [] OTHER -> channels[c] = "absent"
            /\ pendFresh /\ lndChan[c] # "opening" => pendingChannels[c] # "opening")
=============================================================================
