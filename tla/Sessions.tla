------------------------------ MODULE Sessions ------------------------------
(***************************************************************************)
(* Terminal Connect sessions: the RPC handlers and the start-up of         *)
(* session_rpcserver.go, the store's states (session/), the server of the  *)
(* active sessions (session/server.go) and the sessions the autopilot      *)
(* client keeps alive (autopilotserver/client.go). An action is one store  *)
(* transaction, one critical section or one message of another party;      *)
(* handlers, the goroutine that watches an active session, timers and      *)
(* crashes interleave between them.                                        *)
(***************************************************************************)
EXTENDS Naturals

CONSTANTS
    Sessions,   \* session IDs; an ID also names its local key
    Kinds,      \* of "lnc", added by AddSession, and "autopilot"
    Backend,    \* "bbolt", or "sql": its transactions fail once their context is cancelled
    MaxCrashes  \* bound: crashes of litd

VARIABLES
    state,      \* stored: State, "none" when there is no such session
    kind,       \* stored: "lnc" or "autopilot"
    group,      \* stored: the ID of the group's first session
    remote,     \* stored: a RemotePublicKey is known
    adding,     \* progress of AddSession or AddAutopilotSession
    revoking,   \* progress of RevokeSession
    served,     \* activeSessions: "failed" is an entry whose start failed
    watch,      \* progress of the goroutine resumeSession starts
    byRpc,      \* the goroutine's context is the one of an RPC
    timer,      \* deadlineTimer of the first connection
    tracked,    \* the autopilot client's sessions
    up, toResume, \* litd runs; the sessions its start has not come to yet
    clock,      \* "early", "late": the first connection's deadline has passed, "expired"
    rejected,   \* external: sessions the autopilot server rejects for good
    unwatched,  \* history: the session was left without a goroutine to end it
    missed,     \* history: RevokeSession stopped the session before it was started
    crashes

rows == <<state, kind, group, remote>>
rpcs == <<adding, revoking>>
running == <<served, watch, byRpc, timer>>
history == <<unwatched, missed, crashes>>
vars == <<rows, rpcs, running, tracked, up, toResume, clock, rejected, history>>

Terminal == {"revoked", "expired"}
None(v) == [s \in Sessions |-> v]

Init ==
    /\ state = None("none") /\ kind = None("lnc") /\ remote = None(FALSE)
    /\ group = [s \in Sessions |-> s]
    /\ adding = None("idle") /\ revoking = None("idle")
    /\ served = None("none") /\ watch = None("none")
    /\ byRpc = None(FALSE) /\ timer = None("off")
    /\ up = TRUE /\ clock = None("early")
    /\ tracked = {} /\ toResume = {} /\ rejected = {}
    /\ unwatched = {} /\ missed = {} /\ crashes = 0

\* RPCs are let through once the start has come to its end.
Ready == up /\ toResume = {}
-----------------------------------------------------------------------------
\* The store.
legalStateShifts == [from \in {"none", "reserved", "created"} \cup Terminal |->
                         CASE from = "reserved" -> {"created"}
                           [] from = "created" -> Terminal
                           [] OTHER -> {}]

\* Any session may be put into any state.
CanShift_lax(s, dest) == state[s] # "none"

CanShift(s, dest) == state[s] = dest \/ dest \in legalStateShifts[state[s]]

ShiftState(s, dest) == IF CanShift(s, dest) THEN [state EXCEPT ![s] = dest] ELSE state

\* Only sessions that can be used count as still active.
GroupClosed_created(g) == \A s \in Sessions : group[s] = g => state[s] # "created"

\* The group exists, and each of its sessions has ended.
GroupClosed(g) == /\ state[g] # "none"
                  /\ \A s \in Sessions : group[s] = g /\ state[s] # "none" => state[s] \in Terminal

\* NewSession: the first transaction of AddSession (a session of its own) and
\* of AddAutopilotSession (possibly linked to the group of an earlier session).
NewSession(s, k, g) ==
    /\ Ready
    /\ state[s] = "none" /\ adding[s] = "idle"
    /\ g = s \/ (k = "autopilot" /\ group[g] = g /\ GroupClosed(g))
    /\ state' = [state EXCEPT ![s] = "reserved"]
    /\ kind' = [kind EXCEPT ![s] = k]
    /\ group' = [group EXCEPT ![s] = g]
    /\ adding' = [adding EXCEPT ![s] = "reserved"]
    /\ UNCHANGED <<remote, revoking, running, tracked, up, toResume, clock, rejected, history>>

\* The rows of gone, and what the clock said about them, are no more.
Delete(gone) ==
    /\ state' = [s \in Sessions |-> IF s \in gone THEN "none" ELSE state[s]]
    /\ kind' = [s \in Sessions |-> IF s \in gone THEN "lnc" ELSE kind[s]]
    /\ group' = [s \in Sessions |-> IF s \in gone THEN s ELSE group[s]]
    /\ clock' = [s \in Sessions |-> IF s \in gone THEN "early" ELSE clock[s]]
    /\ UNCHANGED remote
-----------------------------------------------------------------------------
\* AddAutopilotSession between NewSession and the registration: an error with
\* the feature configuration or the privacy map returns and leaves the row.
PrepareFails(s) ==
    /\ adding[s] = "reserved" /\ kind[s] = "autopilot"
    /\ adding' = [adding EXCEPT ![s] = "failed"]
    /\ UNCHANGED <<rows, revoking, running, tracked, up, toResume, clock, rejected, history>>

\* RegisterSession with the autopilot server; trackClient follows a success.
RegisterSession(s) ==
    /\ adding[s] = "reserved" /\ kind[s] = "autopilot"
    /\ \/ /\ adding' = [adding EXCEPT ![s] = "registered"]
          /\ tracked' = tracked \cup {s}
          /\ UNCHANGED <<rows, clock>>
       \/ /\ group[s] = s
          /\ adding' = [adding EXCEPT ![s] = "failed"]
          /\ UNCHANGED <<rows, tracked, clock>>
       \/ /\ group[s] # s
          /\ adding' = [adding EXCEPT ![s] = "idle"]
          /\ Delete({s})
          /\ UNCHANGED tracked
    /\ UNCHANGED <<revoking, running, up, toResume, rejected, history>>

\* ShiftState to Created; for an autopilot session UpdateSessionRemotePubKey
\* comes just before, and only a reserved row could tell the two apart.
Created(s) ==
    /\ adding[s] = IF kind[s] = "autopilot" THEN "registered" ELSE "reserved"
    /\ state' = ShiftState(s, "created")
    /\ remote' = [remote EXCEPT ![s] = kind[s] = "autopilot"]
    /\ adding' = [adding EXCEPT ![s] = "created"]
    /\ UNCHANGED <<kind, group, revoking, running, tracked, up, toResume, clock, rejected, history>>

\* No deadline for the first connection.
resumeSession_noDeadline(s) ==
    \/ /\ clock[s] = "expired"
       /\ state' = ShiftState(s, "expired")
       /\ UNCHANGED <<running, unwatched>>
    \/ /\ clock[s] # "expired"
       /\ served' = [served EXCEPT ![s] = "serving"]
       /\ watch' = [watch EXCEPT ![s] = "waiting"]
       /\ byRpc' = [byRpc EXCEPT ![s] = adding[s] = "created"]
       /\ UNCHANGED <<state, timer, unwatched>>

\* resumeSession: an expired session is only marked; without its macaroon it is
\* left as it is; an unpaired one past its deadline is revoked; otherwise it is
\* started, unless the mailbox server cannot be created.
resumeSession(s) ==
    \/ /\ clock[s] = "expired"
       /\ state' = ShiftState(s, "expired")
       /\ UNCHANGED <<running, unwatched>>
    \/ /\ clock[s] # "expired"
       /\ unwatched' = unwatched \cup {s}
       /\ UNCHANGED <<state, running>>
    \/ /\ ~remote[s] /\ clock[s] = "late"
       /\ state' = ShiftState(s, "revoked")
       /\ UNCHANGED <<running, unwatched>>
    \/ /\ clock[s] # "expired" /\ (remote[s] \/ clock[s] # "late")
       /\ served[s] = "none"
       /\ \/ /\ served' = [served EXCEPT ![s] = "serving"]
             /\ watch' = [watch EXCEPT ![s] = "waiting"]
             /\ byRpc' = [byRpc EXCEPT ![s] = adding[s] = "created"]
             /\ timer' = [timer EXCEPT ![s] = IF remote[s] THEN "off" ELSE "armed"]
             /\ UNCHANGED unwatched
          \/ /\ served' = [served EXCEPT ![s] = "failed"]
             /\ unwatched' = unwatched \cup {s}
             /\ UNCHANGED <<watch, byRpc, timer>>
       /\ UNCHANGED state

\* The last part of both Add handlers, which then answer.
AddResumes(s) ==
    /\ adding[s] = "created"
    /\ resumeSession(s)
    /\ adding' = [adding EXCEPT ![s] = "idle"]
    /\ UNCHANGED <<kind, group, remote, revoking, tracked, up, toResume, clock, rejected, missed, crashes>>
-----------------------------------------------------------------------------
\* Only the row is marked: nothing stops the session.
RevokeSession_unchecked(s) ==
    /\ Ready /\ revoking[s] = "idle"
    /\ state[s] # "none"
    /\ state' = ShiftState(s, "revoked")
    /\ revoking' = [revoking EXCEPT ![s] = "idle"]
    /\ UNCHANGED <<kind, group, remote, adding, running, tracked, up, toResume, clock, rejected, history>>

\* RevokeSession, also the second half of RevokeAutopilotSession: the store
\* first; an error of the store ends the handler.
RevokeSession(s) ==
    /\ Ready /\ revoking[s] = "idle"
    /\ state[s] # "none" /\ CanShift(s, "revoked")
    /\ state' = ShiftState(s, "revoked")
    /\ revoking' = [revoking EXCEPT ![s] = "shifted"]
    /\ UNCHANGED <<kind, group, remote, adding, running, tracked, up, toResume, clock, rejected, history>>

\* The autopilot client is not told.
RevokeUntracks_untold(s) ==
    /\ revoking[s] = "shifted"
    /\ revoking' = [revoking EXCEPT ![s] = "untracked"]
    /\ UNCHANGED <<rows, adding, running, tracked, up, toResume, clock, rejected, history>>

\* Then the autopilot client forgets the session (SessionRevoked).
RevokeUntracks(s) ==
    /\ revoking[s] = "shifted"
    /\ revoking' = [revoking EXCEPT ![s] = "untracked"]
    /\ tracked' = tracked \ {s}
    /\ UNCHANGED <<rows, adding, running, up, toResume, clock, rejected, history>>

\* All that litd does not store is lost.
LoseMemory ==
    /\ up' = FALSE
    /\ adding' = None("idle") /\ revoking' = None("idle")
    /\ served' = None("none") /\ watch' = None("none")
    /\ byRpc' = None(FALSE) /\ timer' = None("off")
    /\ tracked' = {} /\ toResume' = {} /\ unwatched' = {} /\ missed' = {}

\* Then StopSession, whose only error, that the session is not active, is
\* logged. An entry whose start failed has no gRPC server: stopping it panics.
RevokeStops(s) ==
    /\ revoking[s] = "untracked"
    /\ IF served[s] = "failed"
       THEN LoseMemory
       ELSE /\ served' = [served EXCEPT ![s] = "none"]
            /\ revoking' = [revoking EXCEPT ![s] = "idle"]
            /\ missed' = IF adding[s] = "created" THEN missed \cup {s} ELSE missed
            /\ UNCHANGED <<adding, watch, byRpc, timer, tracked, up, toResume, unwatched>>
    /\ UNCHANGED <<rows, clock, rejected, crashes>>
-----------------------------------------------------------------------------
\* The goroutine returns; nobody reads its context or its timer any more.
WatchEnds(s) ==
    /\ watch' = [watch EXCEPT ![s] = "none"]
    /\ byRpc' = [byRpc EXCEPT ![s] = FALSE]
    /\ timer' = [timer EXCEPT ![s] = "off"]

\* The goroutine of an active session. Its select: the session was closed, or it
\* expired or its first connection did not come in time, which SessionRevoked
\* tells the autopilot client.
WatchClosed(s) ==
    /\ watch[s] = "waiting" /\ served[s] = "none"
    /\ WatchEnds(s)
    /\ UNCHANGED <<rows, rpcs, served, tracked, up, toResume, clock, rejected, history>>

WatchFires(s) ==
    /\ watch[s] = "waiting" /\ (clock[s] = "expired" \/ timer[s] = "fired")
    /\ watch' = [watch EXCEPT ![s] = "untracked"]
    /\ tracked' = tracked \ {s}
    /\ UNCHANGED <<rows, rpcs, served, byRpc, timer, up, toResume, clock, rejected, history>>

\* StopSession, its error logged.
WatchStops(s) ==
    /\ watch[s] = "untracked"
    /\ served' = [served EXCEPT ![s] = "none"]
    /\ watch' = [watch EXCEPT ![s] = "stopped"]
    /\ UNCHANGED <<rows, rpcs, byRpc, timer, tracked, up, toResume, clock, rejected, history>>

\* ShiftState, its error logged: the context of an Add handler is cancelled when
\* the handler returns, which a SQL transaction then fails with.
WatchShifts(s) ==
    /\ watch[s] = "stopped"
    /\ \/ state' = ShiftState(s, "revoked") /\ UNCHANGED unwatched
       \/ Backend = "sql" /\ byRpc[s] /\ unwatched' = unwatched \cup {s} /\ UNCHANGED state
    /\ WatchEnds(s)
    /\ UNCHANGED <<kind, group, remote, rpcs, served, tracked, up, toResume, clock, rejected, missed,
                   crashes>>

\* deadlineTimer.
TimerFires(s) ==
    /\ timer[s] = "armed" /\ clock[s] # "early"
    /\ timer' = [timer EXCEPT ![s] = "fired"]
    /\ UNCHANGED <<rows, rpcs, served, watch, byRpc, tracked, up, toResume, clock, rejected, history>>

\* The peer's handshake stores its key, and then the mailbox reports the session
\* to be in use.
Pair(s) ==
    /\ served[s] = "serving" /\ ~remote[s]
    /\ remote' = [remote EXCEPT ![s] = TRUE]
    /\ UNCHANGED <<state, kind, group, rpcs, running, tracked, up, toResume, clock, rejected, history>>

InUse(s) ==
    /\ served[s] = "serving" /\ remote[s] /\ timer[s] = "armed"
    /\ timer' = [timer EXCEPT ![s] = "off"]
    /\ UNCHANGED <<rows, rpcs, served, watch, byRpc, tracked, up, toResume, clock, rejected, history>>

\* activateSessionsForever: of an activation only a rejection for good matters.
ActivateTracked(s) ==
    /\ s \in tracked /\ s \in rejected
    /\ tracked' = tracked \ {s}
    /\ UNCHANGED <<rows, rpcs, running, up, toResume, clock, rejected, history>>
-----------------------------------------------------------------------------
\* start: DeleteReservedSessions, then the list of what is to be resumed.
start ==
    /\ ~up
    /\ up' = TRUE
    /\ Delete({s \in Sessions : state[s] = "reserved"})
    /\ toResume' = {s \in Sessions : state[s] = "created"}
    /\ UNCHANGED <<rpcs, running, tracked, rejected, history>>

\* One turn of start's loop. An autopilot session that has expired is skipped;
\* one the autopilot server rejects for good is revoked, any other is resumed.
StartResumes(s) ==
    /\ s \in toResume
    /\ toResume' = toResume \ {s}
    /\ LET pilot == kind[s] = "autopilot"
       IN \/ /\ pilot /\ clock[s] = "expired"
             /\ unwatched' = unwatched \cup {s}
             /\ UNCHANGED <<state, running, tracked, rejected>>
          \/ /\ pilot /\ clock[s] # "expired"
             /\ tracked' = tracked \cup {s}
             /\ rejected' = rejected \cup {s}
             /\ state' = ShiftState(s, "revoked")
             /\ UNCHANGED <<running, unwatched>>
          \/ /\ ~pilot \/ clock[s] # "expired"
             /\ tracked' = IF pilot THEN tracked \cup {s} ELSE tracked
             /\ resumeSession(s)
             /\ UNCHANGED rejected
    /\ UNCHANGED <<kind, group, remote, rpcs, up, clock, missed, crashes>>

Crash ==
    /\ up /\ crashes < MaxCrashes
    /\ crashes' = crashes + 1
    /\ LoseMemory
    /\ UNCHANGED <<rows, clock, rejected>>

\* The clock. What it says about a session matters while the session is
\* created or watched, and the deadline only until the expiry.
Ticks(s) ==
    /\ state[s] = "created" \/ watch[s] = "waiting"
    /\ \/ clock[s] = "early" /\ ~remote[s] /\ clock' = [clock EXCEPT ![s] = "late"]
       \/ clock[s] # "expired" /\ clock' = [clock EXCEPT ![s] = "expired"]
    /\ UNCHANGED <<rows, rpcs, running, tracked, up, toResume, rejected, history>>

\* The parties that run by themselves: the rest of an Add handler, the rest of a
\* RevokeSession, the goroutine of an active session, and the turns of start.
Adds(s) ==
    PrepareFails(s) \/ RegisterSession(s) \/ Created(s) \/ AddResumes(s)

Revokes(s) == RevokeUntracks(s) \/ RevokeStops(s)

Watches(s) == WatchClosed(s) \/ WatchFires(s) \/ WatchStops(s) \/ WatchShifts(s)

Next ==
    \/ \E s \in Sessions :
          \/ \E k \in Kinds, g \in Sessions : NewSession(s, k, g)
          \/ Adds(s) \/ RevokeSession(s) \/ Revokes(s) \/ Watches(s) \/ TimerFires(s)
          \/ Pair(s) \/ InUse(s) \/ ActivateTracked(s)
          \/ StartResumes(s) \/ Ticks(s)
    \/ start \/ Crash

Spec == Init /\ [][Next]_vars

\* Goroutines and timers that can run do run, RegisterSession's call returns,
\* and litd is started again after a crash. Requests, peers and the clock owe
\* nothing.
Fairness ==
    /\ WF_vars(start)
    /\ \A s \in Sessions :
          /\ WF_vars(Adds(s)) /\ WF_vars(Revokes(s)) /\ WF_vars(Watches(s))
          /\ WF_vars(TimerFires(s)) /\ WF_vars(StartResumes(s))
          /\ WF_vars(ActivateTracked(s))
-----------------------------------------------------------------------------
\* Types of the variables.
TypeOK ==
    /\ state \in [Sessions -> {"none", "reserved", "created"} \cup Terminal]
    /\ kind \in [Sessions -> Kinds \cup {"lnc"}] /\ group \in [Sessions -> Sessions]
    /\ remote \in [Sessions -> BOOLEAN] /\ byRpc \in [Sessions -> BOOLEAN]
    /\ adding \in [Sessions -> {"idle", "reserved", "registered", "created", "failed"}]
    /\ revoking \in [Sessions -> {"idle", "shifted", "untracked"}]
    /\ served \in [Sessions -> {"none", "serving", "failed"}]
    /\ watch \in [Sessions -> {"none", "waiting", "untracked", "stopped"}]
    /\ timer \in [Sessions -> {"off", "armed", "fired"}]
    /\ clock \in [Sessions -> {"early", "late", "expired"}]
    /\ up \in BOOLEAN /\ crashes \in Nat
    /\ {tracked, toResume, rejected, unwatched, missed} \subseteq SUBSET Sessions

\* A session that was revoked or has expired stays that: no handler, goroutine
\* or start that read it earlier brings it back or ends it a second time, as the
\* transitions drawn above the states in session/interface.go say.
TerminalStays ==
    [][\A s \in Sessions : state[s] \in Terminal => state'[s] = state[s]]_vars

\* Of the sessions of one group at most one has not ended, so the autopilot
\* server never has two live sessions of one owner's group: NewSession looks at
\* the whole group in the transaction that adds the new one.
OneLivePerGroup ==
    \A s, t \in Sessions :
        s # t /\ group[s] = group[t] /\ state[s] # "none" /\ state[t] # "none"
            => state[s] \in Terminal \/ state[t] \in Terminal

\* Once RevokeSession has answered, the session is not served any more, though
\* the goroutine of the session, its deadline and its expiry run meanwhile. The
\* exception is a session that was revoked between AddSession's ShiftState and
\* its resumeSession, which then serves it all the same.
RevokedNotServed ==
    \A s \in Sessions :
        state[s] = "revoked" /\ revoking[s] = "idle" /\ s \notin missed => served[s] # "serving"

\* A reserved row belongs to a handler of this run of litd, at work or failed:
\* none outlives a restart to block its group for good.
ReservedIsRecent ==
    \A s \in Sessions :
        up /\ state[s] = "reserved" => adding[s] \in {"reserved", "registered", "failed"}

\* Past the expiry, or past the deadline of a first connection that was not made.
Overdue(s) == clock[s] = "expired" \/ (clock[s] = "late" /\ ~remote[s])

\* A session past its expiry, or past the deadline of a first connection that
\* was not made, ends, even when litd crashes between the steps that end it;
\* unless it was left without a goroutine to end it: its macaroon was not baked,
\* its mailbox not created, it is an autopilot session that had expired when litd
\* started, or the goroutine's last transaction failed because an Add handler's
\* context was cancelled. The next start ends all but the third.
OverdueEnds ==
    []<>(\A s \in Sessions : state[s] = "created" /\ Overdue(s) => s \in unwatched)

\* The autopilot client does not go on activating a session that has been
\* revoked, whoever revoked it.
RevokedUntracked == []<>(\A s \in Sessions : state[s] = "revoked" => s \notin tracked)
=============================================================================
