---------------------------- MODULE DaemonProofs ----------------------------
(***************************************************************************)
(* Proofs about three parts of litd. The stored state of a session, what   *)
(* is served, what is tracked and which goroutines run stay in step (Sync),*)
(* for any number of sessions and crashes. The queue of queue/queue.go     *)
(* implements FifoQueue, for any set of items and any buffer size, alone   *)
(* and inside litd (ErrorQueue). The on-chain budget is kept (BudgetInv),  *)
(* for any number of requests and crashes and any amounts.                 *)
(***************************************************************************)
EXTENDS Sessions, ErrorQueue, OnChainBudget, FiniteSums

\* The backends, in turn, of each leaf below that names none of its own.
USE ZenonT(20), SMTT(20), Z3T(20)

States == {"none", "reserved", "created"} \cup Terminal

\* What ties the progress of the handlers, of the goroutine and of the start to
\* the state of one session.
Sync(s) ==
    /\ adding[s] \in {"reserved", "registered", "failed"} => state[s] = "reserved"
    /\ adding[s] = "created" =>
          /\ state[s] \notin {"none", "reserved"} /\ served[s] = "none" /\ watch[s] = "none"
          /\ state[s] = "revoked" => revoking[s] # "idle" \/ s \in missed
    /\ state[s] \in {"none", "reserved"} => served[s] = "none" /\ watch[s] = "none"
    /\ served[s] = "serving" => watch[s] \in {"waiting", "untracked"}
    /\ s \in toResume =>
          /\ state[s] = "created" /\ adding[s] = "idle"
          /\ served[s] = "none" /\ watch[s] = "none"
    /\ ~up => /\ adding[s] = "idle" /\ revoking[s] = "idle"
              /\ served[s] = "none" /\ watch[s] = "none" /\ s \notin toResume
    /\ up /\ state[s] = "reserved" => adding[s] \in {"reserved", "registered", "failed"}
    /\ state[s] = "revoked" /\ revoking[s] = "idle" /\ s \notin missed => served[s] # "serving"

\* A session linked to another one is linked to the first of its group, which
\* has ended.
Linked ==
    \A t \in Sessions :
        state[t] # "none" /\ group[t] # t => state[group[t]] \in Terminal

IInv == TypeOK /\ \A s \in Sessions : Sync(s)
-----------------------------------------------------------------------------
\* ShiftState keeps every other session and follows the legal shifts.
LEMMA ShiftFact ==
    ASSUME state \in [Sessions -> States], NEW s \in Sessions,
           NEW dest \in {"created", "revoked", "expired"}
    PROVE  /\ ShiftState(s, dest) \in [Sessions -> States]
           /\ \A t \in Sessions : t # s => ShiftState(s, dest)[t] = state[t]
           /\ \/ ShiftState(s, dest)[s] = state[s]
              \/ /\ state[s] = "reserved" /\ dest = "created"
                 /\ ShiftState(s, dest)[s] = "created"
              \/ /\ state[s] = "created" /\ dest \in Terminal
                 /\ ShiftState(s, dest)[s] = dest
  <1>1. CASE CanShift(s, dest)
    <2>1. ShiftState(s, dest) = [state EXCEPT ![s] = dest]
      BY <1>1 DEF ShiftState
    <2>2. \/ state[s] = dest
          \/ state[s] = "reserved" /\ dest = "created"
          \/ state[s] = "created" /\ dest \in Terminal
      BY <1>1 DEF CanShift, legalStateShifts, States, Terminal
    <2>. QED  BY <2>1, <2>2 DEF States, Terminal
  <1>2. CASE ~CanShift(s, dest)
    BY <1>2 DEF ShiftState
  <1>. QED  BY <1>1, <1>2

\* Steps that leave the stored state alone.

\* One lemma per action: IInv survives an Add handler that fails
\* before it registers the session.
LEMMA PrepareFailsInv ==
    ASSUME IInv, NEW s \in Sessions, PrepareFails(s)
    PROVE  IInv'
  BY SMTT(20), Z3T(20) DEF IInv, TypeOK, Sync, Terminal, rows, rpcs, running, history, PrepareFails

\* IInv survives the step in which RevokeSession tells the autopilot client.
LEMMA RevokeUntracksInv ==
    ASSUME IInv, NEW s \in Sessions, RevokeUntracks(s)
    PROVE  IInv'
  BY SMTT(20), Z3T(20)
  DEF IInv, TypeOK, Sync, Terminal, rows, rpcs, running, history, RevokeUntracks

\* IInv survives the wake-up of the goroutine of resumeSession.
LEMMA WatchFiresInv ==
    ASSUME IInv, NEW s \in Sessions, WatchFires(s)
    PROVE  IInv'
  BY SMTT(20), Z3T(20) DEF IInv, TypeOK, Sync, Terminal, rows, rpcs, running, history, WatchFires

\* IInv survives the step in which that goroutine stops the server.
LEMMA WatchStopsInv ==
    ASSUME IInv, NEW s \in Sessions, WatchStops(s)
    PROVE  IInv'
  BY SMTT(20), Z3T(20) DEF IInv, TypeOK, Sync, Terminal, rows, rpcs, running, history, WatchStops

\* IInv survives the deadline for the first connection.
LEMMA TimerFiresInv ==
    ASSUME IInv, NEW s \in Sessions, TimerFires(s)
    PROVE  IInv'
  BY SMTT(20), Z3T(20) DEF IInv, TypeOK, Sync, Terminal, rows, rpcs, running, history, TimerFires

\* IInv survives the first connection of a peer.
LEMMA PairInv ==
    ASSUME IInv, NEW s \in Sessions, Pair(s)
    PROVE  IInv'
  BY DEF IInv, TypeOK, Sync, Terminal, rows, rpcs, running, history, Pair

\* IInv survives a peer that makes use of the session.
LEMMA InUseInv ==
    ASSUME IInv, NEW s \in Sessions, InUse(s)
    PROVE  IInv'
  BY DEF IInv, TypeOK, Sync, Terminal, rows, rpcs, running, history, InUse

\* IInv survives an activation that the autopilot server rejects for good.
LEMMA ActivateTrackedInv ==
    ASSUME IInv, NEW s \in Sessions, ActivateTracked(s)
    PROVE  IInv'
  BY SMTT(20), Z3T(20)
  DEF IInv, TypeOK, Sync, Terminal, rows, rpcs, running, history, ActivateTracked

\* IInv survives the passing of the deadline and of the expiry.
LEMMA TicksInv ==
    ASSUME IInv, NEW s \in Sessions, Ticks(s)
    PROVE  IInv'
  BY SMTT(20), Z3T(20) DEF IInv, TypeOK, Sync, Terminal, rows, rpcs, running, history, Ticks

\* IInv survives the end of the goroutine when its server has been closed.
LEMMA WatchClosedInv ==
    ASSUME IInv, NEW s \in Sessions, WatchClosed(s)
    PROVE  IInv'
  BY SMTT(20), Z3T(20)
  DEF IInv, TypeOK, Sync, Terminal, rows, rpcs, running, history, WatchClosed, WatchEnds

\* Losing everything but the rows leaves nothing that disagrees with them.
LEMMA LoseMemoryInv ==
    ASSUME IInv, LoseMemory, UNCHANGED <<rows, clock, rejected>>, crashes' \in Nat
    PROVE  IInv'
  <1>1. TypeOK'
    BY DEF IInv, TypeOK, rows, LoseMemory, None
  <1>2. ASSUME NEW s \in Sessions PROVE Sync(s)'
    BY DEF IInv, TypeOK, Sync, Terminal, rows, LoseMemory, None
  <1>. QED  BY <1>1, <1>2 DEF IInv

\* IInv survives the last step of RevokeSession, also when it ends the process.
LEMMA RevokeStopsInv ==
    ASSUME IInv, NEW s \in Sessions, RevokeStops(s)
    PROVE  IInv'
  <1>1. CASE served[s] = "failed"
    BY <1>1, LoseMemoryInv DEF RevokeStops, IInv, TypeOK
  <1>2. CASE served[s] # "failed"
    BY <1>2, SMTT(20), Z3T(20)
    DEF IInv, TypeOK, Sync, Terminal, rows, rpcs, running, history, RevokeStops
  <1>. QED  BY <1>1, <1>2

\* Steps of the store.
LEMMA NewSessionInv ==
    ASSUME IInv, NEW s \in Sessions, NEW k \in Kinds, NEW g \in Sessions,
           NewSession(s, k, g)
    PROVE  IInv'
  BY SMTT(20), Z3T(20)
  DEF IInv, TypeOK, Sync, Terminal, rows, rpcs, running, history, NewSession, Ready

\* IInv survives ShiftState(Created).
LEMMA CreatedInv ==
    ASSUME IInv, NEW s \in Sessions, Created(s)
    PROVE  IInv'
  <1>. USE DEF IInv
  <1>1. state \in [Sessions -> States]
    BY DEF TypeOK, States
  <1>2. remote' \in [Sessions -> BOOLEAN]
    <2>1. remote' = [remote EXCEPT ![s] = (kind[s] = "autopilot")]
      BY DEF Created
    <2>2. (kind[s] = "autopilot") \in BOOLEAN
      OBVIOUS
    <2>. QED  BY <2>1, <2>2 DEF TypeOK
  <1>3. TypeOK'
    BY <1>1, <1>2, ShiftFact DEF TypeOK, States, rpcs, running, history, Created
  <1>4. adding[s] \in {"reserved", "registered"}
    BY DEF Created
  <1>5. state[s] = "reserved" /\ served[s] = "none" /\ watch[s] = "none" /\ s \notin toResume /\ up
    BY <1>4 DEF Sync
  <1>6. state' = [state EXCEPT ![s] = "created"]
    BY <1>5 DEF Created, ShiftState, CanShift, legalStateShifts
  <1>7. ASSUME NEW t \in Sessions PROVE Sync(t)'
    BY <1>1, <1>5, <1>6, SMTT(20), Z3T(20)
    DEF TypeOK, Sync, States, Terminal, running, history, Created
  <1>. QED  BY <1>3, <1>7

\* IInv survives ShiftState(Revoked), and its refusal.
LEMMA RevokeSessionInv ==
    ASSUME IInv, NEW s \in Sessions, RevokeSession(s)
    PROVE  IInv'
  <1>. USE DEF IInv
  <1>1. state \in [Sessions -> States]
    BY DEF TypeOK, States
  <1>. QED
    BY <1>1, ShiftFact, SMTT(20), Z3T(20)
    DEF TypeOK, Sync, States, Terminal, rows, rpcs, running, history, RevokeSession, Ready

\* IInv survives the write with which the goroutine ends the session.
LEMMA WatchShiftsInv ==
    ASSUME IInv, NEW s \in Sessions, WatchShifts(s)
    PROVE  IInv'
  <1>. USE DEF IInv
  <1>1. state \in [Sessions -> States]
    BY DEF TypeOK, States
  <1>. QED
    BY <1>1, ShiftFact, SMTT(20), Z3T(20)
    DEF TypeOK, Sync, States, Terminal, rows, rpcs, running, history, WatchShifts, WatchEnds

\* What Sync says of a session depends on these of its fields alone.
LEMMA SyncSame ==
    ASSUME NEW t \in Sessions, Sync(t), up' = up,
           state'[t] = state[t], adding'[t] = adding[t], revoking'[t] = revoking[t],
           served'[t] = served[t], watch'[t] = watch[t],
           t \in toResume' => t \in toResume, t \in missed => t \in missed'
    PROVE  Sync(t)'
  BY DEF Sync

\* IInv survives the answer of the autopilot server.
LEMMA RegisterSessionInv ==
    ASSUME IInv, NEW s \in Sessions, RegisterSession(s)
    PROVE  IInv'
  <1>0. adding[s] = "reserved" /\ state[s] = "reserved" /\ TypeOK
    BY DEF IInv, Sync, RegisterSession
  <1>1. CASE /\ adding' \in {[adding EXCEPT ![s] = "registered"], [adding EXCEPT ![s] = "failed"]}
             /\ tracked' \in {tracked, tracked \cup {s}} /\ UNCHANGED <<rows, clock>>
    <2>1. TypeOK'
      BY <1>0, <1>1, SMTT(20), Z3T(20) DEF TypeOK, rows, running, history, RegisterSession
    <2>2. ASSUME NEW t \in Sessions PROVE Sync(t)'
      <3>1. /\ UNCHANGED <<state, revoking, served, watch, toResume, up, missed>> /\ Sync(t)
            /\ t # s => adding'[t] = adding[t]
            /\ adding'[s] \in {"registered", "failed"}
        BY <1>0, <1>1 DEF IInv, TypeOK, rows, running, history, RegisterSession
      <3>2. CASE t # s
        BY <3>1, <3>2, SyncSame
      <3>3. CASE t = s
        BY <1>0, <3>1, <3>3 DEF Sync
      <3>. QED  BY <3>2, <3>3
    <2>. QED  BY <2>1, <2>2 DEF IInv
  <1>2. CASE adding' = [adding EXCEPT ![s] = "idle"] /\ Delete({s}) /\ UNCHANGED tracked
    <2>1. TypeOK'
      BY <1>0, <1>2, SMTT(20), Z3T(20) DEF TypeOK, Delete, running, history, RegisterSession
    <2>2. ASSUME NEW t \in Sessions PROVE Sync(t)'
      <3>1. /\ UNCHANGED <<revoking, served, watch, toResume, up, missed>> /\ Sync(t)
            /\ t # s => adding'[t] = adding[t] /\ state'[t] = state[t]
            /\ adding'[s] = "idle" /\ state'[s] = "none"
        BY <1>0, <1>2 DEF IInv, TypeOK, Delete, running, history, RegisterSession
      <3>2. CASE t # s
        BY <3>1, <3>2, SyncSame
      <3>3. CASE t = s
        BY <1>0, <3>1, <3>3 DEF Sync
      <3>. QED  BY <3>2, <3>3
    <2>. QED  BY <2>1, <2>2 DEF IInv
  <1>. QED  BY <1>1, <1>2 DEF RegisterSession

\* IInv survives the deletion of reserved rows at start-up.
LEMMA startInv ==
    ASSUME IInv, start
    PROVE  IInv'
  BY SMTT(20), Z3T(20) DEF IInv, TypeOK, Sync, Terminal, rows, rpcs, running, history, start, Delete

\* IInv survives a crash at any point.
LEMMA CrashInv ==
    ASSUME IInv, Crash
    PROVE  IInv'
  BY LoseMemoryInv, SMTT(20), Z3T(20) DEF Crash, IInv, TypeOK

\* What resumeSession does, when the session is not active yet.
LEMMA ResumeFact ==
    ASSUME TypeOK, NEW s \in Sessions, served[s] = "none", watch[s] = "none", resumeSession(s)
    PROVE  /\ state' \in [Sessions -> States]
           /\ served' \in [Sessions -> {"none", "serving", "failed"}]
           /\ watch' \in [Sessions -> {"none", "waiting", "untracked", "stopped"}]
           /\ byRpc' \in [Sessions -> BOOLEAN]
           /\ timer' \in [Sessions -> {"off", "armed", "fired"}]
           /\ unwatched' \in SUBSET Sessions
           /\ \A t \in Sessions : t # s =>
                 state'[t] = state[t] /\ served'[t] = served[t] /\ watch'[t] = watch[t]
           /\ \/ /\ state'[s] = state[s]
                 /\ served'[s] = "serving" => watch'[s] = "waiting"
              \/ /\ state[s] = "created" /\ state'[s] \in Terminal
                 /\ served'[s] = "none"
           /\ served'[s] = "none" => watch'[s] = "none"
  <1>0. state \in [Sessions -> States]
    BY DEF TypeOK, States
  <1>1. CASE /\ \E dest \in Terminal : state' = ShiftState(s, dest)
             /\ UNCHANGED <<running, unwatched>>
    <2>1. PICK dest \in Terminal : state' = ShiftState(s, dest)
      BY <1>1
    <2>. QED  BY <1>0, <1>1, <2>1, ShiftFact, SMTT(20), Z3T(20) DEF TypeOK, Terminal, running
  <1>2. CASE unwatched' = unwatched \cup {s} /\ UNCHANGED <<state, running>>
    BY <1>0, <1>2 DEF TypeOK, running
  <1>3. CASE /\ served' = [served EXCEPT ![s] = "serving"]
             /\ watch' = [watch EXCEPT ![s] = "waiting"]
             /\ byRpc' = [byRpc EXCEPT ![s] = (adding[s] = "created")]
             /\ timer' = [timer EXCEPT ![s] = IF remote[s] THEN "off" ELSE "armed"]
             /\ UNCHANGED <<state, unwatched>>
    <2>1. (adding[s] = "created") \in BOOLEAN
      OBVIOUS
    <2>2. byRpc' \in [Sessions -> BOOLEAN]
      BY <1>3, <2>1 DEF TypeOK
    <2>. QED  BY <1>0, <1>3, <2>2, SMTT(20), Z3T(20) DEF TypeOK
  <1>4. CASE /\ served' = [served EXCEPT ![s] = "failed"]
             /\ unwatched' = unwatched \cup {s}
             /\ UNCHANGED <<state, watch, byRpc, timer>>
    BY <1>0, <1>4, SMTT(20), Z3T(20) DEF TypeOK
  <1>. QED
    BY <1>1, <1>2, <1>3, <1>4 DEF resumeSession, Terminal

\* IInv survives resumeSession at the end of the Add handlers.
LEMMA AddResumesInv ==
    ASSUME IInv, NEW s \in Sessions, AddResumes(s)
    PROVE  IInv'
  <1>1. served[s] = "none" /\ watch[s] = "none" /\ resumeSession(s) /\ TypeOK
    BY DEF IInv, Sync, AddResumes
  <1>2. TypeOK'
    <2>1. /\ state' \in [Sessions -> States]
          /\ served' \in [Sessions -> {"none", "serving", "failed"}]
          /\ watch' \in [Sessions -> {"none", "waiting", "untracked", "stopped"}]
          /\ byRpc' \in [Sessions -> BOOLEAN]
          /\ timer' \in [Sessions -> {"off", "armed", "fired"}]
          /\ unwatched' \in SUBSET Sessions
      BY <1>1, ResumeFact
    <2>2. /\ adding' = [adding EXCEPT ![s] = "idle"]
          /\ UNCHANGED <<kind, group, remote, revoking, tracked, up, toResume, clock, rejected,
                         missed, crashes>>
      BY DEF AddResumes
    <2>. QED  BY <1>1, <2>1, <2>2, SMTT(20), Z3T(20) DEF TypeOK, States
  <1>3. ASSUME NEW t \in Sessions PROVE Sync(t)'
    <2>1. /\ UNCHANGED <<revoking, toResume, up, missed>> /\ Sync(t)
          /\ t # s => adding'[t] = adding[t]
          /\ adding[s] = "created" /\ adding'[s] = "idle"
      BY <1>1 DEF IInv, TypeOK, AddResumes
    <2>2. /\ t # s => state'[t] = state[t] /\ served'[t] = served[t] /\ watch'[t] = watch[t]
          /\ \/ /\ state'[s] = state[s]
                /\ served'[s] = "serving" => watch'[s] = "waiting"
             \/ /\ state[s] = "created" /\ state'[s] \in Terminal
                /\ served'[s] = "none"
          /\ served'[s] = "none" => watch'[s] = "none"
      BY <1>1, ResumeFact
    <2>3. CASE t # s
      BY <2>1, <2>2, <2>3, SyncSame
    <2>4. CASE t = s
      BY <2>1, <2>2, <2>4 DEF Sync, Terminal
    <2>. QED  BY <2>3, <2>4
  <1>. QED  BY <1>2, <1>3 DEF IInv

\* IInv survives resumeSession at start-up.
LEMMA StartResumesInv ==
    ASSUME IInv, NEW s \in Sessions, StartResumes(s)
    PROVE  IInv'
  <1>0. /\ toResume' = toResume \ {s}
        /\ UNCHANGED <<kind, group, remote, adding, revoking, up, clock, missed, crashes>>
    BY DEF StartResumes, rpcs
  <1>1. /\ state[s] = "created" /\ served[s] = "none" /\ watch[s] = "none" /\ TypeOK
        /\ state \in [Sessions -> States]
    BY DEF IInv, Sync, StartResumes, TypeOK, States
  <1>2. CASE resumeSession(s) /\ UNCHANGED rejected /\ tracked' \in {tracked, tracked \cup {s}}
    <2>1. TypeOK'
      <3>1. /\ state' \in [Sessions -> States]
            /\ served' \in [Sessions -> {"none", "serving", "failed"}]
            /\ watch' \in [Sessions -> {"none", "waiting", "untracked", "stopped"}]
            /\ byRpc' \in [Sessions -> BOOLEAN]
            /\ timer' \in [Sessions -> {"off", "armed", "fired"}]
            /\ unwatched' \in SUBSET Sessions
        BY <1>1, <1>2, ResumeFact
      <3>. QED  BY <1>0, <1>1, <1>2, <3>1, SMTT(20), Z3T(20) DEF TypeOK, States
    <2>2. ASSUME NEW t \in Sessions PROVE Sync(t)'
      <3>1. /\ UNCHANGED <<adding, revoking, up, missed>> /\ Sync(t)
            /\ s \in toResume /\ toResume' = toResume \ {s}
        BY DEF IInv, StartResumes, rpcs
      <3>2. /\ t # s => state'[t] = state[t] /\ served'[t] = served[t] /\ watch'[t] = watch[t]
            /\ \/ /\ state'[s] = state[s]
                  /\ served'[s] = "serving" => watch'[s] = "waiting"
               \/ /\ state[s] = "created" /\ state'[s] \in Terminal
                  /\ served'[s] = "none"
            /\ served'[s] = "none" => watch'[s] = "none"
        BY <1>1, <1>2, ResumeFact
      <3>3. CASE t # s
        BY <3>1, <3>2, <3>3, SyncSame
      <3>4. CASE t = s
        BY <1>1, <3>1, <3>2, <3>4 DEF Sync, Terminal
      <3>. QED  BY <3>3, <3>4
    <2>. QED  BY <2>1, <2>2 DEF IInv
  <1>3. CASE /\ unwatched' = unwatched \cup {s}
             /\ UNCHANGED <<state, running, tracked, rejected>>
    <2>1. TypeOK'
      BY <1>0, <1>1, <1>3, SMTT(20), Z3T(20) DEF TypeOK, running
    <2>2. ASSUME NEW t \in Sessions PROVE Sync(t)'
      <3>1. /\ UNCHANGED <<state, adding, revoking, served, watch, up, missed>> /\ Sync(t)
            /\ t \in toResume' => t \in toResume
        BY <1>3 DEF IInv, StartResumes, rpcs, running
      <3>. QED  BY <3>1, SyncSame
    <2>. QED  BY <2>1, <2>2 DEF IInv
  <1>4. CASE /\ tracked' = tracked \cup {s} /\ rejected' = rejected \cup {s}
             /\ state' = ShiftState(s, "revoked")
             /\ UNCHANGED <<running, unwatched>>
    <2>1. /\ state' \in [Sessions -> States]
          /\ \A t \in Sessions : t # s => state'[t] = state[t]
          /\ state'[s] \in {"created", "revoked"}
      BY <1>1, <1>4, ShiftFact
    <2>2. TypeOK'
      BY <1>0, <1>1, <1>4, <2>1, SMTT(20), Z3T(20) DEF TypeOK, States, running
    <2>3. ASSUME NEW t \in Sessions PROVE Sync(t)'
      <3>1. /\ UNCHANGED <<adding, revoking, served, watch, up, missed>> /\ Sync(t)
            /\ s \in toResume /\ toResume' = toResume \ {s}
        BY <1>4 DEF IInv, StartResumes, rpcs, running
      <3>2. CASE t # s
        BY <2>1, <3>1, <3>2, SyncSame
      <3>3. CASE t = s
        BY <1>1, <2>1, <3>1, <3>3 DEF Sync, Terminal
      <3>. QED  BY <3>2, <3>3
    <2>. QED  BY <2>2, <2>3 DEF IInv
  <1>. QED
    BY <1>2, <1>3, <1>4 DEF StartResumes

\* The initial state satisfies IInv.
LEMMA InvInit == ASSUME Init PROVE IInv
  BY DEF Init, IInv, TypeOK, Sync, Terminal, None

\* So does every state that a step leads to.
LEMMA InvStep == ASSUME IInv, [Next]_vars PROVE IInv'
  <1>1. CASE UNCHANGED vars
    BY <1>1 DEF vars, rows, rpcs, running, history, IInv, TypeOK, Sync, Terminal
  <1>2. ASSUME NEW s \in Sessions, Adds(s) PROVE IInv'
    BY <1>2, PrepareFailsInv, RegisterSessionInv, CreatedInv, AddResumesInv DEF Adds
  <1>3. ASSUME NEW s \in Sessions, Revokes(s) PROVE IInv'
    BY <1>3, RevokeUntracksInv, RevokeStopsInv DEF Revokes
  <1>4. ASSUME NEW s \in Sessions, Watches(s) PROVE IInv'
    BY <1>4, WatchClosedInv, WatchFiresInv, WatchStopsInv, WatchShiftsInv DEF Watches
  <1>. QED
    BY <1>1, <1>2, <1>3, <1>4, NewSessionInv, RevokeSessionInv, TimerFiresInv, PairInv, InUseInv,
       ActivateTrackedInv, StartResumesInv, TicksInv, startInv, CrashInv DEF Next
-----------------------------------------------------------------------------
\* Once RevokeSession has answered, no goroutine, start or later handler serves
\* the session again, except for the named race with AddSession.
THEOREM RevokedTheorem == Spec => []RevokedNotServed
  <1>1. IInv => RevokedNotServed
    BY DEF IInv, Sync, RevokedNotServed
  <1>. QED  BY <1>1, InvInit, InvStep, PTL DEF Spec

\* No reserved row outlives a restart of litd.
THEOREM ReservedTheorem == Spec => []ReservedIsRecent
  <1>1. IInv => ReservedIsRecent
    BY DEF IInv, Sync, ReservedIsRecent
  <1>. QED  BY <1>1, InvInit, InvStep, PTL DEF Spec
-----------------------------------------------------------------------------
\* Every step adds one row, deletes reserved rows, or moves rows along the legal
\* shifts.
Adding == \E s \in Sessions, k \in Kinds, g \in Sessions : NewSession(s, k, g)

Deleting == \E gone \in SUBSET {s \in Sessions : state[s] = "reserved"} : Delete(gone)

Moving ==
    /\ UNCHANGED group
    /\ \A t \in Sessions :
          \/ state'[t] = state[t]
          \/ state[t] = "reserved" /\ state'[t] = "created"
          \/ state[t] = "created" /\ state'[t] \in Terminal

\* ShiftState is a legal move of one row.
LEMMA ShiftMoves ==
    ASSUME IInv, NEW s \in Sessions, NEW dest \in {"created", "revoked", "expired"},
           state' = ShiftState(s, dest), UNCHANGED group
    PROVE  Moving
  <1>1. state \in [Sessions -> States]
    BY DEF IInv, TypeOK, States
  <1>. QED  BY <1>1, ShiftFact, SMTT(20), Z3T(20) DEF Moving

\* No step does anything else to the rows.
LEMMA StoreStep == ASSUME IInv, [Next]_vars PROVE Adding \/ Deleting \/ Moving
  <1>1. ASSUME UNCHANGED <<state, group>> PROVE Moving
    BY <1>1 DEF Moving
  <1>2. ASSUME NEW s \in Sessions, resumeSession(s), UNCHANGED group PROVE Moving
    BY <1>1, <1>2, ShiftMoves DEF resumeSession
  <1>3. ASSUME NEW s \in Sessions, Adds(s) PROVE Deleting \/ Moving
    <2>1. CASE RegisterSession(s)
      <3>1. state[s] = "reserved"
        BY <2>1 DEF RegisterSession, IInv, Sync
      <3>2. Delete({s}) \/ UNCHANGED <<state, group>>
        BY <2>1 DEF RegisterSession, rows
      <3>. QED  BY <1>1, <3>1, <3>2 DEF Deleting
    <2>. QED
      BY <1>1, <1>2, <1>3, <2>1, ShiftMoves DEF Adds, PrepareFails, Created, AddResumes, rows
  <1>4. ASSUME NEW s \in Sessions, Revokes(s) \/ Watches(s) PROVE Moving
    BY <1>1, <1>4, ShiftMoves
    DEF Revokes, RevokeUntracks, RevokeStops, Watches, WatchClosed, WatchFires, WatchStops,
        WatchShifts, rows
  <1>5. ASSUME NEW s \in Sessions, StartResumes(s) PROVE Moving
    BY <1>1, <1>2, <1>5, ShiftMoves DEF StartResumes
  <1>6. ASSUME NEW s \in Sessions, RevokeSession(s) PROVE Moving
    BY <1>6, ShiftMoves DEF RevokeSession
  <1>7. ASSUME NEW s \in Sessions,
               TimerFires(s) \/ Pair(s) \/ InUse(s) \/ ActivateTracked(s) \/ Ticks(s)
        PROVE  Moving
    BY <1>1, <1>7 DEF TimerFires, Pair, InUse, ActivateTracked, Ticks, rows
  <1>8. CASE start \/ Crash \/ UNCHANGED vars
    BY <1>1, <1>8 DEF start, Crash, vars, rows, Deleting
  <1>. QED
    BY <1>3, <1>4, <1>5, <1>6, <1>7, <1>8 DEF Next, Adding

\* A session that has ended keeps the state it ended in.
THEOREM TerminalTheorem == Spec => TerminalStays
  <1>1. ASSUME IInv, [Next]_vars
        PROVE  \A s \in Sessions : state[s] \in Terminal => state'[s] = state[s]
    BY <1>1, StoreStep, SMTT(20), Z3T(20)
    DEF Adding, NewSession, Deleting, Delete, Moving, Terminal, IInv, TypeOK
  <1>. QED  BY <1>1, InvInit, InvStep, PTL DEF Spec, TerminalStays

\* NewSession's look at the whole group, in the transaction that adds the row,
\* is enough: the group is never live twice, whatever happens in between.
THEOREM GroupTheorem == Spec => []OneLivePerGroup
  <1>. DEFINE GInv == OneLivePerGroup /\ Linked
  <1>1. Init => GInv
    BY SMTT(20), Z3T(20) DEF Init, None, OneLivePerGroup, Linked
  <1>2. ASSUME IInv, GInv, Adding PROVE GInv'
    <2>1. PICK s \in Sessions, k \in Kinds, g \in Sessions : NewSession(s, k, g)
      BY <1>2 DEF Adding
    <2>2. /\ state[s] = "none"
          /\ state' = [state EXCEPT ![s] = "reserved"]
          /\ group' = [group EXCEPT ![s] = g]
          /\ g = s \/ (group[g] = g /\ GroupClosed(g))
      BY <2>1 DEF NewSession
    <2>3. \A t \in Sessions : t # s /\ state[t] # "none" => group[t] # s
      BY <1>2, <2>2 DEF Linked, Terminal
    <2>4. g # s => \A t \in Sessions : group[t] = g /\ state[t] # "none" => state[t] \in Terminal
      BY <2>2 DEF GroupClosed
    <2>5. g # s => state[g] \in Terminal
      BY <2>2, <2>4 DEF GroupClosed
    <2>6. Linked'
      BY <1>2, <2>2, <2>3, <2>5, SMTT(20), Z3T(20) DEF Linked, IInv, TypeOK
    <2>7. OneLivePerGroup'
      BY <1>2, <2>2, <2>3, <2>4, SMTT(20), Z3T(20) DEF OneLivePerGroup, IInv, TypeOK
    <2>. QED  BY <2>6, <2>7
  <1>3. ASSUME IInv, GInv, Deleting PROVE GInv'
    <2>1. PICK gone \in SUBSET {s \in Sessions : state[s] = "reserved"} : Delete(gone)
      BY <1>3 DEF Deleting
    <2>. QED
      BY <1>3, <2>1, SMTT(20), Z3T(20) DEF Delete, OneLivePerGroup, Linked, IInv, TypeOK, Terminal
  <1>4. ASSUME IInv, GInv, Moving PROVE GInv'
    <2>1. group' = group /\ \A t \in Sessions : group[t] \in Sessions
      BY <1>4 DEF Moving, IInv, TypeOK
    <2>2. \A t \in Sessions : /\ state'[t] # "none" => state[t] # "none"
                              /\ state[t] \in Terminal => state'[t] \in Terminal
      BY <1>4 DEF Moving, Terminal
    <2>3. Linked'
      BY <1>4, <2>1, <2>2 DEF Linked
    <2>4. OneLivePerGroup'
      BY <1>4, <2>1, <2>2 DEF OneLivePerGroup
    <2>. QED  BY <2>3, <2>4
  <1>5. ASSUME IInv, GInv, [Next]_vars PROVE GInv'
    BY <1>2, <1>3, <1>4, <1>5, StoreStep
  <1>6. GInv => OneLivePerGroup
    OBVIOUS
  <1>. QED  BY <1>1, <1>5, <1>6, InvInit, InvStep, PTL DEF Spec
-----------------------------------------------------------------------------
QInv ==
    /\ offers \subseteq Item
    /\ chanOut \in Seq(Item) /\ overflow \in Seq(Item) /\ taken \in Seq(Item)

\* An item that goes to the back of the list goes to the back of the queue.
LEMMA AppendBack ==
    ASSUME NEW c \in Seq(Item), NEW o \in Seq(Item), NEW i \in Item
    PROVE  /\ c \o Append(o, i) = Append(c \o o, i)
           /\ o = <<>> => Append(c, i) \o o = Append(c \o o, i)
    BY SMTT(20), Z3T(20)

\* Moving the front of the list to the end of the buffer changes nothing.
LEMMA MoveFront ==
    ASSUME NEW c \in Seq(Item), NEW o \in Seq(Item), o # <<>>
    PROVE  Append(c, Head(o)) \o Tail(o) = c \o o
    BY SMTT(20), Z3T(20)

\* The front of the buffer is the front of the queue.
LEMMA FrontOfBuffer ==
    ASSUME NEW c \in Seq(Item), NEW o \in Seq(Item), c # <<>>
    PROVE  /\ c \o o # <<>>
           /\ Head(c \o o) = Head(c)
           /\ Tail(c \o o) = Tail(c) \o o
    BY SMTT(20), Z3T(20)

\* The types the steps need are invariant.
LEMMA QInvStep ==
    ASSUME QInv, [QueueNext]_qvars
    PROVE  QInv'
<1> USE DEF QInv
<1>1. ASSUME NEW i \in Item, Send(i) PROVE QInv'
    BY <1>1 DEF Send
<1>2. ASSUME NEW i \in Item, Receive(i) PROVE QInv'
  <2>1. CASE overflow = <<>> /\ Len(chanOut) < BufferSize
    <3>1. /\ chanOut' = Append(chanOut, i) /\ overflow' = overflow
          /\ offers' = offers \ {i} /\ taken' = taken
        BY <1>2, <2>1 DEF Receive
    <3> QED
        BY <3>1, SMTT(20), Z3T(20)
  <2>2. CASE ~(overflow = <<>> /\ Len(chanOut) < BufferSize)
    <3>1. /\ overflow' = Append(overflow, i) /\ chanOut' = chanOut
          /\ offers' = offers \ {i} /\ taken' = taken
        BY <1>2, <2>2 DEF Receive
    <3> QED
        BY <3>1, SMTT(20), Z3T(20)
  <2> QED
    BY <2>1, <2>2
<1>3. CASE Forward
    BY <1>3, SMTT(20), Z3T(20) DEF Forward
<1>4. CASE LeaveLoop \/ CloseOut \/ Return \/ CloseIn \/ Stop
    BY <1>4 DEF LeaveLoop, CloseOut, Return, CloseIn, Stop
<1>5. CASE Take
    BY <1>5, SMTT(20), Z3T(20) DEF Take
<1>6. CASE UNCHANGED qvars
    BY <1>6 DEF qvars
<1> QED
    BY <1>1, <1>2, <1>3, <1>4, <1>5, <1>6 DEF QueueNext, Move

\* Every step of the queue is a push, a pop or a stutter of FifoQueue.
LEMMA QueueStepRefines ==
    ASSUME QInv, [QueueNext]_qvars
    PROVE  [Fifo!Next]_(Fifo!vars)
<1> USE DEF QInv, Fifo!vars
<1>1. ASSUME NEW i \in Item, Receive(i) PROVE Fifo!Push(i)
  <2>1. CASE overflow = <<>> /\ Len(chanOut) < BufferSize
    BY <1>1, <2>1, AppendBack, SMTT(20), Z3T(20) DEF Receive, Fifo!Push
  <2>2. CASE ~(overflow = <<>> /\ Len(chanOut) < BufferSize)
    <3>1. overflow' = Append(overflow, i) /\ chanOut' = chanOut /\ taken' = taken
        BY <1>1, <2>2 DEF Receive
    <3> QED
        BY <3>1, AppendBack DEF Fifo!Push
  <2> QED
    BY <2>1, <2>2
<1>2. CASE Forward
    BY <1>2, MoveFront DEF Forward
<1>3. CASE Take
    BY <1>3, FrontOfBuffer DEF Take, Fifo!Next, Fifo!Pop
<1>4. ASSUME NEW i \in Item, Send(i) PROVE UNCHANGED Fifo!vars
    BY <1>4 DEF Send
<1>5. CASE LeaveLoop \/ CloseOut \/ Return \/ CloseIn \/ Stop
    BY <1>5 DEF LeaveLoop, CloseOut, Return, CloseIn, Stop
<1>6. CASE UNCHANGED qvars
    BY <1>6 DEF qvars
<1> QED
    BY <1>1, <1>2, <1>3, <1>4, <1>5, <1>6 DEF QueueNext, Move, Fifo!Next

\* An empty queue is an empty queue.
LEMMA InitRefines == QueueInit => QInv /\ Fifo!Init
    BY SMTT(20), Z3T(20) DEF QueueInit, QInv, Fifo!Init

\* queue/queue.go: the queue implements FifoQueue, so items leave in the order
\* in which the goroutine received them, none lost and none twice.
THEOREM QueueImplementsFifo == QueueSpec => FifoOrder
<1>1. QueueInit => QInv /\ Fifo!Init
    BY InitRefines
<1>2. QInv /\ [QueueNext]_qvars => QInv'
    BY QInvStep
<1>3. QInv /\ [QueueNext]_qvars => [Fifo!Next]_(Fifo!vars)
    BY QueueStepRefines
<1> QED
    BY <1>1, <1>2, <1>3, PTL DEF QueueSpec, FifoOrder, Fifo!Spec

\* terminal.go and rpcmiddleware/manager.go use the queue as intended: inside
\* litd, where senders may give up, it still is a FIFO queue.
THEOREM ErrorQueueImplementsFifo == ErrSpec => FifoOrder
<1>1. ErrInit => QInv /\ Fifo!Init
    BY InitRefines DEF ErrInit
<1>2. ASSUME QInv, [ErrNext]_errVars PROVE QInv' /\ [Fifo!Next]_(Fifo!vars)
  <2>1. ASSUME NEW i \in Item, Send(i) PROVE QueueNext
    BY <2>1 DEF QueueNext
  <2>2. ASSUME NEW i \in Item, Receive(i) PROVE QueueNext
    BY <2>2 DEF QueueNext, Move
  <2>3. Forward \/ Return \/ Take \/ Stop => QueueNext
    BY DEF QueueNext, Move
  <2>4. CASE [QueueNext]_qvars
    BY <1>2, <2>4, QInvStep, QueueStepRefines
  <2>5. ASSUME NEW i \in Interceptors, InterceptorError(i) PROVE QueueNext
    BY <2>5, <2>1 DEF InterceptorError, Interceptors
  <2>6. ASSUME NEW i \in Interceptors, InterceptorQuits(i)
        PROVE  QInv' /\ UNCHANGED Fifo!vars
    BY <1>2, <2>6 DEF InterceptorQuits, QInv, Fifo!vars
  <2>7. CASE LndError
    BY <2>7, <2>1, <2>4, LndAssumption DEF LndError
  <2>8. ASSUME NEW i \in Item, Received(i) PROVE QueueNext
    BY <2>8, <2>2 DEF Received
  <2>9. CASE QueueMoves \/ StartFails \/ DrainOne \/ WaitAll
    BY <2>9, <2>3, <2>4 DEF QueueMoves, StartFails, DrainOne, WaitAll
  <2>10. CASE \/ LndStops \/ ShutdownSignal \/ StopManager \/ ManagerStopped
              \/ Drained \/ QueueStopped \/ UNCHANGED errVars
    BY <2>10, <2>4 DEF LndStops, ShutdownSignal, StopManager, ManagerStopped,
                       Drained, QueueStopped, errVars
  <2> QED
    BY <1>2, <2>4, <2>5, <2>6, <2>7, <2>8, <2>9, <2>10
       DEF ErrNext, QueueStep, MainStep
<1> QED
    BY <1>1, <1>2, PTL DEF ErrSpec, FifoOrder, Fifo!Spec
-----------------------------------------------------------------------------
\* A uint64 is one, whatever is converted.
LEMMA Uint64Range == \A n \in Int : uint64(n) \in Uint64s
  BY BudgetAssumption, SMTT(20), Z3T(20) DEF uint64, Uint64s

\* A uint64 and its integer differ by a multiple of 2^64.
LEMMA Uint64Quotient == ASSUME NEW n \in Int PROVE \E k \in Int : n = uint64(n) + k * (2 * TwoTo63)
  <1>1. n \div (2 * TwoTo63) \in Int
    BY BudgetAssumption, SMTT(20), Z3T(20)
  <1>2. n = uint64(n) + (n \div (2 * TwoTo63)) * (2 * TwoTo63)
    BY BudgetAssumption, SMTT(20), Z3T(20) DEF uint64
  <1> QED BY <1>1, <1>2

\* A fact of arithmetic: a positive multiple is at least as large.
LEMMA MultipleGrows == ASSUME NEW m \in Nat, NEW k \in Int, k >= 1 PROVE k * m >= m
  BY SMTT(20), Z3T(20)

\* There is one uint64 that differs from an integer by a multiple of 2^64.
LEMMA Uint64Unique ==
    ASSUME NEW p \in Uint64s, NEW k \in Int, NEW n \in Int, n = p + k * (2 * TwoTo63)
    PROVE  uint64(n) = p
  <1> DEFINE M == 2 * TwoTo63
  <1>0. M \in Nat /\ p \in Int /\ 0 <= p /\ p < M
    BY BudgetAssumption, SMTT(20), Z3T(20) DEF Uint64s
  <1>1. PICK j \in Int : n = uint64(n) + j * M
    BY Uint64Quotient
  <1>2. uint64(n) \in Int /\ 0 <= uint64(n) /\ uint64(n) < M
    BY <1>0, Uint64Range, SMTT(20), Z3T(20) DEF Uint64s
  <1>3. n = p + k * M
    OBVIOUS
  <1> HIDE DEF M
  <1>4. /\ (k - j) * M = k * M - j * M /\ (j - k) * M = j * M - k * M
        /\ k * M \in Int /\ j * M \in Int
    BY <1>0, SMTT(20), Z3T(20)
  <1>5. CASE k > j
    <2>1. (k - j) * M >= M
      BY <1>0, <1>5, MultipleGrows, SMTT(20), Z3T(20)
    <2> QED BY <1>0, <1>1, <1>2, <1>3, <1>4, <2>1, SMTT(20), Z3T(20)
  <1>6. CASE k < j
    <2>1. (j - k) * M >= M
      BY <1>0, <1>6, MultipleGrows, SMTT(20), Z3T(20)
    <2> QED BY <1>0, <1>1, <1>2, <1>3, <1>4, <2>1, SMTT(20), Z3T(20)
  <1>7. CASE k = j
    <2>1. k * M = j * M
      BY <1>7
    <2> QED BY <1>0, <1>1, <1>2, <1>3, <1>4, <2>1, SMTT(20), Z3T(20)
  <1> QED BY <1>5, <1>6, <1>7, SMTT(20), Z3T(20)

\* A number that fits is not changed.
LEMMA Uint64Fits == \A n \in Uint64s : uint64(n) = n
  <1> TAKE n \in Uint64s
  <1>1. n \in Int /\ n = n + 0 * (2 * TwoTo63)
    BY BudgetAssumption, SMTT(20), Z3T(20) DEF Uint64s
  <1> QED BY <1>1, Uint64Unique, SMTT(20), Z3T(20)

\* Wrapping a sum once is enough.
LEMMA Uint64Sum == ASSUME NEW m \in Int, NEW n \in Int PROVE uint64(uint64(m) + n) = uint64(m + n)
  <1> DEFINE p == uint64(uint64(m) + n)
             M == 2 * TwoTo63
  <1>0. M \in Int /\ uint64(m) \in Int /\ m + n \in Int
    BY BudgetAssumption, Uint64Range, SMTT(20), Z3T(20) DEF Uint64s
  <1>1. uint64(m) + n \in Int
    BY <1>0, SMTT(20), Z3T(20)
  <1>2. PICK k \in Int : m = uint64(m) + k * M
    BY Uint64Quotient
  <1>3. PICK j \in Int : uint64(m) + n = p + j * M
    BY <1>1, Uint64Quotient
  <1>4. p \in Uint64s /\ p \in Int
    BY <1>1, Uint64Range, BudgetAssumption, SMTT(20), Z3T(20) DEF Uint64s
  <1> HIDE DEF p
  <1>5. m + n = p + (k + j) * M /\ k + j \in Int
    <2> HIDE DEF M
    <2>1. (k + j) * M = k * M + j * M /\ k * M \in Int /\ j * M \in Int /\ k + j \in Int
      BY <1>0, SMTT(20), Z3T(20)
    <2> QED BY <1>0, <1>2, <1>3, <1>4, <2>1, SMTT(20), Z3T(20)
  <1>6. uint64(m + n) = p
    BY <1>0, <1>4, <1>5, Uint64Unique
  <1> QED BY <1>6 DEF p

\* Nothing grows by wrapping.
LEMMA Uint64Leq == \A n \in Nat : uint64(n) <= n
  BY BudgetAssumption, SMTT(20), Z3T(20) DEF uint64

\* What has moved from pending to spent for each request.
Confirmed == [r \in Requests |-> IF node[r] = "published" THEN uint64(amount[r]) - entry[r] ELSE 0]

\* An entry holds the whole amount or nothing, and until lnd has ended a request
\* that it was given nothing releases the entry.
Accounted(r) ==
    /\ entry[r] \in {0, uint64(amount[r])}
    /\ rule[r] = "new" => entry[r] = 0
    /\ rule[r] = "pending" => entry[r] = uint64(amount[r])
    /\ rule[r] \in {"new", "pending", "refused"} => node[r] = "none"
    /\ node[r] = "open" => entry[r] = uint64(amount[r]) /\ rule[r] \in {"sent", "done"}
    /\ node[r] = "published" => amount[r] > 0

\* Without an overflow the totals are the sums, and within the budget.
Exact ==
    /\ pendingAmt = SumOver(entry, Requests)
    /\ spentAmt = SumOver(Confirmed, Requests)
    /\ spentAmt + pendingAmt <= AbsoluteAmtSats

\* What an overflow takes.
OverflowCause ==
    AbsoluteAmtSats >= TwoTo63 \/ \E r \in Requests : amount[r] < 0 /\ rule[r] # "new"

BudgetInv ==
    /\ BudgetTypeOK
    /\ \A r \in Requests : Accounted(r)
    /\ pendingAmt = uint64(SumOver(entry, Requests))
    /\ spentAmt <= SumOver(Confirmed, Requests)
    /\ ~wrapped => Exact
    /\ wrapped => OverflowCause

\* The rest of the type invariant: what is stored for each request.
RequestsTyped ==
    /\ entry \in [Requests -> Uint64s] /\ amount \in [Requests -> Amounts]
    /\ wrapped \in BOOLEAN
    /\ rule \in [Requests -> {"new", "pending", "refused", "sent", "done"}]
    /\ node \in [Requests -> {"none", "open", "published", "failed"}]

\* What the amounts of requests and their uint64s are.
LEMMA AmountsInt ==
    /\ Uint64s \subseteq Nat /\ 0 \in Uint64s
    /\ \A a \in Amounts : a \in Int /\ uint64(a) \in Uint64s /\ (a >= 0 => uint64(a) = a /\ a < TwoTo63)
  <1>1. Uint64s \subseteq Nat /\ 0 \in Uint64s
    BY BudgetAssumption, SMTT(20), Z3T(20) DEF Uint64s
  <1>2. \A a \in Amounts : a \in Int /\ (a >= 0 => a \in Uint64s /\ a < TwoTo63)
    BY BudgetAssumption, SMTT(20), Z3T(20) DEF Uint64s
  <1> QED BY <1>1, <1>2, Uint64Range, Uint64Fits

\* A fact of arithmetic that Zenon uses below.
LEMMA MinusSelf == \A n \in Nat : n - n = 0
  BY SMTT(20), Z3T(20)

\* What counts as spent of a request, before a step.
LEMMA ConfirmedAt ==
    \A r \in Requests :
       Confirmed[r] = IF node[r] = "published" THEN uint64(amount[r]) - entry[r] ELSE 0
  BY DEF Confirmed

\* What counts as spent of a request, after a step.
LEMMA ConfirmedAtNext ==
    \A r \in Requests :
       Confirmed'[r] = IF node'[r] = "published" THEN uint64(amount'[r]) - entry'[r] ELSE 0
  BY DEF Confirmed

\* The two totals are sums of naturals.
LEMMA TotalsNat ==
    ASSUME RequestsTyped, \A r \in Requests : Accounted(r)
    PROVE  /\ \A r \in Requests : /\ entry[r] \in Nat /\ amount[r] \in Int
                                  /\ uint64(amount[r]) \in Nat /\ Confirmed[r] \in Nat
           /\ SumOver(entry, Requests) \in Nat /\ SumOver(Confirmed, Requests) \in Nat
  <1>1. \A r \in Requests : entry[r] \in Nat /\ amount[r] \in Int /\ uint64(amount[r]) \in Nat
    BY AmountsInt DEF RequestsTyped
  <1>2. \A r \in Requests : Confirmed[r] \in Nat
    <2> TAKE r \in Requests
    <2>1. entry[r] \in {0, uint64(amount[r])}
      BY DEF Accounted
    <2> QED BY <1>1, <2>1, ConfirmedAt, SMTT(20), Z3T(20)
  <1> QED BY <1>1, <1>2, SumNat, BudgetAssumption

\* The totals of the next state are naturals as well.
LEMMA TotalsNatNext ==
    ASSUME RequestsTyped', \A r \in Requests : Accounted(r)'
    PROVE  /\ \A r \in Requests : entry'[r] \in Nat /\ Confirmed'[r] \in Nat
           /\ SumOver(entry', Requests) \in Nat /\ SumOver(Confirmed', Requests) \in Nat
  <1>1. \A r \in Requests : entry'[r] \in Nat /\ amount'[r] \in Int /\ uint64(amount'[r]) \in Nat
    BY AmountsInt DEF RequestsTyped
  <1>2. \A r \in Requests : Confirmed'[r] \in Nat
    <2> TAKE r \in Requests
    <2>1. entry'[r] \in {0, uint64(amount'[r])}
      BY DEF Accounted
    <2> QED BY <1>1, <2>1, ConfirmedAtNext, SMTT(20), Z3T(20)
  <1> QED BY <1>1, <1>2, SumNat, BudgetAssumption

\* What one changed entry does to the totals.
LEMMA EntryTotal ==
    ASSUME NEW r \in Requests, \A s \in Requests : entry[s] \in Int /\ entry'[s] \in Int,
           \A s \in Requests \ {r} : entry'[s] = entry[s]
    PROVE  SumOver(entry', Requests) = SumOver(entry, Requests) + (entry'[r] - entry[r])
  BY SumChange, BudgetAssumption, SMTT(20), Z3T(20)

\* A step that concerns one request changes the sum by its difference.
LEMMA ConfirmedTotal ==
    ASSUME NEW r \in Requests, \A s \in Requests : Confirmed[s] \in Int /\ Confirmed'[s] \in Int,
           \A s \in Requests \ {r} : Confirmed'[s] = Confirmed[s]
    PROVE  SumOver(Confirmed', Requests) = SumOver(Confirmed, Requests) + (Confirmed'[r] - Confirmed[r])
  BY SumChange, BudgetAssumption, SMTT(20), Z3T(20)

\* A step keeps the books if it changes one entry, adds the difference to the
\* pending total as a uint64, adds to the spent total at most what it confirms,
\* and does so exactly and within the budget if no sum overflows.
LEMMA BooksStep ==
    ASSUME BudgetInv, NEW r \in Requests,
           RequestsTyped', \A s \in Requests : Accounted(s)',
           \A s \in Requests \ {r} : entry'[s] = entry[s] /\ Confirmed'[s] = Confirmed[s],
           pendingAmt' = uint64(pendingAmt + (entry'[r] - entry[r])),
           spentAmt' \in Uint64s, spentAmt' <= spentAmt + (Confirmed'[r] - Confirmed[r]),
           ~wrapped' => /\ ~wrapped
                        /\ pendingAmt' = pendingAmt + (entry'[r] - entry[r])
                        /\ spentAmt' = spentAmt + (Confirmed'[r] - Confirmed[r])
                        /\ spentAmt' + pendingAmt' <= AbsoluteAmtSats,
           wrapped' => OverflowCause'
    PROVE  BudgetInv'
  <1>1. /\ \A s \in Requests : entry[s] \in Int /\ Confirmed[s] \in Int
        /\ SumOver(entry, Requests) \in Int /\ SumOver(Confirmed, Requests) \in Int
    BY TotalsNat, SMTT(20), Z3T(20) DEF BudgetInv, BudgetTypeOK, RequestsTyped
  <1>2. \A s \in Requests : entry'[s] \in Int /\ Confirmed'[s] \in Int
    BY TotalsNatNext, SMTT(20), Z3T(20)
  <1>3. SumOver(entry', Requests) = SumOver(entry, Requests) + (entry'[r] - entry[r])
    BY <1>1, <1>2, EntryTotal
  <1>4. SumOver(Confirmed', Requests) = SumOver(Confirmed, Requests) + (Confirmed'[r] - Confirmed[r])
    BY <1>1, <1>2, ConfirmedTotal
  <1>5. entry'[r] - entry[r] \in Int /\ Confirmed'[r] - Confirmed[r] \in Int
    BY <1>1, <1>2, SMTT(20), Z3T(20)
  <1>6. pendingAmt' = uint64(SumOver(entry', Requests))
    BY <1>1, <1>3, <1>5, Uint64Sum DEF BudgetInv
  <1>7. spentAmt' <= SumOver(Confirmed', Requests)
    <2>1. spentAmt \in Int /\ spentAmt' \in Int /\ spentAmt <= SumOver(Confirmed, Requests)
      BY AmountsInt, SMTT(20), Z3T(20) DEF BudgetInv, BudgetTypeOK
    <2> QED BY <1>1, <1>4, <1>5, <2>1, SMTT(20), Z3T(20)
  <1>8. ~wrapped' => Exact'
    BY <1>3, <1>4 DEF BudgetInv, Exact
  <1>9. pendingAmt' \in Uint64s
    <2>1. pendingAmt \in Int
      BY AmountsInt, SMTT(20), Z3T(20) DEF BudgetInv, BudgetTypeOK
    <2>2. pendingAmt + (entry'[r] - entry[r]) \in Int
      BY <1>5, <2>1, SMTT(20), Z3T(20)
    <2> QED BY <2>2, Uint64Range
  <1> QED BY <1>6, <1>7, <1>8, <1>9 DEF BudgetInv, BudgetTypeOK, RequestsTyped

\* A step keeps the books if it leaves them alone and forgets no request.
LEMMA BooksAlone ==
    ASSUME BudgetInv, UNCHANGED <<spentAmt, pendingAmt, entry, amount, wrapped>>,
           RequestsTyped', \A s \in Requests : Accounted(s)', Confirmed' = Confirmed,
           \A s \in Requests : rule[s] # "new" => rule'[s] # "new"
    PROVE  BudgetInv'
  <1>1. wrapped' => OverflowCause'
    BY DEF BudgetInv, OverflowCause
  <1>2. ~wrapped' => Exact'
    BY DEF BudgetInv, Exact
  <1> QED BY <1>1, <1>2 DEF BudgetInv, BudgetTypeOK, RequestsTyped

\* Nothing is spent or pending at first.
LEMMA BudgetInitInv == ASSUME BudgetInit PROVE BudgetInv
  <1>1. RequestsTyped /\ \A r \in Requests : Accounted(r)
    BY AmountsInt DEF BudgetInit, RequestsTyped, Accounted
  <1>2. \A r \in Requests : entry[r] = 0 /\ Confirmed[r] = 0
    BY DEF BudgetInit, Confirmed
  <1>3. SumOver(entry, Requests) = SumOver(entry, {}) /\ SumOver(Confirmed, Requests) = SumOver(Confirmed, {})
    BY <1>2, SumSupport, BudgetAssumption, SMTT(20), Z3T(20)
  <1>4. SumOver(entry, Requests) = 0 /\ SumOver(Confirmed, Requests) = 0
    BY <1>3, SumEmpty
  <1>5. uint64(0) = 0 /\ 0 \in Uint64s
    BY AmountsInt, Uint64Fits
  <1>6. Exact
    BY <1>4, BudgetAssumption, SMTT(20), Z3T(20) DEF BudgetInit, Exact
  <1>7. spentAmt <= SumOver(Confirmed, Requests)
    BY <1>4, SMTT(20), Z3T(20) DEF BudgetInit
  <1> QED BY <1>1, <1>4, <1>5, <1>6, <1>7 DEF BudgetInit, BudgetInv, BudgetTypeOK, RequestsTyped

\* What the steps below use of the invariant.
LEMMA BudgetInvFacts ==
    ASSUME BudgetInv, NEW r \in Requests
    PROVE  /\ RequestsTyped /\ \A s \in Requests : Accounted(s)
           /\ spentAmt \in Nat /\ pendingAmt \in Nat /\ entry[r] \in Nat
           /\ amount[r] \in Int /\ uint64(amount[r]) \in Nat /\ Confirmed[r] \in Nat
  <1>1. RequestsTyped /\ \A s \in Requests : Accounted(s)
    BY DEF BudgetInv, BudgetTypeOK, RequestsTyped
  <1>2. spentAmt \in Nat /\ pendingAmt \in Nat
    BY AmountsInt DEF BudgetInv, BudgetTypeOK
  <1> QED BY <1>1, <1>2, TotalsNat

\* What the check of the budget means if its sum does not overflow, and what it
\* takes for the sum to overflow for the first time.
LEMMA AdmissionSums ==
    ASSUME NEW s \in Nat, NEW p \in Nat, NEW a \in Amounts,
           uint64(s + p + uint64(a)) <= AbsoluteAmtSats
    PROVE  /\ s + p + uint64(a) < 2 * TwoTo63 =>
                 uint64(p + uint64(a)) = p + uint64(a) /\ s + (p + uint64(a)) <= AbsoluteAmtSats
           /\ s + p + uint64(a) >= 2 * TwoTo63 /\ s + p <= AbsoluteAmtSats =>
                 AbsoluteAmtSats >= TwoTo63 \/ a < 0
  <1>0. a \in Int /\ uint64(a) \in Nat /\ (a >= 0 => uint64(a) < TwoTo63)
    BY AmountsInt
  <1> DEFINE u == uint64(a)
  <1>1. u \in Nat
    BY <1>0
  <1> HIDE DEF u
  <1>2. ASSUME s + p + u < 2 * TwoTo63
        PROVE  s + p + u \in Uint64s /\ p + u \in Uint64s
    BY <1>1, <1>2, BudgetAssumption, SMTT(20), Z3T(20) DEF Uint64s
  <1>3. ASSUME s + p + u < 2 * TwoTo63
        PROVE  uint64(p + u) = p + u /\ s + (p + u) <= AbsoluteAmtSats
    <2>1. uint64(p + u) = p + u /\ uint64(s + p + u) = s + p + u
      BY <1>2, <1>3, Uint64Fits
    <2>2. s + p + u <= AbsoluteAmtSats
      BY <2>1 DEF u
    <2> QED BY <1>1, <2>1, <2>2, BudgetAssumption, SMTT(20), Z3T(20)
  <1>4. ASSUME s + p + u >= 2 * TwoTo63, s + p <= AbsoluteAmtSats
        PROVE  AbsoluteAmtSats >= TwoTo63 \/ a < 0
    <2>1. AbsoluteAmtSats >= TwoTo63 \/ u >= TwoTo63
      BY <1>1, <1>4, BudgetAssumption, SMTT(20), Z3T(20)
    <2>2. u >= TwoTo63 => a < 0
      BY <1>0, <1>1, BudgetAssumption, SMTT(20), Z3T(20) DEF u
    <2> QED BY <2>1, <2>2
  <1> QED BY <1>3, <1>4 DEF u

\* HandleRequest adds an entry only if the budget has room for it.
LEMMA HandleRequestInv == ASSUME BudgetInv, NEW r \in Requests, HandleRequest(r) PROVE BudgetInv'
  <1>0. /\ RequestsTyped /\ \A s \in Requests : Accounted(s)
        /\ spentAmt \in Nat /\ pendingAmt \in Nat
        /\ amount[r] \in Amounts /\ uint64(amount[r]) \in Nat /\ Confirmed[r] \in Nat
    BY BudgetInvFacts DEF RequestsTyped
  <1>1. CASE rule' = [rule EXCEPT ![r] = "refused"] /\ UNCHANGED <<entry, pendingAmt, wrapped>>
    <2>1. RequestsTyped' /\ \A s \in Requests : Accounted(s)'
      BY <1>0, <1>1 DEF HandleRequest, RequestsTyped, Accounted
    <2>2. Confirmed' = Confirmed
      BY <1>1 DEF HandleRequest, Confirmed
    <2>3. \A s \in Requests : rule[s] # "new" => rule'[s] # "new"
      BY <1>0, <1>1 DEF RequestsTyped
    <2> QED BY <1>1, <2>1, <2>2, <2>3, BooksAlone DEF HandleRequest
  <1>2. CASE /\ Affordable(uint64(amount[r])) /\ entry[r] = 0
             /\ entry' = [entry EXCEPT ![r] = uint64(amount[r])]
             /\ pendingAmt' = uint64(pendingAmt + uint64(amount[r]))
             /\ wrapped' = (wrapped \/ spentAmt + pendingAmt + uint64(amount[r]) >= 2 * TwoTo63)
             /\ rule' = [rule EXCEPT ![r] = "pending"]
    <2>0. /\ spentAmt + pendingAmt + uint64(amount[r]) < 2 * TwoTo63 =>
                /\ uint64(pendingAmt + uint64(amount[r])) = pendingAmt + uint64(amount[r])
                /\ spentAmt + (pendingAmt + uint64(amount[r])) <= AbsoluteAmtSats
          /\ spentAmt + pendingAmt + uint64(amount[r]) >= 2 * TwoTo63
             /\ spentAmt + pendingAmt <= AbsoluteAmtSats =>
                AbsoluteAmtSats >= TwoTo63 \/ amount[r] < 0
      BY <1>0, <1>2, AdmissionSums DEF Affordable
    <2>1. RequestsTyped'
      BY <1>0, <1>2, AmountsInt DEF HandleRequest, RequestsTyped
    <2>2. \A s \in Requests : Accounted(s)'
      BY <1>0, <1>2 DEF HandleRequest, RequestsTyped, Accounted
    <2>3. /\ \A s \in Requests \ {r} : entry'[s] = entry[s] /\ Confirmed'[s] = Confirmed[s]
          /\ entry'[r] = uint64(amount[r]) /\ Confirmed'[r] = Confirmed[r]
      <3>1. \A s \in Requests : entry'[s] = IF s = r THEN uint64(amount[r]) ELSE entry[s]
        BY <1>0, <1>2 DEF RequestsTyped
      <3>2. node[r] = "none" /\ UNCHANGED <<amount, node>>
        BY <1>0 DEF HandleRequest, Accounted
      <3>3. \A s \in Requests : Confirmed'[s] = Confirmed[s]
        BY <3>1, <3>2, ConfirmedAt, ConfirmedAtNext
      <3> QED BY <3>1, <3>3
    <2>4. entry'[r] - entry[r] = uint64(amount[r]) /\ Confirmed'[r] - Confirmed[r] = 0
      <3>1. entry'[r] = uint64(amount[r]) /\ Confirmed'[r] = Confirmed[r]
        BY <2>3
      <3> QED BY <1>0, <1>2, <3>1, SMTT(20), Z3T(20)
    <2>5. spentAmt' = spentAmt /\ spentAmt \in Uint64s /\ spentAmt + 0 = spentAmt /\ spentAmt <= spentAmt
      <3>1. spentAmt' = spentAmt /\ spentAmt \in Uint64s
        BY DEF HandleRequest, BudgetInv, BudgetTypeOK
      <3> QED BY <1>0, <3>1, SMTT(20), Z3T(20)
    <2>6. ~wrapped' => /\ ~wrapped
                       /\ pendingAmt' = pendingAmt + uint64(amount[r])
                       /\ spentAmt' + pendingAmt' <= AbsoluteAmtSats
      <3>1. ASSUME ~wrapped' PROVE ~wrapped /\ spentAmt + pendingAmt + uint64(amount[r]) < 2 * TwoTo63
        <4>1. ~wrapped /\ ~(spentAmt + pendingAmt + uint64(amount[r]) >= 2 * TwoTo63)
          BY <1>2, <3>1
        <4> QED BY <1>0, <4>1, BudgetAssumption, SMTT(20), Z3T(20)
      <3> QED BY <1>2, <2>0, <2>5, <3>1
    <2>7. wrapped' => OverflowCause'
      <3>1. /\ \A s \in Requests : rule[s] # "new" => rule'[s] # "new"
            /\ rule'[r] # "new" /\ amount' = amount
        BY <1>0, <1>2 DEF HandleRequest, RequestsTyped
      <3>2. OverflowCause => OverflowCause'
        BY <3>1 DEF OverflowCause
      <3>3. ~wrapped => spentAmt + pendingAmt <= AbsoluteAmtSats
        BY DEF BudgetInv, Exact
      <3>4. wrapped => OverflowCause
        BY DEF BudgetInv
      <3> QED BY <1>2, <2>0, <3>1, <3>2, <3>3, <3>4 DEF OverflowCause
    <2>8. /\ pendingAmt' = uint64(pendingAmt + (entry'[r] - entry[r]))
          /\ spentAmt' = spentAmt + (Confirmed'[r] - Confirmed[r])
          /\ spentAmt' <= spentAmt + (Confirmed'[r] - Confirmed[r])
          /\ ~wrapped' => pendingAmt' = pendingAmt + (entry'[r] - entry[r])
      BY <1>2, <2>4, <2>5, <2>6
    <2> QED BY <2>1, <2>2, <2>3, <2>5, <2>6, <2>7, <2>8, BooksStep
  <1> QED BY <1>1, <1>2 DEF HandleRequest, addPendingAmt

\* Taking an amount off a uint64 total that covers it.
LEMMA Uint64Minus ==
    ASSUME NEW p \in Uint64s, NEW e \in Nat, p >= e
    PROVE  uint64(p + (0 - e)) = p - e /\ p + (0 - e) = p - e
  <1>1. p - e \in Uint64s /\ p + (0 - e) = p - e
    BY BudgetAssumption, SMTT(20), Z3T(20) DEF Uint64s
  <1> QED BY <1>1, Uint64Fits

\* A handler that ends a request and leaves the books alone, because another
\* rule's error came first or its transaction failed.
LEMMA EndsInv ==
    ASSUME BudgetInv, NEW r \in Requests, rule[r] \in {"refused", "sent"},
           rule' = [rule EXCEPT ![r] = "done"] \/ UNCHANGED rule,
           UNCHANGED <<spentAmt, pendingAmt, entry, amount, wrapped, node>>
    PROVE  BudgetInv'
  <1>0. RequestsTyped /\ \A s \in Requests : Accounted(s)
    BY BudgetInvFacts
  <1>1. RequestsTyped'
    BY <1>0 DEF RequestsTyped
  <1>2. \A s \in Requests : Accounted(s)'
    BY <1>0 DEF RequestsTyped, Accounted
  <1>3. Confirmed' = Confirmed
    BY DEF Confirmed
  <1>4. \A s \in Requests : rule[s] # "new" => rule'[s] # "new"
    BY <1>0 DEF RequestsTyped
  <1> QED BY <1>1, <1>2, <1>3, <1>4, BooksAlone

\* Cancelling the entry of a request that lnd has not published keeps the books.
LEMMA CancelInv ==
    ASSUME BudgetInv, NEW r \in Requests, cancelPendingPayment(r), rule[r] \in {"refused", "sent"},
           rule' = [rule EXCEPT ![r] = "done"], UNCHANGED <<spentAmt, amount, wrapped, node>>,
           node[r] \in {"none", "failed"}
    PROVE  BudgetInv'
  <1>0. /\ RequestsTyped /\ \A s \in Requests : Accounted(s)
        /\ spentAmt \in Nat /\ pendingAmt \in Nat /\ entry[r] \in Nat /\ Confirmed[r] \in Nat
    BY BudgetInvFacts
  <1>1. CASE /\ pendingAmt >= entry[r]
             /\ entry' = [entry EXCEPT ![r] = 0] /\ pendingAmt' = pendingAmt - entry[r]
    <2>1. RequestsTyped'
      BY <1>0, <1>1, AmountsInt DEF RequestsTyped
    <2>2. \A s \in Requests : Accounted(s)'
      BY <1>0, <1>1 DEF RequestsTyped, Accounted
    <2>3. /\ \A s \in Requests \ {r} : entry'[s] = entry[s] /\ Confirmed'[s] = Confirmed[s]
          /\ entry'[r] = 0 /\ Confirmed'[r] = Confirmed[r]
      BY <1>0, <1>1, ConfirmedAt, ConfirmedAtNext DEF RequestsTyped
    <2>4. /\ pendingAmt' = uint64(pendingAmt + (entry'[r] - entry[r]))
          /\ pendingAmt' = pendingAmt + (entry'[r] - entry[r])
      BY <1>0, <1>1, <2>3, Uint64Minus DEF BudgetInv, BudgetTypeOK
    <2>5. /\ spentAmt' = spentAmt + (Confirmed'[r] - Confirmed[r])
          /\ spentAmt' <= spentAmt + (Confirmed'[r] - Confirmed[r])
      BY <1>0, <2>3, SMTT(20), Z3T(20)
    <2>6. spentAmt' \in Uint64s
      BY DEF BudgetInv, BudgetTypeOK
    <2>7. ~wrapped' => ~wrapped /\ spentAmt' + pendingAmt' <= AbsoluteAmtSats
      <3>1. ~wrapped => spentAmt + pendingAmt <= AbsoluteAmtSats
        BY DEF BudgetInv, Exact
      <3> QED BY <1>0, <1>1, <3>1, BudgetAssumption, SMTT(20), Z3T(20)
    <2>8. wrapped' => OverflowCause'
      BY <1>0 DEF BudgetInv, OverflowCause, RequestsTyped
    <2> QED BY <2>1, <2>2, <2>3, <2>4, <2>5, <2>6, <2>7, <2>8, BooksStep
  <1>2. CASE UNCHANGED <<entry, pendingAmt>>
    BY <1>2, EndsInv
  <1> QED BY <1>1, <1>2 DEF cancelPendingPayment

\* A response moves an amount from pending to spent, or drops it, once.
LEMMA HandleResponseInv == ASSUME BudgetInv, NEW r \in Requests, HandleResponse(r) PROVE BudgetInv'
  <1>0. /\ RequestsTyped /\ \A s \in Requests : Accounted(s)
        /\ spentAmt \in Nat /\ pendingAmt \in Nat /\ entry[r] \in Nat
        /\ uint64(amount[r]) \in Nat
    BY BudgetInvFacts
  <1>1. CASE /\ pendingAmt >= entry[r]
             /\ entry' = [entry EXCEPT ![r] = 0] /\ pendingAmt' = pendingAmt - entry[r]
             /\ spentAmt' = uint64(spentAmt + entry[r]) /\ UNCHANGED rule
    <2>1. RequestsTyped'
      BY <1>0, <1>1, AmountsInt DEF HandleResponse, RequestsTyped
    <2>2. \A s \in Requests : Accounted(s)'
      BY <1>0, <1>1 DEF HandleResponse, RequestsTyped, Accounted
    <2>3. Confirmed[r] = uint64(amount[r]) - entry[r]
      BY DEF HandleResponse, Confirmed
    <2>4. entry'[r] = 0 /\ \A s \in Requests \ {r} : entry'[s] = entry[s]
      BY <1>0, <1>1 DEF RequestsTyped
    <2>5. Confirmed'[r] = uint64(amount[r]) - 0 /\ \A s \in Requests \ {r} : Confirmed'[s] = Confirmed[s]
      <3>1. node[r] = "published" /\ UNCHANGED <<node, amount>>
        BY DEF HandleResponse
      <3>2. Confirmed'[r] = uint64(amount[r]) - 0
        BY <2>4, <3>1, ConfirmedAtNext
      <3>3. ASSUME NEW s \in Requests \ {r} PROVE Confirmed'[s] = Confirmed[s]
        BY <2>4, <3>1, ConfirmedAt, ConfirmedAtNext
      <3> QED BY <3>2, <3>3
    <2>6. /\ pendingAmt' = uint64(pendingAmt + (entry'[r] - entry[r]))
          /\ pendingAmt' = pendingAmt + (entry'[r] - entry[r])
      BY <1>0, <1>1, <2>4, Uint64Minus DEF BudgetInv, BudgetTypeOK
    <2>7. /\ spentAmt + entry[r] = spentAmt + (Confirmed'[r] - Confirmed[r])
          /\ spentAmt + entry[r] \in Nat
      BY <1>0, <2>3, <2>5, SMTT(20), Z3T(20)
    <2>8. spentAmt' \in Uint64s /\ spentAmt' <= spentAmt + (Confirmed'[r] - Confirmed[r])
      <3>1. spentAmt + entry[r] \in Int
        BY <1>0, SMTT(20), Z3T(20)
      <3> QED BY <1>1, <2>7, <3>1, Uint64Range, Uint64Leq
    <2>9. ~wrapped' => /\ ~wrapped
                       /\ spentAmt' = spentAmt + (Confirmed'[r] - Confirmed[r])
                       /\ spentAmt' + pendingAmt' <= AbsoluteAmtSats
      <3> SUFFICES ASSUME ~wrapped'
                   PROVE  /\ ~wrapped
                          /\ spentAmt' = spentAmt + (Confirmed'[r] - Confirmed[r])
                          /\ spentAmt' + pendingAmt' <= AbsoluteAmtSats
        OBVIOUS
      <3>1. ~wrapped /\ spentAmt + pendingAmt <= AbsoluteAmtSats
        BY DEF HandleResponse, BudgetInv, Exact
      <3>2. spentAmt + entry[r] \in Uint64s
        BY <1>0, <1>1, <3>1, BudgetAssumption, SMTT(20), Z3T(20) DEF Uint64s
      <3>3. spentAmt' = spentAmt + entry[r]
        BY <1>1, <3>2, Uint64Fits
      <3>4. spentAmt' + pendingAmt' <= AbsoluteAmtSats
        BY <1>0, <1>1, <3>1, <3>3, BudgetAssumption, SMTT(20), Z3T(20)
      <3> QED BY <2>7, <3>1, <3>3, <3>4
    <2>10. wrapped' => OverflowCause'
      BY <1>1 DEF HandleResponse, BudgetInv, OverflowCause
    <2> QED BY <2>1, <2>2, <2>4, <2>5, <2>6, <2>8, <2>9, <2>10, BooksStep
  <1>2. CASE /\ rule' = [rule EXCEPT ![r] = "done"] \/ UNCHANGED rule
             /\ UNCHANGED <<spentAmt, pendingAmt, entry>>
    BY <1>2, EndsInv DEF HandleResponse
  <1> QED BY <1>1, <1>2 DEF HandleResponse, handlePaymentConfirmed

\* Steps that leave the books alone.
LEMMA OtherStepInv ==
    ASSUME BudgetInv, UNCHANGED <<spentAmt, pendingAmt, entry, amount, wrapped>>,
           \/ \E r \in Requests : OtherRuleRefuses(r) \/ ForwardRequest(r) \/ NodeEnds(r)
           \/ BudgetCrash \/ UNCHANGED budgetVars
    PROVE  BudgetInv'
  <1>0. RequestsTyped /\ \A s \in Requests : Accounted(s)
    BY DEF BudgetInv, BudgetTypeOK, RequestsTyped
  <1>1. RequestsTyped'
    BY <1>0 DEF RequestsTyped, OtherRuleRefuses, ForwardRequest, NodeEnds, BudgetCrash, budgetVars
  <1>2. \A s \in Requests : Accounted(s)'
    <2>1. ASSUME NEW r \in Requests, OtherRuleRefuses(r) \/ ForwardRequest(r)
          PROVE  \A s \in Requests : Accounted(s)'
      BY <1>0, <2>1 DEF RequestsTyped, Accounted, OtherRuleRefuses, ForwardRequest
    <2>2. ASSUME NEW r \in Requests, NodeEnds(r) PROVE \A s \in Requests : Accounted(s)'
      BY <1>0, <2>2 DEF RequestsTyped, Accounted, NodeEnds
    <2>3. CASE BudgetCrash
      BY <1>0, <2>3 DEF RequestsTyped, Accounted, BudgetCrash
    <2>4. CASE UNCHANGED budgetVars
      BY <1>0, <2>4 DEF Accounted, budgetVars
    <2> QED BY <2>1, <2>2, <2>3, <2>4
  <1>3. Confirmed' = Confirmed
    <2>1. ASSUME NEW r \in Requests, NodeEnds(r) PROVE Confirmed' = Confirmed
      <3>1. uint64(amount[r]) - entry[r] = 0
        <4>1. entry[r] = uint64(amount[r]) /\ uint64(amount[r]) \in Nat
          BY <1>0, <2>1, AmountsInt DEF NodeEnds, Accounted, RequestsTyped
        <4> QED BY <4>1, MinusSelf
      <3> QED BY <1>0, <2>1, <3>1 DEF NodeEnds, Confirmed, RequestsTyped
    <2>2. ASSUME NEW r \in Requests, ForwardRequest(r) PROVE Confirmed' = Confirmed
      BY <1>0, <2>2 DEF ForwardRequest, Confirmed, RequestsTyped, Accounted
    <2>3. CASE UNCHANGED node
      BY <2>3 DEF Confirmed
    <2> QED BY <2>1, <2>2, <2>3 DEF OtherRuleRefuses, BudgetCrash, budgetVars
  <1>4. \A s \in Requests : rule[s] # "new" => rule'[s] # "new"
    BY <1>0 DEF RequestsTyped, OtherRuleRefuses, ForwardRequest, NodeEnds, BudgetCrash, budgetVars
  <1> QED BY <1>1, <1>2, <1>3, <1>4, BooksAlone

\* The books stay right after every step.
LEMMA BudgetStepInv == ASSUME BudgetInv, [BudgetNext]_budgetVars PROVE BudgetInv'
  <1>1. ASSUME NEW r \in Requests, RollBack(r) PROVE BudgetInv'
    <2>1. node[r] = "none"
      BY <1>1 DEF RollBack, BudgetInv, Accounted
    <2> QED BY <1>1, <2>1, CancelInv DEF RollBack
  <1>2. ASSUME NEW r \in Requests, HandleErrorResponse(r) PROVE BudgetInv'
    BY <1>2, CancelInv, EndsInv DEF HandleErrorResponse
  <1>3. ASSUME NEW r \in Requests, OtherRuleRefuses(r) \/ ForwardRequest(r) \/ NodeEnds(r)
        PROVE  BudgetInv'
    <2>1. UNCHANGED <<spentAmt, pendingAmt, entry, amount, wrapped>>
      BY <1>3 DEF OtherRuleRefuses, ForwardRequest, NodeEnds
    <2> QED BY <1>3, <2>1, OtherStepInv
  <1>4. CASE BudgetCrash \/ UNCHANGED budgetVars
    <2>1. UNCHANGED <<spentAmt, pendingAmt, entry, amount, wrapped>>
      BY <1>4 DEF BudgetCrash, budgetVars
    <2> QED BY <1>4, <2>1, OtherStepInv
  <1> QED BY <1>1, <1>2, <1>3, <1>4, HandleRequestInv, HandleResponseInv DEF BudgetNext

\* What lnd spends on a request, and that the amount covers it.
LEMMA SpendsAt ==
    ASSUME BudgetInv, NEW r \in Requests
    PROVE  /\ Spends[r] \in Nat /\ Spends[r] <= uint64(amount[r])
           /\ amount[r] > 0 => Spends[r] = uint64(amount[r])
  <1>1. Spends[r] = IF amount[r] > 0 THEN amount[r] ELSE 0
    BY DEF Spends
  <1>2. amount[r] \in Int /\ uint64(amount[r]) \in Nat /\ (amount[r] >= 0 => uint64(amount[r]) = amount[r])
    <2>1. amount[r] \in Amounts
      BY BudgetInvFacts DEF RequestsTyped
    <2> QED BY <2>1, AmountsInt
  <1> QED BY <1>1, <1>2, SMTT(20), Z3T(20)

\* What the requests in lnd's hands amount to is covered by the two totals.
LEMMA BudgetInvHolds == ASSUME BudgetInv PROVE BudgetHolds
  <1> DEFINE Live == {r \in Requests : node[r] \in {"open", "published"}}
             Charged == [r \in Requests |-> entry[r] + Confirmed[r]]
  <1>0. \A r \in Requests : /\ entry[r] \in Nat /\ Confirmed[r] \in Nat
                            /\ uint64(amount[r]) \in Nat /\ Spends[r] \in Nat
    BY BudgetInvFacts, SpendsAt
  <1>1. Live \in SUBSET Requests /\ IsFiniteSet(Live)
    BY FiniteSubset, BudgetAssumption
  <1>2. \A r \in Live : Spends[r] <= Charged[r]
    <2>1. ASSUME NEW r \in Live PROVE Spends[r] <= entry[r] + Confirmed[r]
      <3>1. Confirmed[r] = IF node[r] = "published" THEN uint64(amount[r]) - entry[r] ELSE 0
        BY DEF Confirmed
      <3>2. node[r] = "open" => entry[r] = uint64(amount[r])
        BY DEF BudgetInv, Accounted
      <3>3. uint64(amount[r]) = entry[r] + Confirmed[r]
        BY <1>0, <3>1, <3>2, SMTT(20), Z3T(20)
      <3> QED BY <3>3, SpendsAt
    <2> QED BY <2>1
  <1>3. \A r \in Requests : Charged[r] \in Nat /\ Charged[r] = entry[r] + Confirmed[r]
    BY <1>0, SMTT(20), Z3T(20)
  <1> HIDE DEF Charged, Live
  <1>4. SumOver(Spends, Live) <= SumOver(Charged, Live)
    BY <1>0, <1>1, <1>2, <1>3, SumLeq, SMTT(20), Z3T(20)
  <1>5. SumOver(Charged, Live) <= SumOver(Charged, Requests)
    BY <1>1, <1>3, SumMonotonic, BudgetAssumption
  <1>6. SumOver(Charged, Requests) = SumOver(entry, Requests) + SumOver(Confirmed, Requests)
    BY <1>0, <1>3, SumPlus, BudgetAssumption, SMTT(20), Z3T(20)
  <1>7. /\ SumOver(Spends, Live) \in Nat /\ SumOver(Charged, Live) \in Nat
        /\ SumOver(entry, Requests) \in Nat /\ SumOver(Confirmed, Requests) \in Nat
    BY <1>0, <1>1, <1>3, SumNat, BudgetAssumption
  <1>8. ~wrapped => SumOver(Spends, Live) <= AbsoluteAmtSats
    <2>1. ~wrapped => SumOver(Confirmed, Requests) + SumOver(entry, Requests) <= AbsoluteAmtSats
      BY DEF BudgetInv, Exact
    <2> QED BY <1>4, <1>5, <1>6, <1>7, <2>1, BudgetAssumption, SMTT(20), Z3T(20)
  <1>9. wrapped => OverflowCause
    BY DEF BudgetInv
  <1> QED BY <1>8, <1>9 DEF BudgetHolds, OverflowCause, Live, Total, SumOver

\* The totals agree with the entries and with what lnd has published.
LEMMA BudgetInvBooks == ASSUME BudgetInv PROVE BooksAreRight
  <1> DEFINE Published == {r \in Requests : node[r] = "published"}
  <1>0. \A r \in Requests : Confirmed[r] \in Int /\ Spends[r] \in Int
    BY BudgetInvFacts, SpendsAt, SMTT(20), Z3T(20)
  <1>1. Published \in SUBSET Requests /\ IsFiniteSet(Published)
    BY FiniteSubset, BudgetAssumption
  <1>2. \A r \in Requests \ Published : Confirmed[r] = 0
    BY DEF Confirmed
  <1>3. \A r \in Published : Confirmed[r] <= Spends[r]
    <2> TAKE r \in Published
    <2>1. Confirmed[r] = uint64(amount[r]) - entry[r]
      BY DEF Confirmed
    <2>2. Spends[r] = uint64(amount[r])
      BY SpendsAt DEF BudgetInv, Accounted
    <2>3. entry[r] \in Nat /\ uint64(amount[r]) \in Nat
      BY BudgetInvFacts
    <2> QED BY <2>1, <2>2, <2>3, SMTT(20), Z3T(20)
  <1> HIDE DEF Published
  <1>4. SumOver(Confirmed, Requests) = SumOver(Confirmed, Published)
    BY <1>0, <1>1, <1>2, SumSupport, BudgetAssumption, SMTT(20), Z3T(20)
  <1>5. SumOver(Confirmed, Published) <= SumOver(Spends, Published)
    BY <1>0, <1>1, <1>3, SumLeq, SMTT(20), Z3T(20)
  <1>6. spentAmt <= SumOver(Spends, Published)
    <2>1. spentAmt <= SumOver(Confirmed, Published)
      BY <1>4 DEF BudgetInv
    <2>2. SumOver(Confirmed, Published) \in Int /\ SumOver(Spends, Published) \in Int
      BY <1>0, <1>1, SumInt
    <2>3. spentAmt \in Int
      BY AmountsInt, SMTT(20), Z3T(20) DEF BudgetInv, BudgetTypeOK
    <2> QED BY <1>5, <2>1, <2>2, <2>3, SMTT(20), Z3T(20)
  <1>7. pendingAmt = uint64(SumOver(entry, Requests)) /\ (~wrapped => pendingAmt = SumOver(entry, Requests))
    BY DEF BudgetInv, Exact
  <1> QED BY <1>6, <1>7 DEF BooksAreRight, Published, Total, SumOver

\* The invariant from which the two theorems follow.
LEMMA BudgetInvariant == BudgetSpec => []BudgetInv
  <1>1. BudgetInit => BudgetInv
    BY BudgetInitInv
  <1>2. BudgetInv /\ [BudgetNext]_budgetVars => BudgetInv'
    BY BudgetStepInv
  <1> QED BY <1>1, <1>2, PTL DEF BudgetSpec

\* The on-chain budget is kept by every interleaving of requests, refusals,
\* responses and crashes, for any int64 amounts, as long as no sum compared with
\* it overflows, which takes a negative amount or a budget of 2^63 or more
\* (rules/onchain_budget.go).
THEOREM BudgetTheorem == BudgetSpec => []BudgetHolds
  <1>1. BudgetInv => BudgetHolds
    BY BudgetInvHolds
  <1> QED BY <1>1, BudgetInvariant, PTL

\* The stored totals agree with the stored entries, modulo their width, and with
\* what lnd published, after an overflow too.
THEOREM BooksTheorem == BudgetSpec => []BooksAreRight
  <1>1. BudgetInv => BooksAreRight
    BY BudgetInvBooks
  <1> QED BY <1>1, BudgetInvariant, PTL
=============================================================================
