--------------------------- MODULE PlaybackProofs ---------------------------
(***************************************************************************)
(* Proofs about Playback for every number of services, loads, tracks and   *)
(* queues.                                                                 *)
(***************************************************************************)
EXTENDS Playback, TLAPS

\* NextIndexes (_pickNextIndex) never leaves the queue.
LEMMA NextIndexesInQueue ==
  ASSUME NEW n, NEW i, NEW repeat, NEW shuffle, NEW auto,
         NEW j \in NextIndexes(n, i, repeat, shuffle, auto)
  PROVE  j \in 0 .. n - 1
BY DEF NextIndexes

\* Every queue the user can start is a non-empty sequence of tracks.
LEMMA QueueShape ==
  ASSUME NEW q \in Queues \cup {<< >>}
  PROVE  /\ q \in Seq(Tracks)
         /\ Len(q) \in Nat
         /\ \A i \in Int : HasCurrent(q, i) => Current(q, i) \in Tracks
<1>1. q \in Seq(Tracks)
  <2>1. << >> \in Seq(Tracks)
    OBVIOUS
  <2>2. QED
    BY <2>1, PlaybackAssumption
<1>2. Len(q) \in Nat
  BY <1>1
<1>3. ASSUME NEW i \in Int, HasCurrent(q, i) PROVE Current(q, i) \in Tracks
  BY <1>1, <1>2, <1>3 DEF HasCurrent, Current
<1>4. QED
  BY <1>1, <1>2, <1>3

\* The components of vars that an action of the user or of a load may share.
USE DEF snapVars, loadVars, sessVars, mediaVars

\* Updating one entry of a function of functions: its type and its values.
LEMMA NestedUpdate ==
  ASSUME NEW S, NEW T, NEW V, NEW f \in [S -> [T -> V]],
         NEW s \in S, NEW t \in T, NEW v \in V
  PROVE  /\ [f EXCEPT ![s][t] = v] \in [S -> [T -> V]]
         /\ \A a \in S, b \in T :
              [f EXCEPT ![s][t] = v][a][b] = IF a = s /\ b = t THEN v ELSE f[a][b]
<1>1. [f[s] EXCEPT ![t] = v] \in [T -> V]
  OBVIOUS
<1>2. QED
  BY <1>1

-----------------------------------------------------------------------------
(* Type correctness. *)

LEMMA InitType == Init => TypeOK
<1> SUFFICES ASSUME Init PROVE TypeOK
  OBVIOUS
<1> USE PlaybackAssumption DEF Init
<1>1. /\ queue \in [Services -> Queues \cup {<< >>}]
      /\ index \in [Services -> Int]
      /\ \A s \in Services : index[s] \in -1 .. Len(queue[s]) - 1
  OBVIOUS
<1>2. /\ mode \in [Services -> Mode]
      /\ peersOf \in [Services -> Gens \cup {None}]
      /\ phase \in [Services -> {"unborn", "alive", "unlistening", "stopping", "closed"}]
      /\ gen \in [Services -> 0 .. MaxGen]
  BY DEF Mode, RepeatModes
<1>3. /\ pc \in [Services -> [Gens -> Stages]]
      /\ track \in [Services -> [Gens -> Tracks \cup {NoTrack}]]
      /\ prev \in [Services -> [Gens -> Gens \cup {None}]]
      /\ prevSub \in [Services -> [Gens -> Gens \cup {None}]]
  BY DEF Stages
<1>4. /\ active \in [Services -> Gens \cup {None}]
      /\ activeSub \in [Services -> Gens \cup {None}]
      /\ sess \in [Services -> [Gens -> {"none", "open", "closing", "disposed"}]]
      /\ listening \in [Services -> SUBSET Gens]
  OBVIOUS
<1>5. player \in (Services \X Gens) \cup {Idle} /\ over \in BOOLEAN /\ completed \in BOOLEAN
  OBVIOUS
<1>6. QED
  BY <1>1, <1>2, <1>3, <1>4, <1>5 DEF TypeOK

LEMMA MoveType ==
  ASSUME TypeOK, NEW s \in Services, NEW i \in 0 .. Len(queue[s]) - 1,
         MoveTo(s, i), UNCHANGED mediaVars \/ (completed' = FALSE /\ UNCHANGED <<player, over>>)
  PROVE  TypeOK'
<1>1. gen[s] \in 0 .. MaxGen /\ LoadBound[s] \in 0 .. MaxGen
  BY PlaybackAssumption DEF TypeOK, Services
<1>2. gen[s] + 1 \in Gens
  BY <1>1, PlaybackAssumption DEF MoveTo, LoadAndPlayCurrent, Gens
<1>3. gen' \in [Services -> 0 .. MaxGen]
  BY <1>1, <1>2 DEF TypeOK, MoveTo, LoadAndPlayCurrent, Gens
<1>4. pc' \in [Services -> [Gens -> Stages]]
  BY <1>2 DEF TypeOK, MoveTo, LoadAndPlayCurrent, Stages
<1>5. index' \in [Services -> Int] /\ queue' = queue
      /\ \A t \in Services : index'[t] \in -1 .. Len(queue'[t]) - 1
  BY QueueShape DEF TypeOK, MoveTo
<1>6. QED
  BY <1>3, <1>4, <1>5 DEF TypeOK, MoveTo, LoadAndPlayCurrent

\* A load moving to any stage keeps the per-load variables typed.
LEMMA StageType ==
  ASSUME TypeOK, NEW s \in Services, NEW g \in Gens, NEW stage \in Stages,
         Finish(s, g, stage) \/ Proceed(s, g, stage)
  PROVE  /\ pc' \in [Services -> [Gens -> Stages]]
         /\ prev' \in [Services -> [Gens -> Gens \cup {None}]]
         /\ prevSub' \in [Services -> [Gens -> Gens \cup {None}]]
<1>1. pc' = [pc EXCEPT ![s][g] = stage] /\ pc \in [Services -> [Gens -> Stages]]
  BY DEF TypeOK, Finish, Proceed
<1>2. pc' \in [Services -> [Gens -> Stages]]
  BY <1>1, NestedUpdate
<1>3. /\ prev \in [Services -> [Gens -> Gens \cup {None}]]
      /\ prevSub \in [Services -> [Gens -> Gens \cup {None}]]
  BY DEF TypeOK
<1>4. CASE Proceed(s, g, stage)
  BY <1>2, <1>3, <1>4 DEF Proceed
<1>5. CASE Finish(s, g, stage)
  BY <1>2, <1>3, <1>5, NestedUpdate DEF Finish
<1>6. QED
  BY <1>4, <1>5

\* Scheduling the dispose of a session, or of none, keeps sess typed.
LEMMA DisposeType ==
  ASSUME TypeOK, NEW s \in Services, NEW p \in Gens \cup {None}, ScheduleDispose(s, p)
  PROVE  sess' \in [Services -> [Gens -> {"none", "open", "closing", "disposed"}]]
<1>1. CASE p = None
  BY <1>1 DEF TypeOK, ScheduleDispose
<1>2. CASE p \in Gens
  BY <1>2 DEF TypeOK, ScheduleDispose
<1>3. QED
  BY <1>1, <1>2

LEMMA LoadType ==
  ASSUME TypeOK, NEW s \in Services, NEW g \in Gens, LoadStep(s, g)
  PROVE  TypeOK'
<1> USE DEF Stages, Running, Finished
<1>1. CASE StartLoad(s, g)
  <2>1. CASE g = gen[s] /\ HasCurrent(queue[s], index[s])
    <3>1. Current(queue[s], index[s]) \in Tracks
      BY <2>1, QueueShape DEF TypeOK
    <3>2. track' \in [Services -> [Gens -> Tracks \cup {NoTrack}]]
      <4>1. /\ track' = [track EXCEPT ![s][g] = Current(queue[s], index[s])]
            /\ track \in [Services -> [Gens -> Tracks \cup {NoTrack}]]
        BY <1>1, <2>1 DEF StartLoad, TypeOK
      <4>2. QED
        BY <3>1, <4>1, NestedUpdate
    <3>3. QED
      BY <1>1, <2>1, <3>2, StageType DEF StartLoad, TypeOK
  <2>2. CASE ~(g = gen[s] /\ HasCurrent(queue[s], index[s]))
    BY <1>1, <2>2, StageType DEF StartLoad, TypeOK
  <2>3. QED
    BY <2>1, <2>2
<1>2. CASE Stopped(s, g)
  BY <1>2, StageType DEF Stopped, TypeOK
<1>3. CASE InfoArrived(s, g) \/ Probed(s, g)
  BY <1>3, StageType DEF InfoArrived, Probed, TypeOK
<1>4. CASE InfoThrows(s, g) \/ ResolveThrows(s, g) \/ OpenThrows(s, g)
  BY <1>4, StageType DEF InfoThrows, ResolveThrows, OpenThrows, Throws, TypeOK
<1>5. ASSUME NEW torrent \in BOOLEAN, ResolvedStale(s, g, torrent) PROVE TypeOK'
  <2>1. sess' \in [Services -> [Gens -> {"none", "open", "closing", "disposed"}]]
    <3>1. sess' = sess \/ sess' = [sess EXCEPT ![s][g] = "open"]
      BY <1>5 DEF ResolvedStale
    <3>2. sess \in [Services -> [Gens -> {"none", "open", "closing", "disposed"}]]
      BY DEF TypeOK
    <3>3. QED
      BY <3>1, <3>2, NestedUpdate, SMTT(30)
  <2>2. \E stage \in Stages : Finish(s, g, stage) \/ Proceed(s, g, stage)
    BY <1>5 DEF ResolvedStale
  <2>3. /\ pc' \in [Services -> [Gens -> Stages]]
        /\ prev' \in [Services -> [Gens -> Gens \cup {None}]]
        /\ prevSub' \in [Services -> [Gens -> Gens \cup {None}]]
    BY <2>2, StageType
  <2>4. QED
    BY <1>5, <2>1, <2>3 DEF ResolvedStale, TypeOK
<1>6. ASSUME NEW torrent \in BOOLEAN, NEW loopback \in BOOLEAN,
             ResolvedSwap(s, g, torrent, loopback)
      PROVE  TypeOK'
  <2>1. /\ prev' \in [Services -> [Gens -> Gens \cup {None}]]
        /\ prevSub' \in [Services -> [Gens -> Gens \cup {None}]]
        /\ pc' \in [Services -> [Gens -> Stages]]
    BY <1>6 DEF ResolvedSwap, TypeOK
  <2>2. /\ active' \in [Services -> Gens \cup {None}]
        /\ activeSub' \in [Services -> Gens \cup {None}]
        /\ peersOf' \in [Services -> Gens \cup {None}]
    BY <1>6 DEF ResolvedSwap, TypeOK
  <2>3. /\ sess' \in [Services -> [Gens -> {"none", "open", "closing", "disposed"}]]
        /\ listening' \in [Services -> SUBSET Gens]
    BY <1>6 DEF ResolvedSwap, TypeOK
  <2>4. QED
    BY <1>6, <2>1, <2>2, <2>3 DEF ResolvedSwap, TypeOK
<1>7. CASE Released(s, g)
  BY <1>7, StageType DEF Released, TypeOK
<1>8. CASE Opened(s, g)
  <2>1. prev[s][g] \in Gens \cup {None}
    BY DEF TypeOK
  <2>2. sess' \in [Services -> [Gens -> {"none", "open", "closing", "disposed"}]]
    BY <1>8, <2>1, DisposeType DEF Opened, TypeOK
  <2>3. listening' \in [Services -> SUBSET Gens] /\ player' \in (Services \X Gens) \cup {Idle}
    BY <1>8 DEF Opened, TypeOK
  <2>4. QED
    BY <1>8, <2>2, <2>3, StageType DEF Opened, TypeOK
<1>9. CASE SubCancelled(s, g)
  <2>1. prev[s][g] \in Gens \cup {None}
    BY DEF TypeOK
  <2>2. sess' \in [Services -> [Gens -> {"none", "open", "closing", "disposed"}]]
    BY <1>9, <2>1, DisposeType DEF SubCancelled
  <2>3. QED
    BY <1>9, <2>2, StageType DEF SubCancelled, TypeOK
<1>10. QED
  BY <1>1, <1>2, <1>3, <1>4, <1>5, <1>6, <1>7, <1>8, <1>9 DEF LoadStep

\* Next preserves the type invariant.
LEMMA StepType == TypeOK /\ [Next]_vars => TypeOK'
<1> SUFFICES ASSUME TypeOK, [Next]_vars PROVE TypeOK'
  OBVIOUS
<1>1. CASE PlayerEnds \/ CompletedUnheard
  BY <1>1 DEF PlayerEnds, CompletedUnheard, TypeOK
<1>2. ASSUME NEW s \in Services, NEW q \in Queues, NEW i \in 0 .. Len(q) - 1,
             PlayQueueAt(s, q, i)
      PROVE  TypeOK'
  <2>1. gen[s] \in 0 .. MaxGen /\ LoadBound[s] \in 0 .. MaxGen
    BY PlaybackAssumption DEF TypeOK, Services
  <2>2. gen[s] + 1 \in Gens
    BY <1>2, <2>1, PlaybackAssumption DEF PlayQueueAt, LoadAndPlayCurrent, Gens
  <2>3. gen' \in [Services -> 0 .. MaxGen]
    BY <1>2, <2>1, <2>2 DEF TypeOK, PlayQueueAt, LoadAndPlayCurrent, Gens
  <2>4. pc' \in [Services -> [Gens -> Stages]]
    BY <1>2, <2>2 DEF TypeOK, PlayQueueAt, LoadAndPlayCurrent, Stages
  <2>5. queue' \in [Services -> Queues \cup {<< >>}] /\ index' \in [Services -> Int]
    BY <1>2, QueueShape DEF TypeOK, PlayQueueAt
  <2>6. \A t \in Services : index'[t] \in -1 .. Len(queue'[t]) - 1
    BY <1>2, QueueShape DEF TypeOK, PlayQueueAt
  <2>7. QED
    BY <1>2, <2>3, <2>4, <2>5, <2>6 DEF TypeOK, PlayQueueAt, LoadAndPlayCurrent
<1>3. ASSUME NEW s \in Services, SkipNext(s) PROVE TypeOK'
  BY <1>3, MoveType, NextIndexesInQueue DEF SkipNext, Picks
<1>4. ASSUME NEW s \in Services, SkipPrevious(s) PROVE TypeOK'
  <2>1. index[s] - 1 \in 0 .. Len(queue[s]) - 1
    BY <1>4, QueueShape DEF SkipPrevious, TypeOK
  <2>2. QED
    BY <1>4, <2>1, MoveType DEF SkipPrevious
<1>5. ASSUME NEW s \in Services, CycleRepeatMode(s) \/ ToggleShuffle(s) PROVE TypeOK'
  BY <1>5, PlaybackAssumption, ZenonT(60) DEF CycleRepeatMode, ToggleShuffle, ChangeMode, TypeOK
<1>6. ASSUME NEW s \in Services, OnCompleted(s) PROVE TypeOK'
  <2>1. ASSUME NEW i \in Picks(s, TRUE), MoveTo(s, i) PROVE TypeOK'
    BY <1>6, <2>1, MoveType, NextIndexesInQueue DEF OnCompleted, Picks
  <2>2. CASE UNCHANGED <<snapVars, phase, gen, loadVars, sessVars>>
    BY <1>6, <2>2 DEF OnCompleted, TypeOK
  <2>3. QED
    BY <1>6, <2>1, <2>2 DEF OnCompleted
<1>7. ASSUME NEW s \in Services, DisposeStarts(s) PROVE TypeOK'
  BY <1>7 DEF DisposeStarts, TypeOK
<1>8. ASSUME NEW s \in Services, DisposeTakesSession(s) PROVE TypeOK'
  <2>1. sess' \in [Services -> [Gens -> {"none", "open", "closing", "disposed"}]]
    BY <1>8, DisposeType DEF DisposeTakesSession, TypeOK
  <2>2. QED
    BY <1>8, <2>1 DEF DisposeTakesSession, TypeOK
<1>9. ASSUME NEW s \in Services, DisposeStopped(s) \/ Rebuild(s) PROVE TypeOK'
  BY <1>9 DEF DisposeStopped, Rebuild, TypeOK
<1>10. ASSUME NEW s \in Services, NEW g \in Gens, DisposeFires(s, g) \/ PeersTick(s, g)
       PROVE  TypeOK'
  <2>1. CASE DisposeFires(s, g)
    BY <1>10, <2>1, NestedUpdate DEF DisposeFires, TypeOK
  <2>2. CASE PeersTick(s, g)
    BY <1>10, <2>2 DEF PeersTick, TypeOK
  <2>3. QED
    BY <1>10, <2>1, <2>2
<1>11. CASE UNCHANGED vars
  BY <1>11 DEF vars, TypeOK
<1>12. QED
  BY <1>1, <1>2, <1>3, <1>4, <1>5, <1>6, <1>7, <1>8, <1>9, <1>10, <1>11, LoadType
     DEF Next, ServiceStep, UserStep

\* The variables of Playback keep their types: in particular an index always
\* lies in its queue, whatever repeat, shuffle and the completed event do.
THEOREM TypeCorrect == Spec => []TypeOK
<1>1. QED
  BY InitType, StepType, PTL DEF Spec

-----------------------------------------------------------------------------
(* The order of loads, and what is heard. *)

\* A new request: the number of loads grows by one and the new load is queued.
Asking(s) ==
  /\ gen[s] + 1 \in Gens
  /\ gen' = [gen EXCEPT ![s] = @ + 1]
  /\ pc' = [pc EXCEPT ![s][gen[s] + 1] = "queued"]
  /\ HasCurrent(queue'[s], index'[s])
  /\ \A t \in Services : t # s => queue'[t] = queue[t] /\ index'[t] = index[t]
  /\ UNCHANGED <<track, player>>

\* A load moves on: it had its turn or was running, and is not queued again.
Moving(s, g) ==
  /\ Turn(s, g) \/ pc[s][g] \in Running
  /\ \E stage \in Running \cup Finished : pc' = [pc EXCEPT ![s][g] = stage]
  /\ UNCHANGED <<gen, queue, index>>

\* Neither; the player may be stopped.
Quiet ==
  /\ player' \in {player, Idle}
  /\ UNCHANGED <<gen, pc, track, queue, index>>

LEMMA MoveAsks ==
  ASSUME TypeOK, NEW s \in Services, NEW i \in 0 .. Len(queue[s]) - 1,
         MoveTo(s, i), UNCHANGED player
  PROVE  Asking(s)
<1>1. gen[s] \in 0 .. MaxGen /\ LoadBound[s] \in 0 .. MaxGen
  BY PlaybackAssumption DEF TypeOK, Services
<1>2. gen[s] + 1 \in Gens
  BY <1>1, PlaybackAssumption DEF MoveTo, LoadAndPlayCurrent, Gens
<1>3. HasCurrent(queue'[s], index'[s])
  BY DEF TypeOK, MoveTo, HasCurrent
<1>4. QED
  BY <1>2, <1>3 DEF Asking, MoveTo, LoadAndPlayCurrent, TypeOK

LEMMA LoadMoves ==
  ASSUME NEW s \in Services, NEW g \in Gens, LoadStep(s, g)
  PROVE  Moving(s, g)
<1> USE DEF Running, Finished, Moving, Proceed, Finish
<1>1. CASE StartLoad(s, g)
  BY <1>1 DEF StartLoad
<1>2. CASE Stopped(s, g) \/ InfoArrived(s, g) \/ Probed(s, g)
  BY <1>2 DEF Stopped, InfoArrived, Probed
<1>3. CASE InfoThrows(s, g) \/ ResolveThrows(s, g) \/ OpenThrows(s, g)
  BY <1>3 DEF InfoThrows, ResolveThrows, OpenThrows, Throws
<1>4. ASSUME NEW torrent \in BOOLEAN, NEW loopback \in BOOLEAN,
             ResolvedStale(s, g, torrent) \/ ResolvedSwap(s, g, torrent, loopback)
      PROVE  Moving(s, g)
  BY <1>4 DEF ResolvedStale, ResolvedSwap
<1>5. CASE Released(s, g) \/ SubCancelled(s, g)
  BY <1>5 DEF Released, SubCancelled
<1>6. CASE Opened(s, g)
  BY <1>6 DEF Opened
<1>7. QED
  BY <1>1, <1>2, <1>3, <1>4, <1>5, <1>6 DEF LoadStep

\* Every step of Playback is one of the three.
LEMMA StepKinds ==
  ASSUME TypeOK, [Next]_vars
  PROVE  \/ \E s \in Services : Asking(s)
         \/ \E s \in Services, g \in Gens : LoadStep(s, g) /\ Moving(s, g)
         \/ Quiet
<1>1. CASE PlayerEnds \/ CompletedUnheard
  BY <1>1 DEF PlayerEnds, CompletedUnheard, Quiet
<1>2. ASSUME NEW s \in Services, NEW q \in Queues, NEW i \in 0 .. Len(q) - 1,
             PlayQueueAt(s, q, i)
      PROVE  Asking(s)
  <2>1. gen[s] \in 0 .. MaxGen /\ LoadBound[s] \in 0 .. MaxGen
    BY PlaybackAssumption DEF TypeOK, Services
  <2>2. gen[s] + 1 \in Gens
    BY <1>2, <2>1, PlaybackAssumption DEF PlayQueueAt, LoadAndPlayCurrent, Gens
  <2>3. HasCurrent(queue'[s], index'[s])
    BY <1>2 DEF TypeOK, PlayQueueAt, HasCurrent
  <2>4. QED
    BY <1>2, <2>2, <2>3 DEF Asking, PlayQueueAt, LoadAndPlayCurrent, TypeOK
<1>3. ASSUME NEW s \in Services, SkipNext(s) PROVE Asking(s)
  BY <1>3, MoveAsks, NextIndexesInQueue DEF SkipNext, Picks
<1>4. ASSUME NEW s \in Services, SkipPrevious(s) PROVE Asking(s)
  <2>1. index[s] - 1 \in 0 .. Len(queue[s]) - 1
    BY <1>4, QueueShape DEF SkipPrevious, TypeOK
  <2>2. QED
    BY <1>4, <2>1, MoveAsks DEF SkipPrevious
<1>5. ASSUME NEW s \in Services, CycleRepeatMode(s) \/ ToggleShuffle(s) PROVE Quiet
  BY <1>5 DEF CycleRepeatMode, ToggleShuffle, ChangeMode, Quiet
<1>6. ASSUME NEW s \in Services, OnCompleted(s) PROVE Asking(s) \/ Quiet
  <2>1. ASSUME NEW i \in Picks(s, TRUE), MoveTo(s, i) PROVE Asking(s)
    BY <1>6, <2>1, MoveAsks, NextIndexesInQueue DEF OnCompleted, Picks
  <2>2. CASE UNCHANGED <<snapVars, phase, gen, loadVars, sessVars>>
    BY <1>6, <2>2 DEF OnCompleted, Quiet
  <2>3. QED
    BY <1>6, <2>1, <2>2 DEF OnCompleted
<1>7. ASSUME NEW s \in Services,
             DisposeStarts(s) \/ DisposeTakesSession(s) \/ DisposeStopped(s) \/ Rebuild(s)
      PROVE  Quiet
  BY <1>7 DEF DisposeStarts, DisposeTakesSession, DisposeStopped, Rebuild, Quiet
<1>8. ASSUME NEW s \in Services, NEW g \in Gens, DisposeFires(s, g) \/ PeersTick(s, g)
      PROVE  Quiet
  BY <1>8 DEF DisposeFires, PeersTick, Quiet
<1>9. CASE UNCHANGED vars
  BY <1>9 DEF vars, Quiet
<1>10. QED
  BY <1>1, <1>2, <1>3, <1>4, <1>5, <1>6, <1>7, <1>8, <1>9, LoadMoves
     DEF Next, ServiceStep, UserStep

OrderInv == AskedLoads /\ LoadsInOrder

LEMMA InitOrder == Init => OrderInv
BY PlaybackAssumption DEF Init, OrderInv, AskedLoads, LoadsInOrder, Gens

LEMMA AskOrder ==
  ASSUME TypeOK, OrderInv, NEW s \in Services, Asking(s)
  PROVE  OrderInv'
<1>1. gen[s] + 1 \in Gens /\ gen \in [Services -> 0 .. MaxGen] /\ MaxGen \in Nat
  BY PlaybackAssumption DEF Asking, TypeOK
<1>2. \A t \in Services, g \in Gens :
        pc'[t][g] = IF t = s /\ g = gen[s] + 1 THEN "queued" ELSE pc[t][g]
  <2>1. "queued" \in Stages /\ pc \in [Services -> [Gens -> Stages]]
    BY DEF Stages, TypeOK
  <2>2. QED
    BY <1>1, <2>1, NestedUpdate DEF Asking
<1>3. \A t \in Services : gen'[t] = IF t = s THEN gen[s] + 1 ELSE gen[t]
  BY <1>1 DEF Asking
<1>4. AskedLoads'
  BY <1>1, <1>2, <1>3 DEF AskedLoads, OrderInv, Gens
<1>5. LoadsInOrder'
  <2> SUFFICES ASSUME NEW t \in Services, NEW g \in Gens, NEW h \in Gens,
                      h < g, pc'[t][g] \notin {"unused", "queued"}
               PROVE  pc'[t][h] \in Finished
    BY DEF LoadsInOrder
  <2>1. pc[t][g] \notin {"unused", "queued"} /\ pc[t][h] \in Finished
    BY <1>2 DEF OrderInv, LoadsInOrder
  <2>2. ~(t = s /\ h = gen[s] + 1)
    BY <1>1, <2>1 DEF OrderInv, AskedLoads, Finished, Gens
  <2>3. QED
    BY <1>2, <2>1, <2>2
<1>6. QED
  BY <1>4, <1>5 DEF OrderInv

\* What a move does to the stages: load g alone changes, to a stage that is
\* neither unused nor queued, and all the loads before it have ended.
LEMMA MoveStages ==
  ASSUME TypeOK, OrderInv, NEW s \in Services, NEW g \in Gens, Moving(s, g)
  PROVE  /\ \A t \in Services, h \in Gens : t # s \/ h # g => pc'[t][h] = pc[t][h]
         /\ pc'[s][g] \notin {"unused", "queued"}
         /\ pc[s][g] \notin Finished \cup {"unused"}
         /\ \A h \in Gens : h < g => pc[s][h] \in Finished
<1>1. PICK stage \in Running \cup Finished : pc' = [pc EXCEPT ![s][g] = stage]
  BY DEF Moving
<1>2. stage \in Stages /\ pc \in [Services -> [Gens -> Stages]]
  BY <1>1 DEF Stages, TypeOK
<1>3. \A t \in Services, h \in Gens :
        pc'[t][h] = IF t = s /\ h = g THEN stage ELSE pc[t][h]
  BY <1>1, <1>2, NestedUpdate
<1>4. pc[s][g] = "queued" \/ pc[s][g] \in Running
  BY DEF Moving, Turn
<1>5. \A h \in Gens : h < g => pc[s][h] \in Finished
  BY DEF Moving, Turn, OrderInv, LoadsInOrder, Running
<1>6. QED
  BY <1>3, <1>4, <1>5 DEF Running, Finished

LEMMA MoveOrder ==
  ASSUME TypeOK, OrderInv, NEW s \in Services, NEW g \in Gens, Moving(s, g)
  PROVE  OrderInv'
<1>1. AskedLoads'
  <2> SUFFICES ASSUME NEW t \in Services, NEW h \in Gens
               PROVE  h <= gen'[t] <=> pc'[t][h] # "unused"
    BY DEF AskedLoads
  <2>1. gen' = gen /\ (h <= gen[t] <=> pc[t][h] # "unused")
    BY DEF OrderInv, AskedLoads, Moving
  <2>2. CASE t = s /\ h = g
    BY <2>1, <2>2, MoveStages
  <2>3. CASE ~(t = s /\ h = g)
    BY <2>1, <2>3, MoveStages
  <2>4. QED
    BY <2>2, <2>3
<1>2. LoadsInOrder'
  <2> SUFFICES ASSUME NEW t \in Services, NEW k \in Gens, NEW h \in Gens,
                      h < k, pc'[t][k] \notin {"unused", "queued"}
               PROVE  pc'[t][h] \in Finished
    BY DEF LoadsInOrder
  <2>1. CASE t = s /\ k = g
    BY <2>1, MoveStages DEF Gens
  <2>2. CASE ~(t = s /\ k = g)
    BY <2>2, MoveStages DEF OrderInv, LoadsInOrder
  <2>3. QED
    BY <2>1, <2>2
<1>3. QED
  BY <1>1, <1>2 DEF OrderInv

LEMMA StepOrder == TypeOK /\ OrderInv /\ [Next]_vars => OrderInv'
<1> SUFFICES ASSUME TypeOK, OrderInv, [Next]_vars PROVE OrderInv'
  OBVIOUS
<1>1. CASE Quiet
  BY <1>1 DEF Quiet, OrderInv, AskedLoads, LoadsInOrder
<1>2. QED
  BY <1>1, StepKinds, AskOrder, MoveOrder

-----------------------------------------------------------------------------
(* What is heard is what the snapshot shows. *)

SoundInv == HeardWasAsked /\ NewestLoadsCurrent /\ SoundIsCurrent

LEMMA InitSound == Init => SoundInv
BY DEF Init, SoundInv, HeardWasAsked, NewestLoadsCurrent, SoundIsCurrent, Idle, Services

LEMMA AskSound ==
  ASSUME TypeOK, OrderInv, SoundInv, NEW s \in Services, Asking(s)
  PROVE  SoundInv'
<1>1. gen[s] + 1 \in Gens /\ gen \in [Services -> 0 .. MaxGen] /\ MaxGen \in Nat
  BY PlaybackAssumption DEF Asking, TypeOK
<1>2. \A t \in Services, g \in Gens :
        pc'[t][g] = IF t = s /\ g = gen[s] + 1 THEN "queued" ELSE pc[t][g]
  <2>1. "queued" \in Stages /\ pc \in [Services -> [Gens -> Stages]]
    BY DEF Stages, TypeOK
  <2>2. QED
    BY <1>1, <2>1, NestedUpdate DEF Asking
<1>3. \A t \in Services : gen'[t] = IF t = s THEN gen[s] + 1 ELSE gen[t]
  BY <1>1 DEF Asking
<1>4. pc'[s][gen'[s]] = "queued" /\ HasCurrent(queue'[s], index'[s])
  BY <1>1, <1>2, <1>3 DEF Asking
<1>5. \A t \in Services : t # s /\ gen[t] # 0 =>
        gen'[t] \in Gens /\ gen'[t] = gen[t] /\ pc'[t][gen'[t]] = pc[t][gen[t]]
        /\ track'[t] = track[t] /\ queue'[t] = queue[t] /\ index'[t] = index[t]
  BY <1>1, <1>2, <1>3 DEF Asking, Gens
<1>6. HeardWasAsked'
  BY <1>1, <1>3 DEF HeardWasAsked, SoundInv, Asking
<1>7. NewestLoadsCurrent'
  BY <1>3, <1>4, <1>5 DEF NewestLoadsCurrent, SoundInv
<1>8. SoundIsCurrent'
  <2> SUFFICES ASSUME NEW t \in Services, player'[1] = t
               PROVE  \/ pc'[t][gen'[t]] \in Unserved
                      \/ /\ player'[2] = gen'[t]
                         /\ HasCurrent(queue'[t], index'[t])
                         /\ track'[t][gen'[t]] = Current(queue'[t], index'[t])
    BY DEF SoundIsCurrent
  <2>1. CASE t = s
    BY <1>4, <2>1 DEF Unserved
  <2>2. CASE t # s
    <3>1. player = player' /\ gen[t] # 0
      BY <1>1 DEF Asking, SoundInv, HeardWasAsked
    <3>2. QED
      BY <1>5, <2>2, <3>1 DEF SoundInv, SoundIsCurrent
  <2>3. QED
    BY <2>1, <2>2
<1>9. QED
  BY <1>6, <1>7, <1>8 DEF SoundInv

\* A load that is past its player.stop moves on without touching its track.
LEMMA MoveSound ==
  ASSUME TypeOK, OrderInv, SoundInv, NEW s \in Services, NEW g \in Gens, Moving(s, g),
         pc[s][g] \notin Unserved, UNCHANGED track
  PROVE  /\ NewestLoadsCurrent'
         /\ UNCHANGED player => SoundInv'
<1>1. gen' = gen /\ queue' = queue /\ index' = index /\ track' = track
  BY DEF Moving
<1>2. \A t \in Services : gen[t] # 0 => gen[t] \in Gens
  BY PlaybackAssumption DEF TypeOK, Gens
<1>3. \A t \in Services : gen[t] # 0 =>
        pc'[t][gen[t]] = pc[t][gen[t]] \/ (t = s /\ g = gen[t])
  BY <1>2, MoveStages
<1>4. NewestLoadsCurrent'
  <2> SUFFICES ASSUME NEW t \in Services, gen[t] # 0, pc'[t][gen[t]] # "queued"
               PROVE  track[t][gen[t]] = Current(queue[t], index[t])
    BY <1>1 DEF NewestLoadsCurrent, SoundInv
  <2>1. pc[t][gen[t]] # "queued"
    BY <1>3 DEF Unserved
  <2>2. QED
    BY <2>1 DEF NewestLoadsCurrent, SoundInv
<1>5. ASSUME UNCHANGED player PROVE SoundInv'
  <2>1. HeardWasAsked'
    BY <1>1, <1>5 DEF HeardWasAsked, SoundInv
  <2>2. SoundIsCurrent'
    <3> SUFFICES ASSUME NEW t \in Services, player[1] = t, pc'[t][gen[t]] \notin Unserved
                 PROVE  /\ player[2] = gen[t]
                        /\ HasCurrent(queue[t], index[t])
                        /\ track[t][gen[t]] = Current(queue[t], index[t])
      BY <1>1, <1>5 DEF SoundIsCurrent
    <3>1. gen[t] # 0
      BY PlaybackAssumption DEF HeardWasAsked, SoundInv, TypeOK
    <3>2. pc[t][gen[t]] \notin Unserved
      BY <1>3, <3>1
    <3>3. QED
      BY <3>2 DEF SoundIsCurrent, SoundInv
  <2>3. QED
    BY <1>4, <2>1, <2>2 DEF SoundInv
<1>6. QED
  BY <1>4, <1>5

\* The load that takes its turn: the newest one notes the current track and
\* starts stopping the player, an older one is dropped.
LEMMA StartSound ==
  ASSUME TypeOK, OrderInv, SoundInv, NEW s \in Services, NEW g \in Gens,
         StartLoad(s, g), Moving(s, g)
  PROVE  SoundInv'
<1>1. gen' = gen /\ queue' = queue /\ index' = index /\ player' = player
  BY DEF StartLoad
<1>2. \A t \in Services : gen[t] # 0 => gen[t] \in Gens
  BY PlaybackAssumption DEF TypeOK, Gens
<1>3. \A t \in Services : player[1] = t => gen[t] # 0
  BY PlaybackAssumption DEF HeardWasAsked, SoundInv, TypeOK
<1>4. HeardWasAsked'
  BY <1>1 DEF HeardWasAsked, SoundInv
<1>5. gen[s] # 0 /\ HasCurrent(queue[s], index[s])
  <2>1. pc[s][g] # "unused"
    BY DEF StartLoad, Turn
  <2>2. g <= gen[s] /\ gen[s] \in 0 .. MaxGen
    BY <2>1 DEF OrderInv, AskedLoads, TypeOK
  <2>3. QED
    BY <2>2, PlaybackAssumption DEF Gens, NewestLoadsCurrent, SoundInv
<1>6. CASE g = gen[s]
  <2>1. /\ pc' = [pc EXCEPT ![s][g] = "stopping"]
        /\ track' = [track EXCEPT ![s][g] = Current(queue[s], index[s])]
    BY <1>5, <1>6 DEF StartLoad, Proceed
  <2>2. \A t \in Services, h \in Gens :
          /\ pc'[t][h] = IF t = s /\ h = g THEN "stopping" ELSE pc[t][h]
          /\ track'[t][h] = IF t = s /\ h = g THEN Current(queue[s], index[s]) ELSE track[t][h]
    BY <2>1 DEF TypeOK
  <2>3. NewestLoadsCurrent'
    BY <1>1, <1>2, <1>6, <2>2 DEF NewestLoadsCurrent, SoundInv
  <2>4. SoundIsCurrent'
    BY <1>1, <1>2, <1>3, <1>6, <2>2 DEF SoundIsCurrent, SoundInv, Unserved
  <2>5. QED
    BY <1>4, <2>3, <2>4 DEF SoundInv
<1>7. CASE g # gen[s]
  <2>1. track' = track
    BY <1>7 DEF StartLoad
  <2>2. \A t \in Services : gen[t] # 0 => pc'[t][gen[t]] = pc[t][gen[t]]
    BY <1>2, <1>7, MoveStages
  <2>3. NewestLoadsCurrent'
    BY <1>1, <2>1, <2>2 DEF NewestLoadsCurrent, SoundInv
  <2>4. SoundIsCurrent'
    BY <1>1, <1>3, <2>1, <2>2 DEF SoundIsCurrent, SoundInv
  <2>5. QED
    BY <1>4, <2>3, <2>4 DEF SoundInv
<1>8. QED
  BY <1>6, <1>7

\* Stopping silences everything; needs player.stop not to throw.
LEMMA StopSound ==
  ASSUME TypeOK, OrderInv, SoundInv, "stop" \notin Faults,
         NEW s \in Services, NEW g \in Gens, Stopped(s, g), Moving(s, g)
  PROVE  SoundInv'
<1>1. gen' = gen /\ queue' = queue /\ index' = index /\ track' = track /\ player' = Idle
  BY DEF Stopped
<1>2. \A t \in Services : player'[1] # t
  BY <1>1 DEF Idle, Services
<1>3. \A t \in Services : gen[t] # 0 =>
        pc'[t][gen[t]] = pc[t][gen[t]] \/ (t = s /\ g = gen[t])
  <2>1. \A t \in Services : gen[t] # 0 => gen[t] \in Gens
    BY PlaybackAssumption DEF TypeOK, Gens
  <2>2. QED
    BY <2>1, MoveStages
<1>4. NewestLoadsCurrent'
  BY <1>1, <1>3 DEF NewestLoadsCurrent, SoundInv, Stopped
<1>5. QED
  BY <1>2, <1>4 DEF SoundInv, HeardWasAsked, SoundIsCurrent

\* Opening: the load is the newest, or the newest is still queued behind it.
LEMMA OpenSound ==
  ASSUME TypeOK, OrderInv, SoundInv, NEW s \in Services, NEW g \in Gens,
         Opened(s, g), Moving(s, g)
  PROVE  SoundInv'
<1>1. /\ gen' = gen /\ queue' = queue /\ index' = index /\ track' = track
      /\ player' = <<s, g>> /\ pc[s][g] = "opening"
  BY DEF Opened
<1>2. g \in 1 .. gen[s] /\ gen[s] \in Gens
  BY <1>1, PlaybackAssumption DEF OrderInv, AskedLoads, Gens, TypeOK
<1>3. NewestLoadsCurrent'
  BY <1>1, MoveSound DEF Unserved
<1>4. HeardWasAsked'
  BY <1>1, <1>2 DEF HeardWasAsked
<1>5. SoundIsCurrent'
  <2>1. CASE g = gen[s]
    BY <1>1, <1>2, <2>1 DEF SoundInv, NewestLoadsCurrent, SoundIsCurrent
  <2>2. CASE g # gen[s]
    <3>1. g < gen[s] /\ pc[s][gen[s]] # "unused"
      BY <1>2, <2>2 DEF OrderInv, AskedLoads, Gens
    <3>2. pc[s][gen[s]] = "queued"
      BY <1>1, <1>2, <3>1 DEF OrderInv, LoadsInOrder, Finished
    <3>3. pc'[s][gen[s]] = "queued"
      <4>1. \A t \in Services, h \in Gens : t # s \/ h # g => pc'[t][h] = pc[t][h]
        BY MoveStages
      <4>2. QED
        BY <1>2, <2>2, <3>2, <4>1
    <3>4. QED
      BY <1>1, <3>3 DEF SoundIsCurrent, Unserved
  <2>3. QED
    BY <2>1, <2>2
<1>6. QED
  BY <1>3, <1>4, <1>5 DEF SoundInv

LEMMA StepSound ==
  ASSUME "stop" \notin Faults
  PROVE  TypeOK /\ OrderInv /\ SoundInv /\ [Next]_vars => SoundInv'
<1> SUFFICES ASSUME TypeOK, OrderInv, SoundInv, [Next]_vars PROVE SoundInv'
  OBVIOUS
<1>1. CASE Quiet
  BY <1>1 DEF Quiet, SoundInv, HeardWasAsked, NewestLoadsCurrent, SoundIsCurrent, Idle, Services
<1>2. ASSUME NEW s \in Services, NEW g \in Gens, LoadStep(s, g), Moving(s, g)
      PROVE  SoundInv'
  <2>1. CASE StartLoad(s, g)
    BY <1>2, <2>1, StartSound
  <2>2. CASE Stopped(s, g)
    BY <1>2, <2>2, StopSound
  <2>3. CASE Opened(s, g)
    BY <1>2, <2>3, OpenSound
  <2>4. CASE InfoArrived(s, g) \/ Probed(s, g) \/ Released(s, g) \/ SubCancelled(s, g)
    BY <1>2, <2>4, MoveSound DEF InfoArrived, Probed, Released, SubCancelled, Unserved
  <2>5. CASE InfoThrows(s, g) \/ ResolveThrows(s, g) \/ OpenThrows(s, g)
    BY <1>2, <2>5, MoveSound DEF InfoThrows, ResolveThrows, OpenThrows, Throws, Unserved
  <2>6. ASSUME NEW torrent \in BOOLEAN, NEW loopback \in BOOLEAN,
               ResolvedStale(s, g, torrent) \/ ResolvedSwap(s, g, torrent, loopback)
        PROVE  SoundInv'
    BY <1>2, <2>6, MoveSound DEF ResolvedStale, ResolvedSwap, Unserved
  <2>7. QED
    BY <1>2, <2>1, <2>2, <2>3, <2>4, <2>5, <2>6 DEF LoadStep
<1>3. QED
  BY <1>1, <1>2, StepKinds, AskSound

\* Unless player.stop throws, what is heard is the snapshot's current track,
\* or the newest request is still waiting to silence it.
THEOREM HeardIsCurrent ==
  ASSUME "stop" \notin Faults
  PROVE  Spec => []SoundIsCurrent
<1>1. SoundInv => SoundIsCurrent
  BY DEF SoundInv
<1>2. TypeOK /\ OrderInv /\ SoundInv /\ [Next]_vars => SoundInv'
  BY StepSound
<1>3. QED
  BY <1>1, <1>2, TypeCorrect, InitOrder, StepOrder, InitSound, PTL DEF Spec

-----------------------------------------------------------------------------
(* The sessions of a service, and who still needs them. *)

Switching == {"probing", "opening", "cancelling"}
Attached  == Switching \cup Finished
Living(s) == phase[s] \in {"unborn", "alive"}

\* How far a load is whose session, stats or source is in use.
LoadsBehind ==
  \A s \in Services, g \in Gens :
    /\ sess[s][g] # "none" => pc[s][g] \in Attached \cup {"releasing"}
    /\ active[s] = g \/ g \in listening[s] \/ peersOf[s] = g => pc[s][g] \in Attached
    /\ player = <<s, g>> => pc[s][g] \in {"cancelling", "done"}
    /\ pc[s][g] = "cancelling" /\ player[1] = s => player[2] = g

\* The session a load replaces belongs to an earlier load, is open still, and
\* is not the attached one.
PreviousOpen ==
  \A s \in Services :
    /\ activeSub[s] = active[s]
    /\ \A g \in Gens :
         /\ prevSub[s][g] = prev[s][g]
         /\ prev[s][g] # None =>
              /\ prev[s][g] < g
              /\ pc[s][g] \in Switching
              /\ sess[s][prev[s][g]] = "open"
              /\ active[s] # prev[s][g]

\* Until its service is disposed of, the attached session is open and heard,
\* the others are silent or outdated, and those that are closed are done with.
SessionsKept ==
  \A s \in Services :
    /\ active[s] # None => sess[s][active[s]] = "open"
    /\ Living(s) =>
         /\ active[s] # None => active[s] \in listening[s]
         /\ peersOf[s] # None => peersOf[s] = active[s]
         /\ \A g \in Gens :
              /\ g \in listening[s] => g = active[s] \/ g < gen[s]
              /\ sess[s][g] \in {"closing", "disposed"} =>
                   pc[s][g] \in Finished /\ player # <<s, g>>

SessInv == LoadsBehind /\ PreviousOpen /\ SessionsKept

LEMMA InitSess == Init => SessInv
<1> SUFFICES ASSUME Init PROVE SessInv
  OBVIOUS
<1>1. \A s \in Services : player[1] # s /\ \A g \in Gens : player # <<s, g>> /\ g # None
  BY PlaybackAssumption DEF Init, Idle, Services, Gens, None
<1>2. LoadsBehind
  BY <1>1 DEF Init, LoadsBehind
<1>3. PreviousOpen
  BY DEF Init, PreviousOpen
<1>4. SessionsKept
  BY DEF Init, SessionsKept
<1> QED BY <1>2, <1>3, <1>4 DEF SessInv

\* What TypeOK says of the variables these proofs look at.
LEMMA SessTypes ==
  ASSUME TypeOK
  PROVE  /\ pc \in [Services -> [Gens -> Stages]]
         /\ prev \in [Services -> [Gens -> Gens \cup {None}]]
         /\ prevSub \in [Services -> [Gens -> Gens \cup {None}]]
         /\ active \in [Services -> Gens \cup {None}]
         /\ activeSub \in [Services -> Gens \cup {None}]
         /\ peersOf \in [Services -> Gens \cup {None}]
         /\ sess \in [Services -> [Gens -> {"none", "open", "closing", "disposed"}]]
         /\ listening \in [Services -> SUBSET Gens]
         /\ gen \in [Services -> Nat]
         /\ Gens \subseteq Nat /\ None \in Nat /\ None \notin Gens
  BY PlaybackAssumption DEF TypeOK, Gens, None

\* What the end of a load, or its going on, does to the per-load variables.
LEMMA Finishes ==
  ASSUME TypeOK, NEW s \in Services, NEW g \in Gens, NEW stage \in Stages, Finish(s, g, stage)
  PROVE  \A t \in Services, h \in Gens :
           /\ pc'[t][h] = IF t = s /\ h = g THEN stage ELSE pc[t][h]
           /\ prev'[t][h] = IF t = s /\ h = g THEN None ELSE prev[t][h]
           /\ prevSub'[t][h] = IF t = s /\ h = g THEN None ELSE prevSub[t][h]
<1>1. pc' = [pc EXCEPT ![s][g] = stage] /\ prev' = [prev EXCEPT ![s][g] = None]
      /\ prevSub' = [prevSub EXCEPT ![s][g] = None]
  BY DEF Finish
<1>2. /\ pc \in [Services -> [Gens -> Stages]]
      /\ prev \in [Services -> [Gens -> Gens \cup {None}]]
      /\ prevSub \in [Services -> [Gens -> Gens \cup {None}]]
  BY SessTypes
<1>3. \A t \in Services, h \in Gens : pc'[t][h] = IF t = s /\ h = g THEN stage ELSE pc[t][h]
  BY <1>1, <1>2
<1>4. \A t \in Services, h \in Gens : prev'[t][h] = IF t = s /\ h = g THEN None ELSE prev[t][h]
  BY <1>1, <1>2
<1>5. \A t \in Services, h \in Gens :
        prevSub'[t][h] = IF t = s /\ h = g THEN None ELSE prevSub[t][h]
  BY <1>1, <1>2
<1> QED BY <1>3, <1>4, <1>5

LEMMA Proceeds ==
  ASSUME TypeOK, NEW s \in Services, NEW g \in Gens, NEW stage \in Stages, Proceed(s, g, stage)
  PROVE  /\ \A t \in Services, h \in Gens :
              pc'[t][h] = IF t = s /\ h = g THEN stage ELSE pc[t][h]
         /\ prev' = prev /\ prevSub' = prevSub
<1>1. pc' = [pc EXCEPT ![s][g] = stage] /\ prev' = prev /\ prevSub' = prevSub
  BY DEF Proceed
<1>2. pc \in [Services -> [Gens -> Stages]]
  BY SessTypes
<1> QED BY <1>1, <1>2

\* Session p of service s changes to v.
LEMMA Changes ==
  ASSUME TypeOK, NEW s \in Services, NEW p \in Gens,
         NEW v \in {"none", "open", "closing", "disposed"}, sess' = [sess EXCEPT ![s][p] = v]
  PROVE  \A t \in Services, h \in Gens : sess'[t][h] = IF t = s /\ h = p THEN v ELSE sess[t][h]
  BY SessTypes, NestedUpdate

\* A request alone: the new load has nothing yet.
LEMMA AskSess ==
  ASSUME TypeOK, OrderInv, SessInv, NEW s \in Services, Asking(s),
         UNCHANGED <<prev, prevSub, phase, sessVars>>
  PROVE  SessInv'
<1>1. gen[s] + 1 \in Gens
  BY DEF Asking
<1>2. pc[s][gen[s] + 1] = "unused"
  BY <1>1, SessTypes DEF OrderInv, AskedLoads
<1>3. \A t \in Services, h \in Gens :
        /\ pc'[t][h] = IF t = s /\ h = gen[s] + 1 THEN "queued" ELSE pc[t][h]
        /\ pc[t][h] # "unused" => pc'[t][h] = pc[t][h]
  <2>1. "queued" \in Stages
    BY DEF Stages
  <2> QED BY <1>1, <1>2, <2>1, SessTypes, NestedUpdate DEF Asking
<1>4. \A t \in Services : gen'[t] \in Nat /\ gen[t] \in Nat /\ gen[t] <= gen'[t]
  BY <1>1, SessTypes DEF Asking
<1>5. UNCHANGED <<prev, prevSub, phase, active, activeSub, sess, listening, peersOf, player>>
  BY DEF Asking
<1>6. "unused" \notin Attached \cup {"releasing"} /\ "unused" \notin Finished
      /\ "queued" # "cancelling"
  BY DEF Attached, Switching, Finished
<1>7. LoadsBehind'
  BY <1>3, <1>5, <1>6 DEF SessInv, LoadsBehind
<1>8. PreviousOpen'
  BY <1>3, <1>5 DEF SessInv, PreviousOpen, Switching
<1>9. SessionsKept'
  <2>1. \A t \in Services, h \in Gens : h < gen[t] => h < gen'[t]
    BY <1>4, SessTypes
  <2> QED BY <1>3, <1>5, <1>6, <2>1 DEF SessInv, SessionsKept, Living
<1> QED BY <1>7, <1>8, <1>9 DEF SessInv

\* A load moves on, or ends, without touching a session; the player may stop.
LEMMA AdvanceSess ==
  ASSUME TypeOK, OrderInv, SessInv, NEW s \in Services, NEW g \in Gens,
         NEW b \in {"stopping", "asking", "resolving", "opening", "dropped"},
         pc[s][g] \in {"queued", "stopping", "asking", "resolving", "probing", "opening"},
         pc[s][g] \in {"probing", "opening"} => b \in {"opening", "dropped"},
         b = "dropped" => Finish(s, g, b), b # "dropped" => Proceed(s, g, b),
         UNCHANGED <<gen, phase, sessVars>>, player' \in {player, Idle}
  PROVE  SessInv'
<1>1. b \in Stages
  BY DEF Stages, Running, Finished
<1>2. \A t \in Services, h \in Gens : pc'[t][h] = IF t = s /\ h = g THEN b ELSE pc[t][h]
  BY <1>1, Finishes, Proceeds
<1>3. /\ \A t \in Services, h \in Gens :
           /\ prev'[t][h] \in {prev[t][h], None} /\ (prev[t][h] = None => prev'[t][h] = None)
           /\ prevSub'[t][h] = prev'[t][h]
           /\ t = s /\ h = g /\ b = "dropped" => prev'[t][h] = None
  <2>1. \A t \in Services, h \in Gens : prevSub[t][h] = prev[t][h]
    BY DEF SessInv, PreviousOpen
  <2> QED BY <1>1, <2>1, Finishes, Proceeds
<1>4. UNCHANGED <<gen, phase, active, activeSub, sess, listening, peersOf>>
  OBVIOUS
<1>5. \A t \in Services : Idle[1] # t /\ \A h \in Gens : Idle # <<t, h>>
  BY PlaybackAssumption DEF Idle, Services
<1>6. pc[s][g] \notin Finished \cup {"cancelling", "done", "releasing"}
  BY DEF Finished
<1>7. LoadsBehind'
  <2> SUFFICES ASSUME NEW t \in Services, NEW h \in Gens
               PROVE  /\ sess[t][h] # "none" => pc'[t][h] \in Attached \cup {"releasing"}
                      /\ active[t] = h \/ h \in listening[t] \/ peersOf[t] = h => pc'[t][h] \in Attached
                      /\ player' = <<t, h>> => pc'[t][h] \in {"cancelling", "done"}
                      /\ pc'[t][h] = "cancelling" /\ player'[1] = t => player'[2] = h
    BY <1>4 DEF LoadsBehind
  <2>1. CASE t = s /\ h = g
    <3>1. player' # <<t, h>>
      BY <1>5, <1>6, <2>1 DEF SessInv, LoadsBehind
    <3>2. pc[s][g] \in Attached \cup {"releasing"} => b \in Attached
      BY <1>6 DEF Attached, Switching, Finished
    <3> QED BY <1>2, <2>1, <3>1, <3>2 DEF SessInv, LoadsBehind
  <2>2. CASE ~(t = s /\ h = g)
    BY <1>2, <1>5, <2>2 DEF SessInv, LoadsBehind
  <2> QED BY <2>1, <2>2
<1>8. PreviousOpen'
  <2>1. b # "dropped" /\ pc[s][g] \in Switching => b \in Switching
    BY <1>6 DEF Switching
  <2> QED BY <1>2, <1>3, <1>4, <2>1 DEF SessInv, PreviousOpen
<1>9. SessionsKept'
  BY <1>2, <1>4, <1>5, <1>6 DEF SessInv, SessionsKept, Living
<1> QED BY <1>7, <1>8, <1>9 DEF SessInv

\* The previous session of a load is the only one that may be replaced.
LEMMA OnePrevious ==
  ASSUME OrderInv, SessInv, NEW s \in Services, NEW g \in Gens, NEW h \in Gens, g # h,
         pc[s][g] \notin Finished \cup {"unused", "queued"}
  PROVE  prev[s][h] = None
<1>1. g < h \/ h < g
  BY PlaybackAssumption DEF Gens
<1>2. pc[s][h] \notin Switching
  BY <1>1 DEF OrderInv, LoadsInOrder, Finished, Switching
<1> QED BY <1>2 DEF SessInv, PreviousOpen

\* A late answer: the session it opens is nobody's.
LEMMA StaleSess ==
  ASSUME TypeOK, OrderInv, SessInv, NEW s \in Services, NEW g \in Gens, ResolvedStale(s, g, TRUE)
  PROVE  SessInv'
<1>1. \A t \in Services, h \in Gens :
        pc'[t][h] = IF t = s /\ h = g THEN "releasing" ELSE pc[t][h]
  BY Proceeds DEF ResolvedStale, Stages, Running
<1>2. \A t \in Services, h \in Gens :
        sess'[t][h] = IF t = s /\ h = g THEN "open" ELSE sess[t][h]
  BY Changes DEF ResolvedStale
<1>3. /\ UNCHANGED <<gen, phase, prev, prevSub, active, activeSub, listening, peersOf, player>>
      /\ pc[s][g] = "resolving"
  BY DEF ResolvedStale, Proceed
<1>4. "resolving" \notin Attached \cup {"releasing"} /\ "resolving" \notin Switching
      /\ "releasing" \notin {"cancelling", "done"}
  BY DEF Attached, Switching, Finished
<1>5. sess[s][g] = "none" /\ active[s] # g /\ g \notin listening[s] /\ peersOf[s] # g
      /\ player # <<s, g>>
  BY <1>3, <1>4 DEF SessInv, LoadsBehind
<1>6. LoadsBehind'
  BY <1>1, <1>2, <1>3, <1>4, <1>5 DEF SessInv, LoadsBehind
<1>7. PreviousOpen'
  <2>1. \A t \in Services, h \in Gens : prev[t][h] \in Gens \cup {None}
    BY SessTypes
  <2>2. \A t \in Services, p \in Gens : sess[t][p] = "open" => sess'[t][p] = "open"
    BY <1>2
  <2>3. \A t \in Services, h \in Gens : pc[t][h] \in Switching => pc'[t][h] \in Switching
    BY <1>1, <1>3, <1>4
  <2> QED BY <1>3, <2>1, <2>2, <2>3 DEF SessInv, PreviousOpen
<1>8. SessionsKept'
  BY <1>1, <1>2, <1>3, <1>4, <1>5, SessTypes DEF SessInv, SessionsKept, Living
<1> QED BY <1>6, <1>7, <1>8 DEF SessInv

LEMMA ReleasedSess ==
  ASSUME TypeOK, OrderInv, SessInv, NEW s \in Services, NEW g \in Gens, Released(s, g)
  PROVE  SessInv'
<1>1. \A t \in Services, h \in Gens :
        /\ pc'[t][h] = IF t = s /\ h = g THEN "dropped" ELSE pc[t][h]
        /\ prev'[t][h] = IF t = s /\ h = g THEN None ELSE prev[t][h]
        /\ prevSub'[t][h] = IF t = s /\ h = g THEN None ELSE prevSub[t][h]
  BY Finishes DEF Released, Stages, Finished
<1>2. \A t \in Services, h \in Gens :
        sess'[t][h] = IF t = s /\ h = g THEN "disposed" ELSE sess[t][h]
  <2>1. sess' = [sess EXCEPT ![s][g] = "disposed"]
    BY DEF Released
  <2> QED BY <2>1, Changes, ZenonT(60)
<1>3. /\ UNCHANGED <<gen, phase, active, activeSub, listening, peersOf, player>>
      /\ pc[s][g] = "releasing"
  BY DEF Released
<1>4. "releasing" \notin Attached /\ "releasing" \notin Finished /\ "dropped" \in Finished
      /\ "dropped" \in Attached /\ "releasing" \notin Switching
  BY DEF Attached, Switching, Finished
<1>5. active[s] # g /\ g \notin listening[s] /\ peersOf[s] # g /\ player # <<s, g>>
  BY <1>3, <1>4 DEF SessInv, LoadsBehind
<1>6. \A h \in Gens : prev[s][h] = None
  <2>1. prev[s][g] = None
    BY <1>3, <1>4 DEF SessInv, PreviousOpen
  <2> QED BY <1>3, <2>1, OnePrevious DEF Finished
<1>7. LoadsBehind'
  BY <1>1, <1>2, <1>3, <1>4, <1>5 DEF SessInv, LoadsBehind
<1>8. PreviousOpen'
  <2> SUFFICES ASSUME NEW t \in Services
               PROVE  /\ activeSub'[t] = active'[t]
                      /\ \A h \in Gens :
                           /\ prevSub'[t][h] = prev'[t][h]
                           /\ prev'[t][h] # None =>
                                /\ prev'[t][h] < h /\ pc'[t][h] \in Switching
                                /\ sess'[t][prev'[t][h]] = "open" /\ active'[t] # prev'[t][h]
    BY DEF PreviousOpen
  <2>1. CASE t = s
    BY <1>1, <1>3, <1>6, <2>1 DEF SessInv, PreviousOpen
  <2>2. CASE t # s
    BY <1>1, <1>2, <1>3, <2>2, SessTypes DEF SessInv, PreviousOpen
  <2> QED BY <2>1, <2>2
<1>9. SessionsKept'
  BY <1>1, <1>2, <1>3, <1>4, <1>5, SessTypes DEF SessInv, SessionsKept, Living
<1> QED BY <1>7, <1>8, <1>9 DEF SessInv

\* The swap: the new session is attached, the one it replaces waits its turn.
LEMMA SwapSess ==
  ASSUME TypeOK, OrderInv, SessInv, NEW s \in Services, NEW g \in Gens,
         NEW torrent \in BOOLEAN, NEW loopback \in BOOLEAN,
         ResolvedSwap(s, g, torrent, loopback)
  PROVE  SessInv'
<1> DEFINE a == IF torrent THEN g ELSE None
           b == IF torrent \/ loopback THEN "probing" ELSE "opening"
<1>1. \A t \in Services, h \in Gens :
        /\ pc'[t][h] = IF t = s /\ h = g THEN b ELSE pc[t][h]
        /\ prev'[t][h] = IF t = s /\ h = g THEN active[s] ELSE prev[t][h]
        /\ prevSub'[t][h] = IF t = s /\ h = g THEN activeSub[s] ELSE prevSub[t][h]
  <2>1. b \in Stages /\ active[s] \in Gens \cup {None} /\ activeSub[s] \in Gens \cup {None}
    BY SessTypes DEF Stages, Running
  <2>2. pc' = [pc EXCEPT ![s][g] = b] /\ prev' = [prev EXCEPT ![s][g] = active[s]]
        /\ prevSub' = [prevSub EXCEPT ![s][g] = activeSub[s]]
    BY DEF ResolvedSwap
  <2> HIDE DEF b
  <2>a. /\ pc \in [Services -> [Gens -> Stages]]
        /\ prev \in [Services -> [Gens -> Gens \cup {None}]]
        /\ prevSub \in [Services -> [Gens -> Gens \cup {None}]]
    BY SessTypes
  <2>3. \A t \in Services, h \in Gens : pc'[t][h] = IF t = s /\ h = g THEN b ELSE pc[t][h]
    BY <2>1, <2>2, <2>a
  <2>4. \A t \in Services, h \in Gens :
          prev'[t][h] = IF t = s /\ h = g THEN active[s] ELSE prev[t][h]
    BY <2>1, <2>2, <2>a
  <2>5. \A t \in Services, h \in Gens :
          prevSub'[t][h] = IF t = s /\ h = g THEN activeSub[s] ELSE prevSub[t][h]
    BY <2>1, <2>2, <2>a
  <2> QED BY <2>3, <2>4, <2>5
<1>2. \A t \in Services, h \in Gens :
        sess'[t][h] = IF t = s /\ h = g /\ torrent THEN "open" ELSE sess[t][h]
  <2>1. CASE torrent
    <3>1. sess' = [sess EXCEPT ![s][g] = "open"]
      BY <2>1 DEF ResolvedSwap
    <3>2. \A t \in Services, h \in Gens :
            sess'[t][h] = IF t = s /\ h = g THEN "open" ELSE sess[t][h]
      BY <3>1, SessTypes
    <3> QED BY <2>1, <3>2
  <2>2. CASE ~torrent
    BY <2>2 DEF ResolvedSwap
  <2> QED BY <2>1, <2>2
<1>3. /\ UNCHANGED <<gen, phase, player>>
      /\ pc[s][g] = "resolving" /\ g = gen[s]
      /\ \A t \in Services :
           /\ active'[t] = IF t = s THEN a ELSE active[t]
           /\ activeSub'[t] = IF t = s THEN a ELSE activeSub[t]
           /\ peersOf'[t] = IF t = s THEN None ELSE peersOf[t]
           /\ listening'[t] = IF t = s /\ torrent THEN listening[t] \cup {g} ELSE listening[t]
  BY SessTypes DEF ResolvedSwap
<1>4. /\ "resolving" \notin Attached \cup {"releasing"} /\ "resolving" \notin Switching
      /\ "resolving" \notin Finished \cup {"unused", "queued"}
      /\ b \in Switching /\ b \in Attached /\ b \notin {"cancelling", "done"}
  BY DEF Attached, Switching, Finished
<1>5. sess[s][g] = "none" /\ active[s] # g /\ g \notin listening[s] /\ peersOf[s] # g
      /\ player # <<s, g>>
  BY <1>3, <1>4 DEF SessInv, LoadsBehind
<1>6. a \in {g, None} /\ g # None /\ (a # None => torrent)
  BY SessTypes
<1>7. active[s] # None => active[s] \in Gens /\ active[s] < g /\ sess[s][active[s]] = "open"
  <2> SUFFICES ASSUME active[s] # None PROVE active[s] \in Gens /\ active[s] < g /\ sess[s][active[s]] = "open"
    OBVIOUS
  <2>1. active[s] \in Gens /\ pc[s][active[s]] \in Attached
    BY SessTypes DEF SessInv, LoadsBehind
  <2>2. ~(g < active[s])
    BY <1>3, <2>1 DEF OrderInv, LoadsInOrder, Finished, Attached, Switching
  <2>3. active[s] < g
    <3>1. active[s] \in Nat /\ g \in Nat
      BY <2>1, SessTypes
    <3> QED BY <1>5, <2>2, <3>1
  <2> QED BY <2>1, <2>3 DEF SessInv, SessionsKept
<1>8. \A h \in Gens : prev[s][h] = None
  <2>1. prev[s][g] = None
    BY <1>3, <1>4 DEF SessInv, PreviousOpen
  <2> QED BY <1>3, <1>4, <2>1, OnePrevious
<1> HIDE DEF a, b
<1>9. LoadsBehind'
  <2> SUFFICES ASSUME NEW t \in Services, NEW h \in Gens
               PROVE  /\ sess'[t][h] # "none" => pc'[t][h] \in Attached \cup {"releasing"}
                      /\ active'[t] = h \/ h \in listening'[t] \/ peersOf'[t] = h => pc'[t][h] \in Attached
                      /\ player' = <<t, h>> => pc'[t][h] \in {"cancelling", "done"}
                      /\ pc'[t][h] = "cancelling" /\ player'[1] = t => player'[2] = h
    BY DEF LoadsBehind
  <2>1. CASE t = s /\ h = g
    BY <1>1, <1>3, <1>4, <1>5, <2>1
  <2>2. CASE ~(t = s /\ h = g)
    <3>1. /\ pc'[t][h] = pc[t][h] /\ sess'[t][h] = sess[t][h]
          /\ (active'[t] = h => active[t] = h) /\ (h \in listening'[t] => h \in listening[t])
          /\ (peersOf'[t] = h => peersOf[t] = h)
      <4>1. pc'[t][h] = pc[t][h] /\ sess'[t][h] = sess[t][h] /\ h # None
        BY <1>1, <1>2, <2>2, SessTypes
      <4>2. CASE t = s
        BY <1>3, <1>6, <2>2, <4>1, <4>2
      <4>3. CASE t # s
        BY <1>3, <4>1, <4>3
      <4> QED BY <4>1, <4>2, <4>3
    <3> QED BY <1>3, <3>1 DEF SessInv, LoadsBehind
  <2> QED BY <2>1, <2>2
<1>10. PreviousOpen'
  <2> SUFFICES ASSUME NEW t \in Services
               PROVE  /\ activeSub'[t] = active'[t]
                      /\ \A h \in Gens :
                           /\ prevSub'[t][h] = prev'[t][h]
                           /\ prev'[t][h] # None =>
                                /\ prev'[t][h] < h /\ pc'[t][h] \in Switching
                                /\ sess'[t][prev'[t][h]] = "open" /\ active'[t] # prev'[t][h]
    BY DEF PreviousOpen
  <2>1. CASE t = s
    <3>1. activeSub[s] = active[s] /\ \A h \in Gens : prevSub[s][h] = prev[s][h]
      BY DEF SessInv, PreviousOpen
    <3>2. \A h \in Gens : prev'[s][h] # None => h = g /\ prev'[s][h] = active[s]
      BY <1>1, <1>8
    <3>3. activeSub'[s] = active'[s] /\ \A h \in Gens : prevSub'[s][h] = prev'[s][h]
      BY <1>1, <1>3, <3>1, ZenonT(60)
    <3>4. ASSUME NEW h \in Gens, prev'[s][h] # None
          PROVE  /\ prev'[s][h] < h /\ pc'[s][h] \in Switching
                 /\ sess'[s][prev'[s][h]] = "open" /\ active'[s] # prev'[s][h]
      <4>1. h = g /\ prev'[s][h] = active[s] /\ active[s] # None
        BY <3>2, <3>4
      <4>2. pc'[s][h] \in Switching
        BY <1>1, <1>4, <4>1
      <4>3. sess'[s][active[s]] = "open"
        BY <1>2, <1>7, <4>1
      <4>4. active'[s] # active[s]
        BY <1>3, <1>5, <1>6, <4>1
      <4> QED BY <1>7, <4>1, <4>2, <4>3, <4>4
    <3> QED BY <2>1, <3>3, <3>4
  <2>2. CASE t # s
    <3>1. active'[t] = active[t] /\ activeSub'[t] = activeSub[t]
      BY <1>3, <2>2
    <3>2. \A h \in Gens : /\ prev'[t][h] = prev[t][h] /\ prevSub'[t][h] = prevSub[t][h]
                          /\ pc'[t][h] = pc[t][h] /\ sess'[t][h] = sess[t][h]
      BY <1>1, <1>2, <2>2
    <3>3. \A h \in Gens : prev[t][h] # None => prev[t][h] \in Gens
      BY SessTypes
    <3> QED BY <3>1, <3>2, <3>3 DEF SessInv, PreviousOpen
  <2> QED BY <2>1, <2>2
<1>11. SessionsKept'
  <2> SUFFICES ASSUME NEW t \in Services
               PROVE  /\ active'[t] # None => sess'[t][active'[t]] = "open"
                      /\ Living(t)' =>
                           /\ active'[t] # None => active'[t] \in listening'[t]
                           /\ peersOf'[t] # None => peersOf'[t] = active'[t]
                           /\ \A h \in Gens :
                                /\ h \in listening'[t] => h = active'[t] \/ h < gen'[t]
                                /\ sess'[t][h] \in {"closing", "disposed"} =>
                                     pc'[t][h] \in Finished /\ player' # <<t, h>>
    BY DEF SessionsKept
  <2>1. CASE t # s
    <3>1. /\ active'[t] = active[t] /\ peersOf'[t] = peersOf[t] /\ listening'[t] = listening[t]
          /\ UNCHANGED <<gen, phase, player>>
      BY <1>3, <2>1
    <3>2. \A h \in Gens : pc'[t][h] = pc[t][h] /\ sess'[t][h] = sess[t][h]
      BY <1>1, <1>2, <2>1
    <3>3. active[t] # None => active[t] \in Gens
      BY SessTypes
    <3> QED BY <3>1, <3>2, <3>3 DEF SessInv, SessionsKept, Living
  <2>2. CASE t = s
    <3>1. active'[s] # None => torrent /\ active'[s] = g
      BY <1>3, <1>6
    <3>2. Living(s)' => Living(s)
      BY <1>3 DEF Living
    <3>3. ASSUME NEW h \in Gens, Living(s), h \in listening'[s]
          PROVE  h = active'[s] \/ h < gen'[s]
      <4>1. CASE h = g /\ torrent
        BY <1>3, <4>1 DEF a
      <4>2. CASE ~(h = g /\ torrent)
        <5>1. h \in listening[s]
          BY <1>3, <3>3, <4>2
        <5>2. h = active[s] \/ h < gen[s]
          BY <3>3, <5>1 DEF SessInv, SessionsKept
        <5> QED BY <1>3, <1>7, <5>2, SessTypes
      <4> QED BY <4>1, <4>2
    <3>4. ASSUME NEW h \in Gens, Living(s), sess'[s][h] \in {"closing", "disposed"}
          PROVE  pc'[s][h] \in Finished /\ player' # <<s, h>>
      BY <1>1, <1>2, <1>3, <1>5, <3>4 DEF SessInv, SessionsKept
    <3> QED BY <1>2, <1>3, <2>2, <3>1, <3>2, <3>3, <3>4
  <2> QED BY <2>1, <2>2
<1> QED BY <1>9, <1>10, <1>11 DEF SessInv

\* While a load runs no other one does.
LEMMA RunsAlone ==
  ASSUME OrderInv, NEW s \in Services, NEW g \in Gens, NEW h \in Gens, g # h,
         pc[s][g] \notin Finished \cup {"unused", "queued"}
  PROVE  pc[s][h] \in Finished \cup {"unused", "queued"}
<1>1. g < h \/ h < g
  BY PlaybackAssumption DEF Gens
<1> QED BY <1>1 DEF OrderInv, LoadsInOrder

LEMMA OpenedSess ==
  ASSUME TypeOK, OrderInv, SessInv, NEW s \in Services, NEW g \in Gens, Opened(s, g)
  PROVE  SessInv'
<1>1. /\ pc[s][g] = "opening" /\ player' = <<s, g>>
      /\ UNCHANGED <<gen, phase, active, activeSub, peersOf>>
      /\ prevSub[s][g] = prev[s][g]
  BY DEF Opened, SessInv, PreviousOpen
<1>2. /\ sess' = sess
      /\ \/ prev[s][g] = None /\ Finish(s, g, "done")
         \/ prev[s][g] # None /\ Proceed(s, g, "cancelling")
  BY <1>1 DEF Opened, ScheduleDispose
<1>3. \A t \in Services : listening'[t] = IF t = s THEN listening[s] \ {prev[s][g]} ELSE listening[t]
  BY <1>1, SessTypes DEF Opened
<1>4. "done" \in Stages /\ "cancelling" \in Stages
  BY DEF Stages, Running, Finished
<1>5. /\ pc'[s][g] = IF prev[s][g] = None THEN "done" ELSE "cancelling"
      /\ \A t \in Services, h \in Gens : t # s \/ h # g => pc'[t][h] = pc[t][h]
      /\ \A t \in Services, h \in Gens :
           prev'[t][h] = prev[t][h] /\ prevSub'[t][h] = prevSub[t][h]
  BY <1>1, <1>2, <1>4, Finishes, Proceeds
<1>6. /\ "opening" \notin Finished \cup {"unused", "queued"} /\ "cancelling" \in Switching
      /\ "cancelling" \in Attached /\ "done" \in Attached /\ "cancelling" \notin Finished
      /\ "cancelling" \notin {"unused", "queued"}
  BY DEF Attached, Switching, Finished
<1>7. LoadsBehind'
  <2> SUFFICES ASSUME NEW t \in Services, NEW h \in Gens
               PROVE  /\ sess'[t][h] # "none" => pc'[t][h] \in Attached \cup {"releasing"}
                      /\ active'[t] = h \/ h \in listening'[t] \/ peersOf'[t] = h => pc'[t][h] \in Attached
                      /\ player' = <<t, h>> => pc'[t][h] \in {"cancelling", "done"}
                      /\ pc'[t][h] = "cancelling" /\ player'[1] = t => player'[2] = h
    BY DEF LoadsBehind
  <2>1. CASE t = s /\ h = g
    BY <1>1, <1>5, <1>6, <2>1
  <2>2. CASE ~(t = s /\ h = g)
    <3>1. /\ pc'[t][h] = pc[t][h] /\ sess'[t][h] = sess[t][h] /\ player' # <<t, h>>
          /\ (h \in listening'[t] => h \in listening[t])
      BY <1>1, <1>2, <1>3, <1>5, <2>2
    <3>2. t = s => pc[t][h] # "cancelling"
      BY <1>1, <1>6, <2>2, RunsAlone
    <3> QED BY <1>1, <3>1, <3>2 DEF SessInv, LoadsBehind
  <2> QED BY <2>1, <2>2
<1>8. PreviousOpen'
  BY <1>1, <1>2, <1>5, <1>6 DEF SessInv, PreviousOpen
<1>9. SessionsKept'
  <2> SUFFICES ASSUME NEW t \in Services
               PROVE  /\ active[t] # None => sess[t][active[t]] = "open"
                      /\ Living(t) =>
                           /\ active[t] # None => active[t] \in listening'[t]
                           /\ peersOf[t] # None => peersOf[t] = active[t]
                           /\ \A h \in Gens :
                                /\ h \in listening'[t] => h = active[t] \/ h < gen[t]
                                /\ sess[t][h] \in {"closing", "disposed"} =>
                                     pc'[t][h] \in Finished /\ player' # <<t, h>>
    BY <1>1, <1>2 DEF SessionsKept, Living
  <2>1. active[s] # None => active[s] # prev[s][g]
    BY DEF SessInv, PreviousOpen
  <2>2. ASSUME NEW h \in Gens, Living(t), sess[t][h] \in {"closing", "disposed"}
        PROVE  pc'[t][h] \in Finished /\ player' # <<t, h>>
    <3>1. pc[t][h] \in Finished
      BY <2>2 DEF SessInv, SessionsKept
    <3>2. ~(t = s /\ h = g)
      BY <1>1, <1>6, <3>1
    <3> QED BY <1>1, <1>5, <3>1, <3>2
  <2> QED BY <1>3, <2>1, <2>2 DEF SessInv, SessionsKept
<1> QED BY <1>7, <1>8, <1>9 DEF SessInv

LEMMA CancelledSess ==
  ASSUME TypeOK, OrderInv, SessInv, NEW s \in Services, NEW g \in Gens, SubCancelled(s, g)
  PROVE  SessInv'
<1> DEFINE p == prev[s][g]
<1>1. /\ pc[s][g] = "cancelling"
      /\ UNCHANGED <<gen, phase, active, activeSub, listening, peersOf, player>>
      /\ p \in Gens \cup {None}
  BY SessTypes DEF SubCancelled
<1>2. \A t \in Services, h \in Gens :
        /\ pc'[t][h] = IF t = s /\ h = g THEN "done" ELSE pc[t][h]
        /\ prev'[t][h] = IF t = s /\ h = g THEN None ELSE prev[t][h]
        /\ prevSub'[t][h] = IF t = s /\ h = g THEN None ELSE prevSub[t][h]
  BY Finishes DEF SubCancelled, Stages, Finished
<1>3. \A t \in Services, h \in Gens :
        sess'[t][h] = IF t = s /\ h = p THEN "closing" ELSE sess[t][h]
  <2>1. CASE p = None
    BY <2>1, SessTypes DEF SubCancelled, ScheduleDispose
  <2>2. CASE p # None
    <3>1. p \in Gens /\ sess' = [sess EXCEPT ![s][p] = "closing"]
      BY <1>1, <2>2 DEF SubCancelled, ScheduleDispose
    <3> QED BY <3>1, SessTypes
  <2> QED BY <2>1, <2>2
<1>4. p # None => p \in Gens /\ p < g /\ sess[s][p] = "open" /\ active[s] # p
  BY <1>1 DEF SessInv, PreviousOpen
<1>5. /\ "cancelling" \notin Finished \cup {"unused", "queued"} /\ "done" \in Attached
      /\ "done" \in Finished
  BY DEF Attached, Switching, Finished
<1>6. p # None => pc[s][p] \in Finished /\ player # <<s, p>> /\ p # g
  <2> SUFFICES ASSUME p # None PROVE pc[s][p] \in Finished /\ player # <<s, p>> /\ p # g
    OBVIOUS
  <2>1. p # g
    BY <1>4, SessTypes
  <2>2. pc[s][p] \in Finished
    BY <1>1, <1>4, <1>5 DEF OrderInv, LoadsInOrder
  <2>3. player[1] = s => player[2] = g
    BY <1>1 DEF SessInv, LoadsBehind
  <2> QED BY <2>1, <2>2, <2>3
<1>7. \A h \in Gens : prev'[s][h] = None
  BY <1>1, <1>2, <1>5, OnePrevious
<1> HIDE DEF p
<1>8. LoadsBehind'
  <2> SUFFICES ASSUME NEW t \in Services, NEW h \in Gens
               PROVE  /\ sess'[t][h] # "none" => pc'[t][h] \in Attached \cup {"releasing"}
                      /\ active[t] = h \/ h \in listening[t] \/ peersOf[t] = h => pc'[t][h] \in Attached
                      /\ player = <<t, h>> => pc'[t][h] \in {"cancelling", "done"}
                      /\ pc'[t][h] = "cancelling" /\ player[1] = t => player[2] = h
    BY <1>1 DEF LoadsBehind
  <2>1. CASE t = s /\ h = g
    BY <1>2, <1>5, <2>1
  <2>2. CASE ~(t = s /\ h = g)
    <3>1. pc'[t][h] = pc[t][h] /\ (sess'[t][h] # "none" => sess[t][h] # "none")
      <4>1. h # None
        BY SessTypes
      <4> QED BY <1>2, <1>3, <1>4, <2>2, <4>1
    <3> QED BY <3>1 DEF SessInv, LoadsBehind
  <2> QED BY <2>1, <2>2
<1>9. PreviousOpen'
  <2> SUFFICES ASSUME NEW t \in Services
               PROVE  /\ activeSub[t] = active[t]
                      /\ \A h \in Gens :
                           /\ prevSub'[t][h] = prev'[t][h]
                           /\ prev'[t][h] # None =>
                                /\ prev'[t][h] < h /\ pc'[t][h] \in Switching
                                /\ sess'[t][prev'[t][h]] = "open" /\ active[t] # prev'[t][h]
    BY <1>1 DEF PreviousOpen
  <2>1. CASE t = s
    BY <1>2, <1>7, <2>1 DEF SessInv, PreviousOpen
  <2>2. CASE t # s
    <3>1. \A h \in Gens : /\ prev'[t][h] = prev[t][h] /\ prevSub'[t][h] = prevSub[t][h]
                          /\ pc'[t][h] = pc[t][h] /\ sess'[t][h] = sess[t][h]
      BY <1>2, <1>3, <2>2
    <3>2. \A h \in Gens : prev[t][h] # None => prev[t][h] \in Gens
      BY SessTypes
    <3> QED BY <3>1, <3>2 DEF SessInv, PreviousOpen
  <2> QED BY <2>1, <2>2
<1>10. SessionsKept'
  <2> SUFFICES ASSUME NEW t \in Services
               PROVE  /\ active[t] # None => sess'[t][active[t]] = "open"
                      /\ Living(t) =>
                           /\ active[t] # None => active[t] \in listening[t]
                           /\ peersOf[t] # None => peersOf[t] = active[t]
                           /\ \A h \in Gens :
                                /\ h \in listening[t] => h = active[t] \/ h < gen[t]
                                /\ sess'[t][h] \in {"closing", "disposed"} =>
                                     pc'[t][h] \in Finished /\ player # <<t, h>>
    BY <1>1 DEF SessionsKept, Living
  <2>1. active[t] # None => sess'[t][active[t]] = "open"
    <3>1. active[t] # None => active[t] \in Gens /\ ~(t = s /\ active[t] = p)
      BY <1>4, SessTypes
    <3> QED BY <1>3, <3>1 DEF SessInv, SessionsKept
  <2>2. ASSUME NEW h \in Gens, Living(t), sess'[t][h] \in {"closing", "disposed"}
        PROVE  pc'[t][h] \in Finished /\ player # <<t, h>>
    <3>1. CASE t = s /\ h = p
      <4>1. p # None
        BY <3>1, SessTypes
      <4> QED BY <1>2, <1>6, <3>1, <4>1
    <3>2. CASE ~(t = s /\ h = p)
      <4>1. pc[t][h] \in Finished /\ player # <<t, h>>
        BY <1>3, <2>2, <3>2 DEF SessInv, SessionsKept
      <4> QED BY <1>2, <1>5, <4>1
    <3> QED BY <3>1, <3>2
  <2> QED BY <2>1, <2>2 DEF SessInv, SessionsKept
<1> QED BY <1>8, <1>9, <1>10 DEF SessInv

\* A step that touches neither the loads nor the sessions; the player may stop,
\* a service may be born or be disposed of.
LEMMA RestSess ==
  ASSUME TypeOK, SessInv, UNCHANGED <<pc, prev, prevSub, gen, sessVars>>,
         player' \in {player, Idle}, \A s \in Services : Living(s)' => Living(s)
  PROVE  SessInv'
<1>1. UNCHANGED <<pc, prev, prevSub, gen, active, activeSub, sess, listening, peersOf>>
  OBVIOUS
<1>2. \A t \in Services : Idle[1] # t /\ \A h \in Gens : Idle # <<t, h>>
  BY PlaybackAssumption DEF Idle, Services
<1>3. LoadsBehind'
  BY <1>1, <1>2 DEF SessInv, LoadsBehind
<1>4. PreviousOpen'
  BY <1>1 DEF SessInv, PreviousOpen
<1>5. SessionsKept'
  BY <1>1, <1>2 DEF SessInv, SessionsKept, Living
<1> QED BY <1>3, <1>4, <1>5 DEF SessInv

\* A scheduled dispose runs: nobody needs that session any more.
LEMMA FiresSess ==
  ASSUME TypeOK, SessInv, NEW s \in Services, NEW g \in Gens, DisposeFires(s, g)
  PROVE  SessInv'
<1>1. \A t \in Services, h \in Gens :
        sess'[t][h] = IF t = s /\ h = g THEN "disposed" ELSE sess[t][h]
  <2>1. sess' = [sess EXCEPT ![s][g] = "disposed"]
    BY DEF DisposeFires
  <2> QED BY <2>1, Changes, ZenonT(60)
<1>2. /\ UNCHANGED <<pc, prev, prevSub, gen, phase, active, activeSub, listening, peersOf, player>>
      /\ sess[s][g] = "closing"
  BY DEF DisposeFires
<1>3. LoadsBehind'
  BY <1>1, <1>2 DEF SessInv, LoadsBehind
<1>4. PreviousOpen'
  <2>1. \A t \in Services, h \in Gens : prev[t][h] # None => prev[t][h] \in Gens
    BY SessTypes
  <2>2. \A t \in Services, p \in Gens : sess[t][p] = "open" => sess'[t][p] = "open"
    BY <1>1, <1>2
  <2> QED BY <1>2, <2>1, <2>2 DEF SessInv, PreviousOpen
<1>5. SessionsKept'
  BY <1>1, <1>2, SessTypes DEF SessInv, SessionsKept, Living
<1> QED BY <1>3, <1>4, <1>5 DEF SessInv

\* A stats event that passes the guard is one of the attached session.
LEMMA TickSess ==
  ASSUME TypeOK, SessInv, NEW s \in Services, NEW g \in Gens, PeersTick(s, g)
  PROVE  SessInv'
<1>1. \A t \in Services : peersOf'[t] = IF t = s THEN g ELSE peersOf[t]
  BY SessTypes DEF PeersTick
<1>2. /\ UNCHANGED <<pc, prev, prevSub, gen, phase, active, activeSub, sess, listening, player>>
      /\ g \in listening[s] /\ g = gen[s]
  BY DEF PeersTick
<1>3. LoadsBehind'
  BY <1>1, <1>2 DEF SessInv, LoadsBehind
<1>4. PreviousOpen'
  BY <1>2 DEF SessInv, PreviousOpen
<1>5. Living(s) => g = active[s]
  <2>1. gen[s] \in Nat
    BY SessTypes
  <2> QED BY <1>2, <2>1 DEF SessInv, SessionsKept
<1>6. SessionsKept'
  BY <1>1, <1>2, <1>5 DEF SessInv, SessionsKept, Living
<1> QED BY <1>3, <1>4, <1>6 DEF SessInv

\* dispose begins: the service stops listening.
LEMMA DisposeStartsSess ==
  ASSUME TypeOK, SessInv, NEW s \in Services, DisposeStarts(s)
  PROVE  SessInv'
<1>1. \A t \in Services : listening'[t] = IF t = s THEN listening[s] \ {activeSub[s]} ELSE listening[t]
  BY SessTypes DEF DisposeStarts
<1>2. /\ UNCHANGED <<pc, prev, prevSub, gen, active, activeSub, sess, peersOf, player>>
      /\ \A t \in Services : Living(t)' => t # s /\ Living(t)
  BY DEF DisposeStarts, Living, TypeOK
<1>3. LoadsBehind'
  BY <1>1, <1>2 DEF SessInv, LoadsBehind
<1>4. PreviousOpen'
  BY <1>2 DEF SessInv, PreviousOpen
<1>5. SessionsKept'
  BY <1>1, <1>2 DEF SessInv, SessionsKept, Living
<1> QED BY <1>3, <1>4, <1>5 DEF SessInv

\* dispose takes the attached session over: no later load can replace it.
LEMMA DisposeTakesSess ==
  ASSUME TypeOK, SessInv, NEW s \in Services, DisposeTakesSession(s)
  PROVE  SessInv'
<1>1. /\ UNCHANGED <<pc, prev, prevSub, gen, listening, peersOf, player>>
      /\ \A t \in Services : Living(t)' => t # s /\ Living(t)
  BY DEF DisposeTakesSession, Living, TypeOK
<1>2. \A t \in Services : /\ active'[t] = IF t = s THEN None ELSE active[t]
                          /\ activeSub'[t] = IF t = s THEN None ELSE activeSub[t]
  BY SessTypes DEF DisposeTakesSession
<1>3. \A t \in Services, h \in Gens :
        sess'[t][h] = IF t = s /\ h = active[s] THEN "closing" ELSE sess[t][h]
  <2>1. CASE active[s] = None
    BY <2>1, SessTypes DEF DisposeTakesSession, ScheduleDispose
  <2>2. CASE active[s] # None
    <3>1. active[s] \in Gens /\ sess' = [sess EXCEPT ![s][active[s]] = "closing"]
      BY <2>2, SessTypes DEF DisposeTakesSession, ScheduleDispose
    <3> QED BY <3>1, SessTypes
  <2> QED BY <2>1, <2>2
<1>4. LoadsBehind'
  <2>1. \A t \in Services, h \in Gens : sess'[t][h] # "none" => sess[t][h] # "none" \/ active[t] = h
    BY <1>3
  <2>2. \A t \in Services, h \in Gens : active'[t] = h => active[t] = h
    BY <1>2, SessTypes
  <2> QED BY <1>1, <2>1, <2>2 DEF SessInv, LoadsBehind
<1>5. PreviousOpen'
  <2>1. \A t \in Services, h \in Gens : prev[t][h] # None => prev[t][h] \in Gens
    BY SessTypes
  <2>2. \A t \in Services, h \in Gens : prev[t][h] # None =>
          sess'[t][prev[t][h]] = "open" /\ active'[t] # prev[t][h]
    BY <1>2, <1>3, <2>1 DEF SessInv, PreviousOpen
  <2> QED BY <1>1, <1>2, <2>2 DEF SessInv, PreviousOpen
<1>6. SessionsKept'
  <2> SUFFICES ASSUME NEW t \in Services
               PROVE  /\ active'[t] # None => sess'[t][active'[t]] = "open"
                      /\ Living(t)' =>
                           /\ active'[t] # None => active'[t] \in listening[t]
                           /\ peersOf[t] # None => peersOf[t] = active'[t]
                           /\ \A h \in Gens :
                                /\ h \in listening[t] => h = active'[t] \/ h < gen[t]
                                /\ sess'[t][h] \in {"closing", "disposed"} =>
                                     pc[t][h] \in Finished /\ player # <<t, h>>
    BY <1>1 DEF SessionsKept
  <2>1. CASE t = s
    BY <1>1, <1>2, <2>1
  <2>2. CASE t # s
    <3>1. /\ active'[t] = active[t] /\ active[t] \in Gens \cup {None}
          /\ \A h \in Gens : sess'[t][h] = sess[t][h]
          /\ (Living(t)' => Living(t))
      BY <1>1, <1>2, <1>3, <2>2, SessTypes
    <3> QED BY <3>1 DEF SessInv, SessionsKept
  <2> QED BY <2>1, <2>2
<1> QED BY <1>4, <1>5, <1>6 DEF SessInv

LEMMA DropSess ==
  ASSUME TypeOK, OrderInv, SessInv, NEW s \in Services, NEW g \in Gens,
         pc[s][g] \in {"queued", "stopping", "asking", "resolving", "probing", "opening"},
         Finish(s, g, "dropped"), UNCHANGED <<gen, phase, sessVars>>, player' \in {player, Idle}
  PROVE  SessInv'
  BY AdvanceSess

\* Every step of a load.
LEMMA LoadSess ==
  ASSUME TypeOK, OrderInv, SessInv, NEW s \in Services, NEW g \in Gens, LoadStep(s, g)
  PROVE  SessInv'
<1>1. CASE StartLoad(s, g)
  <2>1. pc[s][g] = "queued" /\ UNCHANGED <<gen, phase, sessVars>> /\ player' = player
    BY <1>1 DEF StartLoad, Turn
  <2>2. Proceed(s, g, "stopping") \/ Finish(s, g, "dropped")
    BY <1>1 DEF StartLoad
  <2>3. Proceed(s, g, "stopping") => SessInv'
    BY <2>1, AdvanceSess
  <2>4. Finish(s, g, "dropped") => SessInv'
    BY <2>1, DropSess
  <2> QED BY <2>2, <2>3, <2>4
<1>2. CASE Stopped(s, g)
  <2>1. /\ pc[s][g] = "stopping" /\ UNCHANGED <<gen, phase, sessVars>>
        /\ player' \in {player, Idle} /\ Proceed(s, g, "asking")
    BY <1>2 DEF Stopped
  <2> QED BY <2>1, AdvanceSess
<1>3. CASE InfoArrived(s, g)
  <2>1. pc[s][g] = "asking" /\ UNCHANGED <<gen, phase, sessVars>> /\ player' = player
    BY <1>3 DEF InfoArrived
  <2>2. Proceed(s, g, "resolving") \/ Finish(s, g, "dropped")
    BY <1>3 DEF InfoArrived
  <2>3. Proceed(s, g, "resolving") => SessInv'
    BY <2>1, AdvanceSess
  <2>4. Finish(s, g, "dropped") => SessInv'
    BY <2>1, DropSess
  <2> QED BY <2>2, <2>3, <2>4
<1>4. CASE InfoThrows(s, g) \/ ResolveThrows(s, g) \/ OpenThrows(s, g)
  <2>1. /\ pc[s][g] \in {"asking", "resolving", "opening"}
        /\ UNCHANGED <<gen, phase, sessVars>> /\ player' = player /\ Finish(s, g, "dropped")
    BY <1>4 DEF InfoThrows, ResolveThrows, OpenThrows, Throws
  <2> QED BY <2>1, DropSess
<1>5. CASE Probed(s, g)
  <2>1. pc[s][g] = "probing" /\ UNCHANGED <<gen, phase, sessVars>> /\ player' = player
    BY <1>5 DEF Probed
  <2>2. Proceed(s, g, "opening") \/ Finish(s, g, "dropped")
    BY <1>5 DEF Probed
  <2>3. Proceed(s, g, "opening") => SessInv'
    BY <2>1, AdvanceSess
  <2>4. Finish(s, g, "dropped") => SessInv'
    BY <2>1, DropSess
  <2> QED BY <2>2, <2>3, <2>4
<1>6. ASSUME NEW torrent \in BOOLEAN, ResolvedStale(s, g, torrent) PROVE SessInv'
  <2>1. CASE torrent
    <3>1. ResolvedStale(s, g, TRUE)
      BY <1>6, <2>1 DEF ResolvedStale
    <3> QED BY <3>1, StaleSess
  <2>2. CASE ~torrent
    <3>1. /\ pc[s][g] = "resolving" /\ UNCHANGED <<gen, phase, sessVars>> /\ player' = player
          /\ Finish(s, g, "dropped")
      BY <1>6, <2>2 DEF ResolvedStale
    <3> QED BY <3>1, DropSess
  <2> QED BY <2>1, <2>2
<1>7. ASSUME NEW torrent \in BOOLEAN, NEW loopback \in BOOLEAN,
             ResolvedSwap(s, g, torrent, loopback)
      PROVE  SessInv'
  BY <1>7, SwapSess
<1> QED
  BY <1>1, <1>2, <1>3, <1>4, <1>5, <1>6, <1>7, ReleasedSess, OpenedSess, CancelledSess
     DEF LoadStep

\* A user's request, or the end of a track, that asks for a load.
LEMMA RequestSess ==
  ASSUME TypeOK, OrderInv, SessInv, NEW s \in Services,
         Asking(s) /\ LoadAndPlayCurrent(s)
  PROVE  SessInv'
  BY AskSess DEF LoadAndPlayCurrent

LEMMA UserSess ==
  ASSUME TypeOK, OrderInv, SessInv, NEW s \in Services, UserStep(s) \/ OnCompleted(s)
  PROVE  SessInv'
<1>1. ASSUME NEW i \in 0 .. Len(queue[s]) - 1, MoveTo(s, i), UNCHANGED player
      PROVE  SessInv'
  BY <1>1, MoveAsks, RequestSess DEF MoveTo
<1>2. ASSUME NEW q \in Queues, NEW i \in 0 .. Len(q) - 1, PlayQueueAt(s, q, i)
      PROVE  SessInv'
  <2>1. gen[s] \in 0 .. MaxGen /\ LoadBound[s] \in 0 .. MaxGen
    BY PlaybackAssumption DEF TypeOK, Services
  <2>2. gen[s] + 1 \in Gens
    BY <1>2, <2>1, PlaybackAssumption DEF PlayQueueAt, LoadAndPlayCurrent, Gens
  <2>3. HasCurrent(queue'[s], index'[s])
    BY <1>2 DEF TypeOK, PlayQueueAt, HasCurrent
  <2>4. Asking(s) /\ LoadAndPlayCurrent(s)
    BY <1>2, <2>2, <2>3 DEF Asking, PlayQueueAt, LoadAndPlayCurrent, TypeOK
  <2> QED BY <2>4, RequestSess
<1>3. CASE SkipNext(s)
  <2>1. PICK i \in Picks(s, FALSE) : MoveTo(s, i)
    BY <1>3 DEF SkipNext
  <2>2. i \in 0 .. Len(queue[s]) - 1 /\ UNCHANGED player
    BY <1>3, NextIndexesInQueue DEF Picks, SkipNext
  <2> QED BY <1>1, <2>1, <2>2
<1>4. CASE SkipPrevious(s)
  <2>1. index[s] - 1 \in 0 .. Len(queue[s]) - 1
    BY <1>4, QueueShape DEF SkipPrevious, TypeOK
  <2> QED BY <1>1, <1>4, <2>1 DEF SkipPrevious
<1>5. CASE CycleRepeatMode(s) \/ ToggleShuffle(s)
  <2>1. UNCHANGED <<phase, gen, loadVars, sessVars, player>>
    BY <1>5 DEF CycleRepeatMode, ToggleShuffle, ChangeMode
  <2> QED BY <2>1, RestSess DEF Living
<1>6. CASE OnCompleted(s)
  <2>1. ASSUME NEW i \in Picks(s, TRUE), MoveTo(s, i) PROVE SessInv'
    <3>1. i \in 0 .. Len(queue[s]) - 1 /\ UNCHANGED player
      BY <1>6, <2>1, NextIndexesInQueue DEF Picks, OnCompleted
    <3> QED BY <1>1, <2>1, <3>1
  <2>2. CASE UNCHANGED <<snapVars, phase, gen, loadVars, sessVars>>
    BY <1>6, <2>2, RestSess DEF OnCompleted, Living
  <2> QED BY <1>6, <2>1, <2>2 DEF OnCompleted
<1> QED BY <1>2, <1>3, <1>4, <1>5, <1>6 DEF UserStep

LEMMA StepSess == TypeOK /\ OrderInv /\ SessInv /\ [Next]_vars => SessInv'
<1> SUFFICES ASSUME TypeOK, OrderInv, SessInv, [Next]_vars PROVE SessInv'
  OBVIOUS
<1>1. CASE PlayerEnds \/ CompletedUnheard \/ UNCHANGED vars
  <2>1. UNCHANGED <<phase, gen, loadVars, sessVars, player>>
    BY <1>1 DEF PlayerEnds, CompletedUnheard, vars
  <2> QED BY <2>1, RestSess DEF Living
<1>2. ASSUME NEW s \in Services, DisposeStopped(s) \/ Rebuild(s) PROVE SessInv'
  <2>1. UNCHANGED <<gen, loadVars, sessVars>> /\ player' \in {player, Idle}
    BY <1>2 DEF DisposeStopped, Rebuild
  <2>2. \A t \in Services : Living(t)' => Living(t)
    BY <1>2 DEF DisposeStopped, Rebuild, Living, TypeOK
  <2> QED BY <2>1, <2>2, RestSess
<1> QED
  BY <1>1, <1>2, UserSess, LoadSess, FiresSess, TickSess, DisposeStartsSess, DisposeTakesSess
     DEF Next, ServiceStep

LEMMA SessionsHold == Spec => [](TypeOK /\ OrderInv /\ SessInv)
<1>1. Init => OrderInv /\ SessInv
  BY InitOrder, InitSess
<1>2. TypeOK /\ OrderInv /\ SessInv /\ [Next]_vars => OrderInv' /\ SessInv'
  BY StepOrder, StepSess
<1> QED BY <1>1, <1>2, TypeCorrect, PTL DEF Spec

\* The session behind what a living service plays is open: no switch, failure,
\* preempted load or late timer disposes of it (lines 232-236 and 413-417).
THEOREM SourceStaysServed == Spec => []SourceServed
<1>1. TypeOK /\ SessInv => SourceServed
  BY SessTypes DEF SessInv, SessionsKept, SourceServed, Living
<1> QED BY <1>1, SessionsHold, PTL

\* The peer count shown by a living service is the attached session's: an event
\* of a session left behind does not pass the guard of line 469.
THEOREM PeersShownAreActive == Spec => []PeersOfActive
<1>1. SessInv => PeersOfActive
  BY DEF SessInv, SessionsKept, PeersOfActive, Living
<1> QED BY <1>1, SessionsHold, PTL

\* The attached session of a living service is open and listened to, whatever
\* becomes of the load that attached it and of those asked for later.
THEOREM ActiveStaysUsable == Spec => []ActiveUsable
<1>1. SessInv => ActiveUsable
  BY DEF SessInv, SessionsKept, ActiveUsable, Living
<1> QED BY <1>1, SessionsHold, PTL

\* What a step does for good: it leaves the disposed sessions disposed, and
\* attaches none that is closed.
EndsKept ==
  \A s \in Services, g \in Gens :
    /\ sess[s][g] = "disposed" => sess'[s][g] = "disposed"
    /\ sess[s][g] \in {"closing", "disposed"} => active'[s] # g

\* The attached session is not closed, so neither changing nothing, nor
\* detaching it, nor closing an open session attaches a closed one.
LEMMA KeepingEnds ==
  ASSUME TypeOK, SessInv,
         \A t \in Services : active'[t] \in {active[t], None},
         \A t \in Services, h \in Gens : sess[t][h] = "disposed" => sess'[t][h] = "disposed"
  PROVE  EndsKept
<1> SUFFICES ASSUME NEW t \in Services, NEW h \in Gens, sess[t][h] \in {"closing", "disposed"}
             PROVE  active'[t] # h
  BY DEF EndsKept
<1>1. active[t] # h
  BY SessTypes, ZenonT(60) DEF SessInv, SessionsKept
<1> QED BY <1>1, SessTypes

LEMMA ClosingKeeps ==
  ASSUME TypeOK, NEW s \in Services, NEW p \in Gens \cup {None}, ScheduleDispose(s, p),
         p # None => sess[s][p] = "open"
  PROVE  \A t \in Services, h \in Gens : sess[t][h] = "disposed" => sess'[t][h] = "disposed"
<1>1. CASE p = None
  BY <1>1 DEF ScheduleDispose
<1>2. CASE p # None
  <2>1. p \in Gens /\ sess' = [sess EXCEPT ![s][p] = "closing"]
    BY <1>2 DEF ScheduleDispose
  <2> QED BY <1>2, <2>1, SessTypes
<1> QED BY <1>1, <1>2

LEMMA LoadEnds ==
  ASSUME TypeOK, SessInv, NEW s \in Services, NEW g \in Gens, LoadStep(s, g)
  PROVE  EndsKept
<1>1. CASE UNCHANGED sessVars
  BY <1>1, KeepingEnds DEF sessVars
<1>2. pc[s][g] = "resolving" => sess[s][g] = "none"
  BY DEF SessInv, LoadsBehind, Attached, Switching, Finished
<1>3. prev[s][g] \in Gens \cup {None} /\ (prev[s][g] # None => sess[s][prev[s][g]] = "open")
  BY SessTypes DEF SessInv, PreviousOpen
<1>4. ASSUME NEW torrent \in BOOLEAN, ResolvedStale(s, g, torrent) PROVE EndsKept
  <2>1. \A t \in Services, h \in Gens : sess[t][h] = "disposed" => sess'[t][h] = "disposed"
    <3>1. CASE torrent
      <4>1. sess' = [sess EXCEPT ![s][g] = "open"] /\ sess[s][g] = "none"
        BY <1>2, <1>4, <3>1 DEF ResolvedStale
      <4> QED BY <4>1, SessTypes
    <3>2. CASE ~torrent
      BY <1>4, <3>2 DEF ResolvedStale
    <3> QED BY <3>1, <3>2
  <2> QED BY <1>4, <2>1, KeepingEnds DEF ResolvedStale
<1>5. ASSUME NEW torrent \in BOOLEAN, NEW loopback \in BOOLEAN,
             ResolvedSwap(s, g, torrent, loopback)
      PROVE  EndsKept
  <2>1. sess[s][g] = "none"
    BY <1>2, <1>5 DEF ResolvedSwap
  <2>2. \A t \in Services, h \in Gens : sess[t][h] = "disposed" => sess'[t][h] = "disposed"
    <3>1. CASE torrent
      <4>1. sess' = [sess EXCEPT ![s][g] = "open"]
        BY <1>5, <3>1 DEF ResolvedSwap
      <4> QED BY <2>1, <4>1, SessTypes
    <3>2. CASE ~torrent
      BY <1>5, <3>2 DEF ResolvedSwap
    <3> QED BY <3>1, <3>2
  <2>3. \A t \in Services : active'[t] = IF t = s THEN (IF torrent THEN g ELSE None) ELSE active[t]
    BY <1>5, SessTypes DEF ResolvedSwap
  <2>4. ASSUME NEW t \in Services, NEW h \in Gens, sess[t][h] \in {"closing", "disposed"}
        PROVE  active'[t] # h
    <3>1. active[t] # h
      BY <2>4, SessTypes DEF SessInv, SessionsKept
    <3> QED BY <2>1, <2>3, <2>4, <3>1, SessTypes
  <2> QED BY <2>2, <2>4 DEF EndsKept
<1>6. CASE Released(s, g)
  <2>1. \A t \in Services, h \in Gens : sess[t][h] = "disposed" => sess'[t][h] = "disposed"
    BY <1>6, Changes DEF Released
  <2> QED BY <1>6, <2>1, KeepingEnds DEF Released
<1>7. CASE Opened(s, g)
  <2>1. UNCHANGED sess
    BY <1>7 DEF Opened, ScheduleDispose, SessInv, PreviousOpen
  <2> QED BY <1>7, <2>1, KeepingEnds DEF Opened
<1>8. CASE SubCancelled(s, g)
  <2>1. \A t \in Services, h \in Gens : sess[t][h] = "disposed" => sess'[t][h] = "disposed"
    BY <1>3, <1>8, ClosingKeeps DEF SubCancelled
  <2> QED BY <1>8, <2>1, KeepingEnds DEF SubCancelled
<1>9. CASE \/ StartLoad(s, g) \/ Stopped(s, g) \/ InfoArrived(s, g) \/ Probed(s, g)
           \/ InfoThrows(s, g) \/ ResolveThrows(s, g) \/ OpenThrows(s, g)
  <2>1. UNCHANGED sessVars
    BY <1>9 DEF StartLoad, Stopped, InfoArrived, Probed, InfoThrows, ResolveThrows,
                OpenThrows, Throws
  <2> QED BY <1>1, <2>1
<1> QED BY <1>4, <1>5, <1>6, <1>7, <1>8, <1>9 DEF LoadStep

LEMMA StepEnds == TypeOK /\ SessInv /\ [Next]_vars => EndsKept
<1> SUFFICES ASSUME TypeOK, SessInv, [Next]_vars PROVE EndsKept
  OBVIOUS
<1>1. CASE UNCHANGED sessVars
  BY <1>1, KeepingEnds DEF sessVars
<1>2. CASE PlayerEnds \/ CompletedUnheard \/ UNCHANGED vars
  BY <1>1, <1>2 DEF PlayerEnds, CompletedUnheard, vars
<1>3. ASSUME NEW s \in Services, UserStep(s) \/ OnCompleted(s) \/ DisposeStopped(s) \/ Rebuild(s)
      PROVE  EndsKept
  BY <1>1, <1>3
     DEF UserStep, PlayQueueAt, SkipNext, SkipPrevious, CycleRepeatMode, ToggleShuffle,
         ChangeMode, OnCompleted, MoveTo, LoadAndPlayCurrent, DisposeStopped, Rebuild
<1>4. ASSUME NEW s \in Services, DisposeStarts(s) PROVE EndsKept
  BY <1>4, KeepingEnds DEF DisposeStarts
<1>5. ASSUME NEW s \in Services, DisposeTakesSession(s) PROVE EndsKept
  <2>1. active[s] \in Gens \cup {None} /\ (active[s] # None => sess[s][active[s]] = "open")
    BY SessTypes DEF SessInv, SessionsKept
  <2>2. \A t \in Services, h \in Gens : sess[t][h] = "disposed" => sess'[t][h] = "disposed"
    BY <1>5, <2>1, ClosingKeeps DEF DisposeTakesSession
  <2>3. \A t \in Services : active'[t] \in {active[t], None}
    BY <1>5, SessTypes DEF DisposeTakesSession
  <2> QED BY <2>2, <2>3, KeepingEnds
<1>6. ASSUME NEW s \in Services, NEW g \in Gens, DisposeFires(s, g) PROVE EndsKept
  <2>1. \A t \in Services, h \in Gens : sess[t][h] = "disposed" => sess'[t][h] = "disposed"
    BY <1>6, Changes DEF DisposeFires
  <2> QED BY <1>6, <2>1, KeepingEnds DEF DisposeFires
<1>7. ASSUME NEW s \in Services, NEW g \in Gens, PeersTick(s, g) PROVE EndsKept
  BY <1>7, KeepingEnds DEF PeersTick
<1> QED BY <1>2, <1>3, <1>4, <1>5, <1>6, <1>7, LoadEnds DEF Next, ServiceStep

\* A disposed session stays disposed and a closing one is never attached again:
\* two loads never share a session, and a replaced one is out of their reach.
THEOREM SessionsEndForGood == Spec => SessionsEnd
<1>1. TypeOK /\ SessInv /\ [Next]_vars => [EndsKept]_vars
  BY StepEnds
<1>2. SessionsEnd <=> [][EndsKept]_vars
  BY DEF SessionsEnd, EndsKept
<1> QED BY <1>1, <1>2, SessionsHold, PTL DEF Spec

-----------------------------------------------------------------------------
(* The sessions that are forgotten. *)

\* An open session whose load has ended, which is not the attached one and which
\* no load holds to dispose of.
Forgotten(s, g) ==
  /\ sess[s][g] = "open"
  /\ pc[s][g] \in Finished
  /\ active[s] # g
  /\ \A h \in Gens : prev[s][h] # g

\* Nothing brings such a session back, or ends it or the listening to its stats;
\* a load that ends without opening its source leaves the one it took over so.
ForgottenForGood ==
  [][\A s \in Services, g \in Gens :
       /\ Forgotten(s, g) => Forgotten(s, g)' /\ (g \in listening[s] => g \in listening'[s])
       /\ \A h \in Gens : prev[s][h] = g /\ pc'[s][h] = "dropped" => Forgotten(s, g)']_vars

\* What a step keeps of a forgotten session.
Unheeded(s, g) ==
  /\ sess'[s][g] = "open"
  /\ active'[s] # g
  /\ \A h \in Gens : prev'[s][h] # g
  /\ g \in listening[s] => g \in listening'[s]

LEMMA FinishedStays ==
  ASSUME TypeOK, OrderInv, [Next]_vars, NEW s \in Services, NEW g \in Gens, pc[s][g] \in Finished
  PROVE  pc'[s][g] = pc[s][g]
<1>1. ASSUME NEW t \in Services, Asking(t) PROVE pc'[s][g] = pc[s][g]
  <2>1. gen[t] + 1 \in Gens /\ pc' = [pc EXCEPT ![t][gen[t] + 1] = "queued"]
    BY <1>1 DEF Asking
  <2>2. pc[t][gen[t] + 1] = "unused"
    BY <2>1, SessTypes DEF OrderInv, AskedLoads
  <2>3. s # t \/ g # gen[t] + 1
    BY <2>2 DEF Finished
  <2> QED BY <2>1, <2>3, SessTypes
<1>2. ASSUME NEW t \in Services, NEW k \in Gens, Moving(t, k) PROVE pc'[s][g] = pc[s][g]
  BY <1>2, MoveStages
<1> QED BY <1>1, <1>2, StepKinds DEF Quiet

\* A load that goes on or ends without touching a session forgets its own only.
LEMMA EndUnheeded ==
  ASSUME TypeOK, NEW t \in Services, NEW k \in Gens, NEW stage \in Stages,
         Finish(t, k, stage) \/ Proceed(t, k, stage), UNCHANGED sessVars,
         NEW s \in Services, NEW g \in Gens, Forgotten(s, g)
  PROVE  Unheeded(s, g)
<1>1. \A h \in Gens : prev'[s][h] \in {prev[s][h], None}
  BY Finishes, Proceeds
<1> QED BY <1>1, SessTypes DEF Forgotten, Unheeded

\* Session p, none or another one, is scheduled to be disposed of.
LEMMA ScheduleOther ==
  ASSUME TypeOK, NEW t \in Services, NEW p \in Gens \cup {None}, ScheduleDispose(t, p),
         NEW s \in Services, NEW g \in Gens, s # t \/ g # p
  PROVE  sess'[s][g] = sess[s][g]
<1>1. CASE p = None
  BY <1>1 DEF ScheduleDispose
<1>2. CASE p # None
  <2>1. p \in Gens /\ sess' = [sess EXCEPT ![t][p] = "closing"]
    BY <1>2 DEF ScheduleDispose
  <2> QED BY <2>1, Changes
<1> QED BY <1>1, <1>2

LEMMA LoadUnheeded ==
  ASSUME TypeOK, OrderInv, SessInv, NEW t \in Services, NEW k \in Gens, LoadStep(t, k),
         NEW s \in Services, NEW g \in Gens, Forgotten(s, g)
  PROVE  Unheeded(s, g)
<1>1. /\ sess[s][g] = "open" /\ pc[s][g] \in Finished /\ active[s] # g
      /\ \A h \in Gens : prev[s][h] # g
  BY DEF Forgotten
<1>2. s # t \/ g # k
  BY <1>1, LoadMoves, MoveStages
<1>3. prev[t][k] \in Gens \cup {None} /\ prevSub[t][k] = prev[t][k]
  BY SessTypes DEF SessInv, PreviousOpen
<1>4. CASE \/ StartLoad(t, k) \/ Stopped(t, k) \/ InfoArrived(t, k) \/ Probed(t, k)
           \/ InfoThrows(t, k) \/ ResolveThrows(t, k) \/ OpenThrows(t, k)
  <2>1. UNCHANGED sessVars
    BY <1>4 DEF StartLoad, Stopped, InfoArrived, Probed, InfoThrows, ResolveThrows,
                OpenThrows, Throws
  <2>2. \E stage \in Stages : Finish(t, k, stage) \/ Proceed(t, k, stage)
    BY <1>4 DEF StartLoad, Stopped, InfoArrived, Probed, InfoThrows, ResolveThrows,
                OpenThrows, Throws, Stages, Running, Finished
  <2> QED BY <2>1, <2>2, EndUnheeded
<1>5. ASSUME NEW torrent \in BOOLEAN, ResolvedStale(t, k, torrent) PROVE Unheeded(s, g)
  <2>1. CASE torrent
    <3>1. /\ sess' = [sess EXCEPT ![t][k] = "open"]
          /\ UNCHANGED <<prev, active, listening>>
      BY <1>5, <2>1 DEF ResolvedStale, Proceed
    <3>2. sess'[s][g] = sess[s][g]
      BY <1>2, <3>1, Changes
    <3> QED BY <1>1, <3>1, <3>2 DEF Unheeded
  <2>2. CASE ~torrent
    <3>1. Finish(t, k, "dropped") /\ UNCHANGED sessVars /\ "dropped" \in Stages
      BY <1>5, <2>2 DEF ResolvedStale, Stages, Finished
    <3> QED BY <3>1, EndUnheeded
  <2> QED BY <2>1, <2>2
<1>6. ASSUME NEW torrent \in BOOLEAN, NEW loopback \in BOOLEAN,
             ResolvedSwap(t, k, torrent, loopback)
      PROVE  Unheeded(s, g)
  <2>1. \A h \in Gens : prev'[s][h] = IF s = t /\ h = k THEN active[t] ELSE prev[s][h]
    BY <1>6, SessTypes DEF ResolvedSwap
  <2>2. active'[s] = IF s = t THEN (IF torrent THEN k ELSE None) ELSE active[s]
    BY <1>6, SessTypes DEF ResolvedSwap
  <2>3. sess'[s][g] = sess[s][g]
    <3>1. CASE torrent
      <4>1. sess' = [sess EXCEPT ![t][k] = "open"]
        BY <1>6, <3>1 DEF ResolvedSwap
      <4> QED BY <1>2, <4>1, Changes
    <3>2. CASE ~torrent
      BY <1>6, <3>2 DEF ResolvedSwap
    <3> QED BY <3>1, <3>2
  <2>4. g \in listening[s] => g \in listening'[s]
    BY <1>6, SessTypes DEF ResolvedSwap
  <2> QED BY <1>1, <1>2, <2>1, <2>2, <2>3, <2>4, SessTypes DEF Unheeded
<1>7. CASE Released(t, k)
  <2>1. /\ sess' = [sess EXCEPT ![t][k] = "disposed"]
        /\ UNCHANGED <<active, listening>> /\ Finish(t, k, "dropped") /\ "dropped" \in Stages
    BY <1>7 DEF Released, Stages, Finished
  <2>2. sess'[s][g] = sess[s][g]
    BY <1>2, <2>1, Changes
  <2>3. \A h \in Gens : prev'[s][h] \in {prev[s][h], None}
    BY <2>1, Finishes
  <2> QED BY <1>1, <2>1, <2>2, <2>3, SessTypes DEF Unheeded
<1>8. CASE Opened(t, k)
  <2>1. /\ active' = active
        /\ listening' = [listening EXCEPT ![t] = @ \ {prev[t][k]}]
        /\ \/ Finish(t, k, "done") \/ Proceed(t, k, "cancelling")
        /\ "done" \in Stages /\ "cancelling" \in Stages
    BY <1>3, <1>8 DEF Opened, Stages, Running, Finished
  <2>2. sess' = sess
    BY <1>3, <1>8 DEF Opened, ScheduleDispose
  <2>3. \A h \in Gens : prev'[s][h] \in {prev[s][h], None}
    BY <2>1, Finishes, Proceeds
  <2>4. g \in listening[s] => g \in listening'[s]
    BY <1>1, <2>1, SessTypes
  <2> QED BY <1>1, <2>1, <2>2, <2>3, <2>4, SessTypes DEF Unheeded
<1>9. CASE SubCancelled(t, k)
  <2>1. /\ UNCHANGED <<active, listening>> /\ Finish(t, k, "done") /\ "done" \in Stages
        /\ ScheduleDispose(t, prev[t][k])
    BY <1>9 DEF SubCancelled, Stages, Finished
  <2>2. s # t \/ g # prev[t][k]
    BY <1>1
  <2>3. sess'[s][g] = sess[s][g]
    BY <1>3, <2>1, <2>2, ScheduleOther
  <2>4. \A h \in Gens : prev'[s][h] \in {prev[s][h], None}
    BY <2>1, Finishes
  <2> QED BY <1>1, <2>1, <2>3, <2>4, SessTypes DEF Unheeded
<1> QED BY <1>4, <1>5, <1>6, <1>7, <1>8, <1>9 DEF LoadStep

LEMMA StepUnheeded ==
  ASSUME TypeOK, OrderInv, SessInv, [Next]_vars, NEW s \in Services, NEW g \in Gens,
         Forgotten(s, g)
  PROVE  Unheeded(s, g)
<1>1. /\ sess[s][g] = "open" /\ pc[s][g] \in Finished /\ active[s] # g
      /\ \A h \in Gens : prev[s][h] # g
  BY DEF Forgotten
<1>2. CASE UNCHANGED <<prev, active, sess, listening>>
  BY <1>1, <1>2 DEF Unheeded
<1>3. CASE PlayerEnds \/ CompletedUnheard \/ UNCHANGED vars
  BY <1>2, <1>3 DEF PlayerEnds, CompletedUnheard, vars
<1>4. ASSUME NEW t \in Services, UserStep(t) \/ OnCompleted(t) \/ DisposeStopped(t) \/ Rebuild(t)
      PROVE  Unheeded(s, g)
  BY <1>2, <1>4
     DEF UserStep, PlayQueueAt, SkipNext, SkipPrevious, CycleRepeatMode, ToggleShuffle,
         ChangeMode, OnCompleted, MoveTo, LoadAndPlayCurrent, DisposeStopped, Rebuild
<1>5. ASSUME NEW t \in Services, DisposeStarts(t) PROVE Unheeded(s, g)
  <2>1. /\ UNCHANGED <<prev, active, sess>>
        /\ listening' = [listening EXCEPT ![t] = @ \ {active[t]}]
    BY <1>5 DEF DisposeStarts, SessInv, PreviousOpen
  <2>2. g \in listening[s] => g \in listening'[s]
    BY <1>1, <2>1, SessTypes
  <2> QED BY <1>1, <2>1, <2>2 DEF Unheeded
<1>6. ASSUME NEW t \in Services, DisposeTakesSession(t) PROVE Unheeded(s, g)
  <2>1. /\ UNCHANGED <<prev, listening>> /\ active' = [active EXCEPT ![t] = None]
        /\ ScheduleDispose(t, active[t]) /\ active[t] \in Gens \cup {None}
    BY <1>6, SessTypes DEF DisposeTakesSession
  <2>2. sess'[s][g] = sess[s][g]
    BY <1>1, <2>1, ScheduleOther
  <2>3. active'[s] # g
    BY <1>1, <2>1, SessTypes
  <2> QED BY <1>1, <2>1, <2>2, <2>3 DEF Unheeded
<1>7. ASSUME NEW t \in Services, NEW k \in Gens, DisposeFires(t, k) PROVE Unheeded(s, g)
  <2>1. /\ UNCHANGED <<prev, active, listening>> /\ sess[t][k] = "closing"
        /\ sess' = [sess EXCEPT ![t][k] = "disposed"]
    BY <1>7 DEF DisposeFires
  <2>2. sess'[s][g] = sess[s][g]
    BY <1>1, <2>1, Changes
  <2> QED BY <1>1, <2>1, <2>2 DEF Unheeded
<1>8. ASSUME NEW t \in Services, NEW k \in Gens, PeersTick(t, k) PROVE Unheeded(s, g)
  BY <1>2, <1>8 DEF PeersTick
<1> QED BY <1>3, <1>4, <1>5, <1>6, <1>7, <1>8, LoadUnheeded DEF Next, ServiceStep

\* Only the two ends of a load that has taken a session over drop it.
LEMMA DropForgets ==
  ASSUME TypeOK, OrderInv, SessInv, [Next]_vars, NEW s \in Services, NEW h \in Gens,
         prev[s][h] # None, pc'[s][h] = "dropped"
  PROVE  Probed(s, h) \/ OpenThrows(s, h)
<1>1. pc[s][h] \in Switching /\ pc[s][h] \notin {"queued", "unused"} \cup Finished
  BY DEF SessInv, PreviousOpen, Switching, Finished
<1>2. ~\E t \in Services : Asking(t)
  <2> SUFFICES ASSUME NEW t \in Services, Asking(t) PROVE FALSE
    OBVIOUS
  <2>1. gen[t] + 1 \in Gens /\ pc' = [pc EXCEPT ![t][gen[t] + 1] = "queued"]
    BY DEF Asking
  <2>2. pc'[s][h] \in {"queued", pc[s][h]}
    BY <2>1, SessTypes
  <2> QED BY <1>1, <2>2 DEF Finished
<1>3. ~Quiet
  BY <1>1 DEF Quiet, Finished
<1>4. PICK t \in Services, k \in Gens : LoadStep(t, k) /\ Moving(t, k)
  BY <1>2, <1>3, StepKinds
<1>5. t = s /\ k = h
  <2>1. t # s \/ k # h => pc'[s][h] = pc[s][h]
    BY <1>4, MoveStages
  <2> QED BY <1>1, <2>1 DEF Finished
<1>6. LoadStep(s, h)
  BY <1>4, <1>5
<1>7. ~Opened(s, h)
  <2> SUFFICES ASSUME Opened(s, h) PROVE FALSE
    OBVIOUS
  <2>1. pc' = [pc EXCEPT ![s][h] = "done"] \/ pc' = [pc EXCEPT ![s][h] = "cancelling"]
    BY DEF Opened, Finish, Proceed
  <2> QED BY <2>1, SessTypes
<1>8. ~SubCancelled(s, h)
  <2> SUFFICES ASSUME SubCancelled(s, h) PROVE FALSE
    OBVIOUS
  <2>1. pc' = [pc EXCEPT ![s][h] = "done"]
    BY DEF SubCancelled, Finish
  <2> QED BY <2>1, SessTypes
<1>9. ~(\/ StartLoad(s, h) \/ Stopped(s, h) \/ InfoArrived(s, h) \/ InfoThrows(s, h)
        \/ ResolveThrows(s, h) \/ Released(s, h))
  BY <1>1 DEF StartLoad, Turn, Stopped, InfoArrived, InfoThrows, ResolveThrows, Throws,
              Released, Switching
<1>10. \A torrent, loopback \in BOOLEAN :
         ~ResolvedStale(s, h, torrent) /\ ~ResolvedSwap(s, h, torrent, loopback)
  BY <1>1 DEF ResolvedStale, ResolvedSwap, Switching
<1> QED BY <1>6, <1>7, <1>8, <1>9, <1>10 DEF LoadStep

\* A load that is preempted after its probe, or whose open throws, leaves the
\* session it took over open for ever: no dispose is ever scheduled and its stats
\* are listened to for as long as the app runs, disposal of the service included
\* (lines 232-236 and 485-513 leave it to this load alone to end it).
THEOREM ForgottenStays == Spec => ForgottenForGood
<1> DEFINE Kept ==
      \A s \in Services, g \in Gens :
        /\ Forgotten(s, g) => Forgotten(s, g)' /\ (g \in listening[s] => g \in listening'[s])
        /\ \A h \in Gens : prev[s][h] = g /\ pc'[s][h] = "dropped" => Forgotten(s, g)'
<1>1. TypeOK /\ OrderInv /\ SessInv /\ [Next]_vars => [Kept]_vars
  <2> SUFFICES ASSUME TypeOK, OrderInv, SessInv, [Next]_vars, NEW s \in Services, NEW g \in Gens
               PROVE  /\ Forgotten(s, g) =>
                           Forgotten(s, g)' /\ (g \in listening[s] => g \in listening'[s])
                      /\ \A h \in Gens :
                           prev[s][h] = g /\ pc'[s][h] = "dropped" => Forgotten(s, g)'
    OBVIOUS
  <2>1. ASSUME Forgotten(s, g)
        PROVE  Forgotten(s, g)' /\ (g \in listening[s] => g \in listening'[s])
    BY <2>1, StepUnheeded, FinishedStays DEF Forgotten, Unheeded
  <2>2. ASSUME NEW h \in Gens, prev[s][h] = g, pc'[s][h] = "dropped" PROVE Forgotten(s, g)'
    <3>1. g # None /\ g < h
      BY <2>2, SessTypes DEF SessInv, PreviousOpen
    <3>2. pc[s][h] \in Switching /\ sess[s][g] = "open" /\ active[s] # g
      BY <2>2, <3>1 DEF SessInv, PreviousOpen
    <3>3. pc[s][g] \in Finished
      BY <3>1, <3>2 DEF OrderInv, LoadsInOrder, Switching
    <3>4. Probed(s, h) \/ OpenThrows(s, h)
      BY <2>2, <3>1, DropForgets
    <3>5. UNCHANGED <<sess, active>> /\ (Finish(s, h, "dropped") \/ Proceed(s, h, "opening"))
      BY <3>4 DEF Probed, OpenThrows, Throws
    <3>6. "dropped" \in Stages /\ "opening" \in Stages /\ "opening" # "dropped"
      BY DEF Stages, Running, Finished
    <3>7. Finish(s, h, "dropped")
      BY <2>2, <3>5, <3>6, Proceeds
    <3>8. \A k \in Gens : prev'[s][k] = IF k = h THEN None ELSE prev[s][k]
      BY <3>6, <3>7, Finishes
    <3>9. \A k \in Gens : k # h => prev[s][k] = None
      BY <3>2, OnePrevious DEF Switching, Finished
    <3>10. pc'[s][g] = pc[s][g]
      BY <3>3, FinishedStays
    <3> QED BY <3>1, <3>2, <3>3, <3>5, <3>8, <3>9, <3>10 DEF Forgotten
  <2> QED BY <2>1, <2>2
<1>2. ForgottenForGood <=> [][Kept]_vars
  BY DEF ForgottenForGood
<1> QED BY <1>1, <1>2, SessionsHold, PTL DEF Spec

LEMMA Scheduled ==
  ASSUME TypeOK, NEW s \in Services, NEW g \in Gens, ScheduleDispose(s, g)
  PROVE  sess'[s][g] = "closing"
<1>1. g # None /\ sess' = [sess EXCEPT ![s][g] = "closing"]
  BY SessTypes DEF ScheduleDispose
<1> QED BY <1>1, SessTypes

\* Every open session is in somebody's hands, or a later load was dropped: only a
\* load that ends between the swap and its open can lose one (lines 441-495).
LEMMA EndHeld ==
  ASSUME TypeOK, SessInv, NEW t \in Services, NEW k \in Gens, NEW stage \in Stages,
         Finish(t, k, stage) \/ Proceed(t, k, stage), active' = active,
         NEW s \in Services, NEW g \in Gens, Held(s, g),
         s = t /\ g = k => pc[t][k] # "releasing",
         Finish(t, k, stage) /\ s = t /\ prev[t][k] = g => stage = "dropped"
  PROVE  Held(s, g)' \/ DroppedAfter(s, g)'
<1>1. \A u \in Services, h \in Gens :
        pc'[u][h] = IF u = t /\ h = k THEN stage ELSE pc[u][h]
  BY Finishes, Proceeds
<1>2. CASE active[s] = g
  BY <1>2 DEF Held
<1>3. CASE pc[s][g] = "releasing"
  <2>1. s # t \/ g # k
    BY <1>3
  <2> QED BY <1>1, <1>3, <2>1 DEF Held
<1>4. ASSUME NEW h \in Gens, prev[s][h] = g PROVE Held(s, g)' \/ DroppedAfter(s, g)'
  <2>1. CASE prev'[s][h] = g
    BY <2>1 DEF Held
  <2>2. CASE prev'[s][h] # g
    <3>1. Finish(t, k, stage) /\ s = t /\ h = k
      BY <1>4, <2>2, Finishes, Proceeds
    <3>2. pc'[s][h] = "dropped"
      BY <1>1, <1>4, <3>1
    <3>3. h > g
      BY <1>4, SessTypes DEF SessInv, PreviousOpen
    <3> QED BY <3>2, <3>3 DEF DroppedAfter
  <2> QED BY <2>1, <2>2
<1> QED BY <1>2, <1>3, <1>4 DEF Held

\* A load's step, on a session that was open before.
LEMMA LoadHeld ==
  ASSUME TypeOK, OrderInv, SessInv, NEW t \in Services, NEW k \in Gens, LoadStep(t, k),
         NEW s \in Services, NEW g \in Gens,
         Held(s, g), sess[s][g] = "open", sess'[s][g] = "open"
  PROVE  Held(s, g)' \/ DroppedAfter(s, g)'
<1>1. prev[t][k] \in Gens \cup {None} /\ prevSub[t][k] = prev[t][k]
  BY SessTypes DEF SessInv, PreviousOpen
<1>2. CASE \/ StartLoad(t, k) \/ Stopped(t, k) \/ InfoArrived(t, k) \/ Probed(t, k)
           \/ InfoThrows(t, k) \/ ResolveThrows(t, k) \/ OpenThrows(t, k)
           \/ \E torrent \in BOOLEAN : ResolvedStale(t, k, torrent)
  <2>1. active' = active /\ pc[t][k] # "releasing"
    BY <1>2 DEF StartLoad, Turn, Stopped, InfoArrived, Probed, InfoThrows, ResolveThrows,
                OpenThrows, Throws, ResolvedStale
  <2>2. \/ Finish(t, k, "dropped")
        \/ \E stage \in Stages : Proceed(t, k, stage)
    BY <1>2 DEF StartLoad, Stopped, InfoArrived, Probed, InfoThrows, ResolveThrows,
                OpenThrows, Throws, ResolvedStale, Stages, Running
  <2>3. CASE Finish(t, k, "dropped")
    <3>1. "dropped" \in Stages
      BY DEF Stages, Finished
    <3> QED BY <2>1, <2>3, <3>1, EndHeld
  <2>4. ASSUME NEW stage \in Stages, Proceed(t, k, stage)
        PROVE  Held(s, g)' \/ DroppedAfter(s, g)'
    <3>1. prev' = prev
      BY <2>4 DEF Proceed
    <3>2. CASE pc[s][g] = "releasing"
      <4>1. s # t \/ g # k
        BY <2>1, <3>2
      <4> QED BY <2>4, <3>2, <4>1, Proceeds DEF Held
    <3>3. CASE pc[s][g] # "releasing"
      BY <2>1, <3>1, <3>3 DEF Held
    <3> QED BY <3>2, <3>3
  <2> QED BY <2>2, <2>3, <2>4
<1>3. ASSUME NEW torrent \in BOOLEAN, NEW loopback \in BOOLEAN,
             ResolvedSwap(t, k, torrent, loopback)
      PROVE  Held(s, g)'
  <2>1. \A h \in Gens : prev'[s][h] = IF s = t /\ h = k THEN active[t] ELSE prev[s][h]
    BY <1>3, SessTypes DEF ResolvedSwap
  <2>2. active'[s] = IF s = t THEN (IF torrent THEN k ELSE None) ELSE active[s]
    BY <1>3, SessTypes DEF ResolvedSwap
  <2>3. pc[t][k] = "resolving" /\ prev[t][k] = None
    BY <1>3 DEF ResolvedSwap, SessInv, PreviousOpen, Switching
  <2>4. pc[s][g] = "releasing" => pc'[s][g] = "releasing"
    <3>1. s # t \/ g # k \/ pc[s][g] # "releasing"
      BY <2>3
    <3>2. pc' = [pc EXCEPT ![t][k] = IF torrent \/ loopback THEN "probing" ELSE "opening"]
      BY <1>3 DEF ResolvedSwap
    <3> QED BY <3>1, <3>2, SessTypes
  <2>5. CASE active[s] = g
    <3>1. CASE s = t
      <4>1. prev'[s][k] = g
        BY <2>1, <2>5, <3>1
      <4> QED BY <4>1 DEF Held
    <3>2. CASE s # t
      BY <2>2, <2>5, <3>2 DEF Held
    <3> QED BY <3>1, <3>2
  <2>6. ASSUME NEW h \in Gens, prev[s][h] = g PROVE Held(s, g)'
    <3>1. s # t \/ h # k
      BY <2>3, <2>6, SessTypes
    <3>2. prev'[s][h] = g
      BY <2>1, <2>6, <3>1
    <3> QED BY <3>2 DEF Held
  <2>7. CASE pc[s][g] = "releasing"
    BY <2>4, <2>7 DEF Held
  <2> QED BY <2>5, <2>6, <2>7 DEF Held
<1>4. CASE Released(t, k)
  <2>1. /\ sess' = [sess EXCEPT ![t][k] = "disposed"] /\ active' = active
        /\ Finish(t, k, "dropped") /\ "dropped" \in Stages
    BY <1>4 DEF Released, Stages, Finished
  <2>2. s # t \/ g # k
    <3>1. sess \in [Services -> [Gens -> {"none", "open", "closing", "disposed"}]]
      BY SessTypes
    <3>2. sess'[t][k] = "disposed"
      BY <2>1, <3>1
    <3> QED BY <3>2
  <2> QED BY <2>1, <2>2, EndHeld
<1>5. CASE Opened(t, k)
  <2>1. /\ active' = active /\ pc[t][k] # "releasing"
        /\ (Finish(t, k, "done") /\ prev[t][k] = None) \/ Proceed(t, k, "cancelling")
        /\ "done" \in Stages /\ "cancelling" \in Stages
    BY <1>1, <1>5 DEF Opened, Stages, Running, Finished
  <2>2. prev[t][k] = None => prev[t][k] # g
    BY SessTypes
  <2>3. CASE Finish(t, k, "done") /\ prev[t][k] = None
    BY <2>1, <2>2, <2>3, EndHeld
  <2>4. CASE Proceed(t, k, "cancelling")
    <3>1. prev' = prev
      BY <2>4 DEF Proceed
    <3>2. pc[s][g] = "releasing" => pc'[s][g] = "releasing"
      BY <2>1, <2>4, Proceeds
    <3> QED BY <2>1, <3>1, <3>2 DEF Held
  <2> QED BY <2>1, <2>3, <2>4
<1>6. CASE SubCancelled(t, k)
  <2>1. /\ active' = active /\ Finish(t, k, "done") /\ "done" \in Stages
        /\ ScheduleDispose(t, prev[t][k]) /\ pc[t][k] # "releasing"
    BY <1>6 DEF SubCancelled, Stages, Finished
  <2>2. ~(s = t /\ prev[t][k] = g)
    <3> SUFFICES ASSUME s = t, prev[t][k] = g PROVE FALSE
      OBVIOUS
    <3>1. sess'[t][g] = "closing"
      BY <2>1, Scheduled
    <3> QED BY <3>1
  <2> QED BY <2>1, <2>2, EndHeld
<1> QED BY <1>2, <1>3, <1>4, <1>5, <1>6 DEF LoadStep

\* A session that a step opens is attached, or being released.
LEMMA OpensHeld ==
  ASSUME TypeOK, [Next]_vars, NEW s \in Services, NEW g \in Gens,
         sess[s][g] # "open", sess'[s][g] = "open"
  PROVE  Held(s, g)'
<1>1. PICK t \in Services, k \in Gens :
        /\ sess' = [sess EXCEPT ![t][k] = "open"]
        /\ \E torrent, loopback \in BOOLEAN :
             torrent /\ (ResolvedStale(t, k, torrent) \/ ResolvedSwap(t, k, torrent, loopback))
  <2>1. CASE UNCHANGED sess
    BY <2>1
  <2>2. ASSUME NEW t \in Services, NEW p \in Gens, NEW v \in {"closing", "disposed"},
               sess' = [sess EXCEPT ![t][p] = v]
        PROVE  FALSE
    BY <2>2, Changes
  <2>3. ASSUME NEW t \in Services, NEW p \in Gens \cup {None}, ScheduleDispose(t, p) PROVE FALSE
    BY <2>1, <2>2, <2>3 DEF ScheduleDispose
  <2>4. ASSUME NEW t \in Services, NEW k \in Gens, LoadStep(t, k)
        PROVE  /\ sess' = [sess EXCEPT ![t][k] = "open"]
               /\ \E torrent, loopback \in BOOLEAN :
                    torrent /\ (ResolvedStale(t, k, torrent) \/ ResolvedSwap(t, k, torrent, loopback))
    <3>1. ~(\/ StartLoad(t, k) \/ Stopped(t, k) \/ InfoArrived(t, k) \/ Probed(t, k)
            \/ InfoThrows(t, k) \/ ResolveThrows(t, k) \/ OpenThrows(t, k))
      BY <2>1 DEF StartLoad, Stopped, InfoArrived, Probed, InfoThrows, ResolveThrows,
                  OpenThrows, Throws, sessVars
    <3>2. ~Released(t, k)
      BY <2>2 DEF Released
    <3>3. prev[t][k] \in Gens \cup {None}
      BY SessTypes
    <3>4. ~Opened(t, k) /\ ~SubCancelled(t, k)
      BY <2>1, <2>3, <3>3 DEF Opened, SubCancelled
    <3>5. PICK torrent \in BOOLEAN, loopback \in BOOLEAN :
            ResolvedStale(t, k, torrent) \/ ResolvedSwap(t, k, torrent, loopback)
      BY <2>4, <3>1, <3>2, <3>4 DEF LoadStep
    <3>6. torrent
      BY <2>1, <3>5 DEF ResolvedStale, ResolvedSwap
    <3> QED BY <3>5, <3>6 DEF ResolvedStale, ResolvedSwap
  <2>5. ASSUME NEW t \in Services, DisposeTakesSession(t) PROVE FALSE
    BY <2>3, <2>5, SessTypes DEF DisposeTakesSession
  <2>6. ASSUME NEW t \in Services, NEW k \in Gens, DisposeFires(t, k) PROVE FALSE
    BY <2>2, <2>6 DEF DisposeFires
  <2>7. ~(PlayerEnds \/ CompletedUnheard \/ UNCHANGED vars)
    BY <2>1 DEF PlayerEnds, CompletedUnheard, vars, sessVars
  <2>8. ASSUME NEW t \in Services,
               \/ UserStep(t) \/ OnCompleted(t) \/ DisposeStarts(t) \/ DisposeStopped(t)
               \/ Rebuild(t) \/ \E k \in Gens : PeersTick(t, k)
        PROVE  FALSE
    BY <2>1, <2>8
       DEF UserStep, PlayQueueAt, SkipNext, SkipPrevious, CycleRepeatMode, ToggleShuffle,
           ChangeMode, OnCompleted, MoveTo, LoadAndPlayCurrent, DisposeStarts, DisposeStopped,
           Rebuild, PeersTick, sessVars
  <2> QED BY <2>4, <2>5, <2>6, <2>7, <2>8 DEF Next, ServiceStep
<1>2. t = s /\ k = g
  BY <1>1, Changes
<1>3. CASE \E torrent \in BOOLEAN : torrent /\ ResolvedStale(s, g, torrent)
  <2>1. Proceed(s, g, "releasing") /\ "releasing" \in Stages
    BY <1>3 DEF ResolvedStale, Stages, Running
  <2> QED BY <2>1, Proceeds DEF Held
<1>4. CASE \E torrent, loopback \in BOOLEAN : torrent /\ ResolvedSwap(s, g, torrent, loopback)
  BY <1>4, SessTypes DEF ResolvedSwap, Held
<1> QED BY <1>1, <1>2, <1>3, <1>4

\* What the user does and what the end of a track does: they ask for a load, or
\* leave the loads alone.
LEMMA UserAsks ==
  ASSUME TypeOK, NEW s \in Services, UserStep(s) \/ OnCompleted(s)
  PROVE  Asking(s) \/ UNCHANGED pc
<1>1. CASE UNCHANGED loadVars
  BY <1>1 DEF loadVars
<1>2. ASSUME NEW q \in Queues, NEW i \in 0 .. Len(q) - 1, PlayQueueAt(s, q, i)
      PROVE  Asking(s)
  <2>1. gen[s] \in 0 .. MaxGen /\ LoadBound[s] \in 0 .. MaxGen
    BY PlaybackAssumption DEF TypeOK, Services
  <2>2. gen[s] + 1 \in Gens
    BY <1>2, <2>1, PlaybackAssumption DEF PlayQueueAt, LoadAndPlayCurrent, Gens
  <2>3. HasCurrent(queue'[s], index'[s])
    BY <1>2 DEF TypeOK, PlayQueueAt, HasCurrent
  <2> QED BY <1>2, <2>2, <2>3 DEF Asking, PlayQueueAt, LoadAndPlayCurrent, TypeOK
<1>3. ASSUME NEW i \in 0 .. Len(queue[s]) - 1, MoveTo(s, i), UNCHANGED player PROVE Asking(s)
  BY <1>3, MoveAsks
<1>4. CASE SkipNext(s) \/ OnCompleted(s)
  BY <1>1, <1>3, <1>4, NextIndexesInQueue DEF SkipNext, OnCompleted, Picks
<1>5. CASE SkipPrevious(s)
  <2>1. index[s] - 1 \in 0 .. Len(queue[s]) - 1
    BY <1>5, QueueShape DEF SkipPrevious, TypeOK
  <2> QED BY <1>3, <1>5, <2>1 DEF SkipPrevious
<1>6. CASE CycleRepeatMode(s) \/ ToggleShuffle(s)
  BY <1>1, <1>6 DEF CycleRepeatMode, ToggleShuffle, ChangeMode
<1> QED BY <1>2, <1>4, <1>5, <1>6 DEF UserStep

LEMMA StepHeld ==
  ASSUME TypeOK, OrderInv, SessInv, OpenIsHeld, [Next]_vars,
         NEW s \in Services, NEW g \in Gens, sess'[s][g] = "open"
  PROVE  Held(s, g)' \/ DroppedAfter(s, g)'
<1>1. CASE sess[s][g] # "open"
  BY <1>1, OpensHeld
<1>2. CASE DroppedAfter(s, g)
  <2>1. PICK h \in Gens : h > g /\ pc[s][h] = "dropped"
    BY <1>2 DEF DroppedAfter
  <2>2. pc'[s][h] = "dropped"
    BY <2>1, FinishedStays DEF Finished
  <2> QED BY <2>1, <2>2 DEF DroppedAfter
<1>3. CASE sess[s][g] = "open" /\ Held(s, g)
  <2>1. ASSUME NEW t \in Services, NEW k \in Gens, LoadStep(t, k)
        PROVE  Held(s, g)' \/ DroppedAfter(s, g)'
    BY <1>3, <2>1, LoadHeld
  <2>2. ASSUME NEW t \in Services, DisposeTakesSession(t) PROVE Held(s, g)'
    <3>1. /\ UNCHANGED loadVars /\ active' = [active EXCEPT ![t] = None]
          /\ ScheduleDispose(t, active[t])
      BY <2>2 DEF DisposeTakesSession
    <3>2. ~(s = t /\ active[t] = g)
      <4> SUFFICES ASSUME s = t, active[t] = g PROVE FALSE
        OBVIOUS
      <4>1. sess'[t][g] = "closing"
        BY <3>1, Scheduled
      <4> QED BY <4>1
    <3>3. active[s] = g => active'[s] = g
      BY <3>1, <3>2, SessTypes
    <3>4. pc' = pc /\ prev' = prev
      BY <3>1 DEF loadVars
    <3> QED BY <1>3, <3>3, <3>4 DEF Held
  <2>3. CASE UNCHANGED <<pc, prev, active>>
    BY <1>3, <2>3 DEF Held
  <2>4. CASE PlayerEnds \/ CompletedUnheard \/ UNCHANGED vars
    BY <2>3, <2>4 DEF PlayerEnds, CompletedUnheard, vars, loadVars, sessVars
  <2>5. ASSUME NEW t \in Services,
               \/ DisposeStarts(t) \/ DisposeStopped(t) \/ Rebuild(t)
               \/ \E k \in Gens : PeersTick(t, k) \/ DisposeFires(t, k)
        PROVE  Held(s, g)' \/ DroppedAfter(s, g)'
    BY <2>3, <2>5 DEF DisposeStarts, DisposeStopped, Rebuild, PeersTick, DisposeFires,
                      loadVars, sessVars
  <2>6. ASSUME NEW t \in Services, UserStep(t) \/ OnCompleted(t)
        PROVE  Held(s, g)' \/ DroppedAfter(s, g)'
    <3>1. UNCHANGED <<prev, active>>
      BY <2>6 DEF UserStep, PlayQueueAt, SkipNext, SkipPrevious, CycleRepeatMode,
                  ToggleShuffle, ChangeMode, OnCompleted, MoveTo, LoadAndPlayCurrent,
                  loadVars, sessVars
    <3>2. pc[s][g] = "releasing" => pc'[s][g] = "releasing"
      <4>1. CASE Asking(t)
        <5>1. gen[t] + 1 \in Gens /\ pc' = [pc EXCEPT ![t][gen[t] + 1] = "queued"]
          BY <4>1 DEF Asking
        <5>2. pc[t][gen[t] + 1] = "unused"
          BY <5>1, SessTypes DEF OrderInv, AskedLoads
        <5> QED BY <5>1, <5>2, SessTypes
      <4>2. CASE UNCHANGED pc
        BY <4>2
      <4> QED BY <2>6, <4>1, <4>2, UserAsks
    <3> QED BY <1>3, <3>1, <3>2 DEF Held
  <2> QED BY <2>1, <2>2, <2>4, <2>5, <2>6 DEF Next, ServiceStep
<1> QED BY <1>1, <1>2, <1>3 DEF OpenIsHeld

\* A session that is open has somebody who will dispose of it, whatever loads,
\* failures, late answers and disposals come together, as long as no later load is
\* dropped; with ForgottenStays, a dropped load is the one way to leak a session.
THEOREM SessionsAreHeld == Spec => []OpenIsHeld
<1>1. Init => OpenIsHeld
  BY DEF Init, OpenIsHeld
<1>2. TypeOK /\ OrderInv /\ SessInv /\ OpenIsHeld /\ [Next]_vars => OpenIsHeld'
  BY StepHeld DEF OpenIsHeld
<1> QED BY <1>1, <1>2, SessionsHold, PTL DEF Spec

-----------------------------------------------------------------------------
(* Playback implements PlaybackPromise. *)

\* The newest heard load is well defined, and every load is heard after it.
NewestExists ==
  \A s \in Services : \E n \in {0} \cup HeardLoads(s) :
    \A h \in HeardLoads(s) : h <= n

LEMMA NewestIs ==
  ASSUME NEW s \in Services, NEW n \in {0} \cup HeardLoads(s),
         \A h \in HeardLoads(s) : h <= n
  PROVE  NewestHeard(s) = n
<1>1. \A m \in {0} \cup HeardLoads(s) : m \in Nat /\ 0 <= m
  BY PlaybackAssumption DEF HeardLoads, Gens
<1>2. ASSUME NEW m \in {0} \cup HeardLoads(s), \A h \in HeardLoads(s) : h <= m
      PROVE  m = n
  BY <1>1, <1>2
<1>3. QED
  BY <1>2 DEF NewestHeard

\* A step under which no load starts to be heard leaves the newest one alone.
LEMMA SameNewest ==
  ASSUME NEW s \in Services, HeardLoads(s)' = HeardLoads(s)
  PROVE  NewestHeard(s)' = NewestHeard(s)
BY DEF NewestHeard

LEMMA InitNewest == Init => NewestExists /\ Promise!Init
<1> SUFFICES ASSUME Init PROVE NewestExists /\ Promise!Init
  OBVIOUS
<1>1. \A s \in Services : HeardLoads(s) = {}
  BY DEF Init, HeardLoads
<1>2. NewestExists
  BY <1>1 DEF NewestExists
<1>3. \A s \in Services : NewestHeard(s) = 0
  BY <1>1, NewestIs
<1>4. QED
  BY <1>2, <1>3 DEF Promise!Init, Init

\* Which loads count as heard after a load moves: g, if it opened.
LEMMA MoveHeard ==
  ASSUME TypeOK, OrderInv, NEW s \in Services, NEW g \in Gens,
         LoadStep(s, g), Moving(s, g)
  PROVE  /\ \A t \in Services : t # s => HeardLoads(t)' = HeardLoads(t)
         /\ Opened(s, g) => HeardLoads(s)' = HeardLoads(s) \cup {g}
         /\ ~Opened(s, g) => HeardLoads(s)' = HeardLoads(s)
<1>1. \A t \in Services, h \in Gens : t # s \/ h # g => pc'[t][h] = pc[t][h]
  BY MoveStages
<1>2. ASSUME NEW t \in Services, t # s PROVE HeardLoads(t)' = HeardLoads(t)
  BY <1>1, <1>2 DEF HeardLoads
<1>3. pc[s] \in [Gens -> Stages] /\ pc \in [Services -> [Gens -> Stages]]
  BY DEF TypeOK
<1>4. ASSUME Opened(s, g) PROVE HeardLoads(s)' = HeardLoads(s) \cup {g}
  <2>1. pc'[s][g] \in {"cancelling", "done"}
    BY <1>3, <1>4 DEF Opened, Finish, Proceed
  <2>2. QED
    BY <1>1, <2>1 DEF HeardLoads
<1>5. ASSUME ~Opened(s, g)
      PROVE  pc'[s][g] \in {"cancelling", "done"} <=> pc[s][g] \in {"cancelling", "done"}
  <2> USE <1>3 DEF Finish, Proceed
  <2>1. CASE StartLoad(s, g)
    BY <2>1 DEF StartLoad, Turn
  <2>2. CASE Stopped(s, g) \/ InfoArrived(s, g) \/ Probed(s, g)
    BY <2>2 DEF Stopped, InfoArrived, Probed
  <2>3. CASE InfoThrows(s, g) \/ ResolveThrows(s, g) \/ OpenThrows(s, g)
    BY <2>3 DEF InfoThrows, ResolveThrows, OpenThrows, Throws
  <2>4. ASSUME NEW torrent \in BOOLEAN, NEW loopback \in BOOLEAN,
               ResolvedStale(s, g, torrent) \/ ResolvedSwap(s, g, torrent, loopback)
        PROVE  pc'[s][g] \in {"cancelling", "done"} <=> pc[s][g] \in {"cancelling", "done"}
    BY <2>4 DEF ResolvedStale, ResolvedSwap
  <2>5. CASE Released(s, g) \/ SubCancelled(s, g)
    BY <2>5 DEF Released, SubCancelled
  <2>6. QED
    BY <1>5, <2>1, <2>2, <2>3, <2>4, <2>5 DEF LoadStep
<1>6. ASSUME ~Opened(s, g) PROVE HeardLoads(s)' = HeardLoads(s)
  BY <1>1, <1>5, <1>6 DEF HeardLoads
<1>7. QED
  BY <1>2, <1>4, <1>6

\* A load that opens is newer than every load heard before it.
LEMMA OpensNewer ==
  ASSUME TypeOK, OrderInv, NewestExists, NEW s \in Services, NEW g \in Gens,
         LoadStep(s, g), Moving(s, g), Opened(s, g)
  PROVE  /\ NewestExists'
         /\ NewestHeard(s)' = g
         /\ g \in NewestHeard(s) + 1 .. gen[s]
<1>1. \A h \in HeardLoads(s) : h < g
  <2> SUFFICES ASSUME NEW h \in HeardLoads(s) PROVE h < g
    OBVIOUS
  <2>1. pc[s][g] = "opening" /\ h \in Gens /\ pc[s][h] \in {"cancelling", "done"}
    BY DEF Opened, HeardLoads
  <2>2. ~(g < h)
    BY <2>1 DEF OrderInv, LoadsInOrder, Finished
  <2>3. QED
    BY <2>1, <2>2, PlaybackAssumption DEF Gens
<1>2. HeardLoads(s)' = HeardLoads(s) \cup {g}
  BY MoveHeard
<1>3. g \in {0} \cup HeardLoads(s)' /\ \A h \in HeardLoads(s)' : h <= g
  BY <1>1, <1>2, PlaybackAssumption DEF HeardLoads, Gens
<1>4. NewestHeard(s)' = g
  <2>1. \A m \in {0} \cup HeardLoads(s)' : m \in Nat
    BY <1>2, PlaybackAssumption DEF HeardLoads, Gens
  <2>2. \A m \in {0} \cup HeardLoads(s)' : (\A h \in HeardLoads(s)' : h <= m) => m = g
    BY <1>2, <1>3, <2>1
  <2>3. QED
    BY <1>3, <2>2 DEF NewestHeard
<1>5. NewestExists'
  <2> SUFFICES ASSUME NEW t \in Services
               PROVE  \E n \in {0} \cup HeardLoads(t)' : \A h \in HeardLoads(t)' : h <= n
    BY DEF NewestExists
  <2>1. CASE t = s
    BY <1>3, <2>1
  <2>2. CASE t # s
    BY <2>2, MoveHeard DEF NewestExists
  <2>3. QED
    BY <2>1, <2>2
<1>6. NewestHeard(s) \in {0} \cup HeardLoads(s)
  BY NewestIs DEF NewestExists
<1>7. g <= gen[s] /\ gen[s] \in Nat
  BY PlaybackAssumption DEF OrderInv, AskedLoads, Opened, TypeOK
<1>8. QED
  BY <1>1, <1>4, <1>5, <1>6, <1>7, PlaybackAssumption DEF HeardLoads, Gens

LEMMA StepPromise ==
  TypeOK /\ OrderInv /\ NewestExists /\ [Next]_vars
    => NewestExists' /\ [Promise!Next]_(Promise!vars)
<1> SUFFICES ASSUME TypeOK, OrderInv, NewestExists, [Next]_vars
             PROVE  NewestExists' /\ [Promise!Next]_(Promise!vars)
  OBVIOUS
<1> DEFINE newest == [s \in Services |-> NewestHeard(s)]
<1>1. ASSUME \A s \in Services : HeardLoads(s)' = HeardLoads(s)
      PROVE  NewestExists' /\ newest' = newest
  <2>1. NewestExists'
    BY <1>1 DEF NewestExists
  <2>2. \A s \in Services : NewestHeard(s)' = NewestHeard(s)
    BY <1>1, SameNewest
  <2>3. QED
    BY <2>1, <2>2
<1>2. CASE Quiet
  <2>1. \A s \in Services : HeardLoads(s)' = HeardLoads(s)
    BY <1>2 DEF Quiet, HeardLoads
  <2>2. NewestExists' /\ newest' = newest /\ gen' = gen /\ player' \in {player, Idle}
    BY <1>1, <1>2, <2>1 DEF Quiet
  <2>3. QED
    BY <2>2 DEF Promise!Next, Promise!FallSilent, Promise!vars
<1>3. ASSUME NEW s \in Services, Asking(s)
      PROVE  NewestExists' /\ [Promise!Next]_(Promise!vars)
  <2>1. pc[s][gen[s] + 1] = "unused" /\ gen[s] + 1 \in Gens
    BY <1>3, PlaybackAssumption DEF OrderInv, AskedLoads, Asking, TypeOK
  <2>2. \A t \in Services, g \in Gens :
          pc'[t][g] = IF t = s /\ g = gen[s] + 1 THEN "queued" ELSE pc[t][g]
    <3>1. "queued" \in Stages /\ pc \in [Services -> [Gens -> Stages]]
      BY DEF Stages, TypeOK
    <3>2. QED
      BY <1>3, <2>1, <3>1, NestedUpdate DEF Asking
  <2>3. \A t \in Services : HeardLoads(t)' = HeardLoads(t)
    BY <2>1, <2>2 DEF HeardLoads
  <2>4. NewestExists' /\ newest' = newest /\ player' = player
        /\ gen' = [gen EXCEPT ![s] = @ + 1]
    BY <1>1, <1>3, <2>3 DEF Asking
  <2>5. QED
    BY <2>4 DEF Promise!Next, Promise!Ask
<1>4. ASSUME NEW s \in Services, NEW g \in Gens, LoadStep(s, g), Moving(s, g)
      PROVE  NewestExists' /\ [Promise!Next]_(Promise!vars)
  <2>1. CASE Opened(s, g)
    <3>1. /\ NewestExists' /\ NewestHeard(s)' = g /\ g \in NewestHeard(s) + 1 .. gen[s]
      BY <1>4, <2>1, OpensNewer
    <3>2. \A t \in Services : t # s => NewestHeard(t)' = NewestHeard(t)
      BY <1>4, MoveHeard, SameNewest
    <3>3. newest' = [newest EXCEPT ![s] = g]
      BY <3>1, <3>2
    <3>4. g \in newest[s] + 1 .. gen[s] /\ player' = <<s, g>> /\ gen' = gen
      BY <2>1, <3>1 DEF Opened
    <3>5. Promise!Play(s)
      BY <3>3, <3>4 DEF Promise!Play
    <3>6. QED
      BY <3>1, <3>5 DEF Promise!Next
  <2>2. CASE ~Opened(s, g)
    <3>1. \A t \in Services : HeardLoads(t)' = HeardLoads(t)
      BY <1>4, <2>2, MoveHeard
    <3>2. NewestExists' /\ newest' = newest /\ gen' = gen
      BY <1>1, <1>4, <3>1 DEF Moving
    <3>3. player' \in {player, Idle}
      <4>1. CASE StartLoad(s, g) \/ Stopped(s, g) \/ InfoArrived(s, g) \/ Probed(s, g)
        BY <4>1 DEF StartLoad, Stopped, InfoArrived, Probed
      <4>2. CASE InfoThrows(s, g) \/ ResolveThrows(s, g) \/ OpenThrows(s, g)
        BY <4>2 DEF InfoThrows, ResolveThrows, OpenThrows, Throws
      <4>3. ASSUME NEW torrent \in BOOLEAN, NEW loopback \in BOOLEAN,
                   ResolvedStale(s, g, torrent) \/ ResolvedSwap(s, g, torrent, loopback)
            PROVE  player' = player
        BY <4>3 DEF ResolvedStale, ResolvedSwap
      <4>4. CASE Released(s, g) \/ SubCancelled(s, g)
        BY <4>4 DEF Released, SubCancelled
      <4>5. QED
        BY <1>4, <2>2, <4>1, <4>2, <4>3, <4>4 DEF LoadStep
    <3>4. QED
      BY <3>2, <3>3 DEF Promise!Next, Promise!FallSilent, Promise!vars
  <2>3. QED
    BY <2>1, <2>2
<1>5. QED
  BY <1>2, <1>3, <1>4, StepKinds

\* Requests are heard in the order they were made, each at most once: Playback
\* implements the abstract promise, faults and disposed services included.
THEOREM PromiseKept == Spec => KeepsPromise
<1>1. Init => NewestExists /\ Promise!Init
  BY InitNewest
<1>2. TypeOK /\ OrderInv /\ NewestExists /\ [Next]_vars
        => NewestExists' /\ [Promise!Next]_(Promise!vars)
  BY StepPromise
<1>3. QED
  BY <1>1, <1>2, TypeCorrect, InitOrder, StepOrder, PTL
     DEF Spec, KeepsPromise, Promise!Spec

=============================================================================
