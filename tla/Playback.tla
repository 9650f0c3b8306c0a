------------------------------ MODULE Playback ------------------------------
(***************************************************************************)
(* AudioPlayerService: the play queue, the chain of loads, the torrent     *)
(* session of the current track, and the one media player of the process,  *)
(* shared by the services that succeed one another when the provider that  *)
(* owns them is rebuilt.                                                   *)
(*                                                                         *)
(* A load is identified by its generation: it is the g-th load its service *)
(* asked for, and the session it opens, if any, is session g of the        *)
(* service.  A load is one async function; it is cut here at its awaits,   *)
(* so between two actions of a load anything else may run.                 *)
(***************************************************************************)
EXTENDS PlayQueue

CONSTANTS
  Tracks,      \* the tracks a queue can hold
  NoTrack,     \* the track of a load that has not picked one
  Queues,      \* the queues the user may start
  NumServices, \* how many services the process creates, one after the other
  MaxGen,      \* bound: loads asked of any one service
  LoadBound,   \* bound: loads asked of each service
  Modes,       \* bound: the repeat and shuffle settings the user visits
  Faults,      \* the awaits of a load that may throw
  Faulty       \* bound: the loads in which they may; stop may in any

Mode == [repeat : RepeatModes, shuffle : BOOLEAN]

ASSUME PlaybackAssumption ==
  /\ NumServices \in Nat \ {0}
  /\ MaxGen \in Nat \ {0}
  /\ NoTrack \notin Tracks
  /\ Queues \subseteq Seq(Tracks) \ {<< >>}
  /\ LoadBound \in [1 .. NumServices -> 0 .. MaxGen]
  /\ Modes \subseteq Mode
  /\ Faults \subseteq {"stop", "info", "resolve", "open"}
  /\ Faulty \subseteq 1 .. MaxGen

Services == 1 .. NumServices
Gens     == 1 .. MaxGen

None == 0                 \* no session, no subscription
Idle == <<0, 0>>          \* the player has no source
(***************************************************************************)
(* unused      not asked for yet                                           *)
(* queued      in the chain, its predecessors not finished                 *)
(* stopping    awaiting player.stop                                        *)
(* asking      awaiting repo.resolveStream                                 *)
(* resolving   awaiting resolver.resolve                                   *)
(* releasing   stale: awaiting the dispose of the session it just opened   *)
(* probing     awaiting _waitForStream                                     *)
(* opening     awaiting player.open                                        *)
(* cancelling  awaiting the cancel of the previous stats subscription      *)
(* done        it opened its source                                        *)
(* dropped     it ended without: skipped, preempted or failed              *)
(***************************************************************************)
Running == {"stopping", "asking", "resolving", "releasing", "probing",
            "opening", "cancelling"}
Finished == {"done", "dropped"}
Stages  == {"unused", "queued"} \cup Running \cup Finished
Unserved == {"queued", "stopping"}   \* has not silenced the previous source yet

VARIABLES
  queue, index, mode,  \* the snapshot: tracks, current index, repeat and shuffle
  peersOf,             \* the session whose peers the snapshot shows, or None
  phase,               \* unborn, alive, then the three awaits of dispose
  gen,                 \* _generation
  pc, track,           \* per load: its stage, the track it loads
  prev, prevSub,       \* per load: previousSession, previousStatsSub
  active, activeSub,   \* _activeSession, _activeStatsSub
  sess,                \* per session: none, open, closing (dispose scheduled), disposed
  listening,           \* the sessions whose stats stream is being listened to
  player,              \* <<service, load>> whose source the player reads, or Idle
  over,                \* the player reached the end of that source
  completed            \* a completed event is on its way to the service

snapVars  == <<queue, index, mode>>
loadVars  == <<pc, track, prev, prevSub>>
sessVars  == <<active, activeSub, sess, listening, peersOf>>
mediaVars == <<player, over, completed>>
vars == <<snapVars, phase, gen, loadVars, sessVars, mediaVars>>

TypeOK ==
  /\ queue \in [Services -> Queues \cup {<< >>}]
  /\ index \in [Services -> Int]
  /\ \A s \in Services : index[s] \in -1 .. Len(queue[s]) - 1
  /\ mode \in [Services -> Mode]
  /\ peersOf \in [Services -> Gens \cup {None}]
  /\ phase \in [Services -> {"unborn", "alive", "unlistening", "stopping", "closed"}]
  /\ gen \in [Services -> 0 .. MaxGen]
  /\ pc \in [Services -> [Gens -> Stages]]
  /\ track \in [Services -> [Gens -> Tracks \cup {NoTrack}]]
  /\ prev \in [Services -> [Gens -> Gens \cup {None}]]
  /\ prevSub \in [Services -> [Gens -> Gens \cup {None}]]
  /\ active \in [Services -> Gens \cup {None}]
  /\ activeSub \in [Services -> Gens \cup {None}]
  /\ sess \in [Services -> [Gens -> {"none", "open", "closing", "disposed"}]]
  /\ listening \in [Services -> SUBSET Gens]
  /\ player \in (Services \X Gens) \cup {Idle}
  /\ over \in BOOLEAN
  /\ completed \in BOOLEAN

Init ==
  /\ queue = [s \in Services |-> << >>]
  /\ index = [s \in Services |-> -1]
  /\ mode = [s \in Services |-> [repeat |-> "off", shuffle |-> FALSE]]
  /\ peersOf = [s \in Services |-> None]
  /\ phase = [s \in Services |-> IF s = 1 THEN "alive" ELSE "unborn"]
  /\ gen = [s \in Services |-> 0]
  /\ pc = [s \in Services |-> [g \in Gens |-> "unused"]]
  /\ track = [s \in Services |-> [g \in Gens |-> NoTrack]]
  /\ prev = [s \in Services |-> [g \in Gens |-> None]]
  /\ prevSub = [s \in Services |-> [g \in Gens |-> None]]
  /\ active = [s \in Services |-> None]
  /\ activeSub = [s \in Services |-> None]
  /\ sess = [s \in Services |-> [g \in Gens |-> "none"]]
  /\ listening = [s \in Services |-> {}]
  /\ player = Idle
  /\ over = FALSE
  /\ completed = FALSE

-----------------------------------------------------------------------------
(* What the user and the player ask of a service. *)

\* _loadAndPlayCurrent: a new generation joins the end of the chain.
LoadAndPlayCurrent(s) ==
  /\ gen[s] < LoadBound[s]
  /\ gen' = [gen EXCEPT ![s] = @ + 1]
  /\ pc' = [pc EXCEPT ![s][gen[s] + 1] = "queued"]
  /\ UNCHANGED <<track, prev, prevSub, phase, sessVars>>

PlayQueueAt(s, q, i) ==
  /\ phase[s] = "alive"
  /\ queue' = [queue EXCEPT ![s] = q]
  /\ index' = [index EXCEPT ![s] = i]
  /\ LoadAndPlayCurrent(s)
  /\ UNCHANGED <<mode, mediaVars>>

MoveTo(s, i) ==
  /\ index' = [index EXCEPT ![s] = i]
  /\ LoadAndPlayCurrent(s)
  /\ UNCHANGED <<queue, mode>>

Picks(s, auto) ==
  NextIndexes(Len(queue[s]), index[s], mode[s].repeat, mode[s].shuffle, auto)

\* next(); when _pickNextIndex returns null nothing changes.
SkipNext(s) ==
  /\ phase[s] = "alive"
  /\ \E i \in Picks(s, FALSE) : MoveTo(s, i)
  /\ UNCHANGED mediaVars

\* previous(), before the third second of the track (after it, and on the
\* first track, it only seeks).
SkipPrevious(s) ==
  /\ phase[s] = "alive"
  /\ index[s] > 0
  /\ MoveTo(s, index[s] - 1)
  /\ UNCHANGED mediaVars

ChangeMode(s, m) ==
  /\ phase[s] = "alive"
  /\ m \in Modes
  /\ mode' = [mode EXCEPT ![s] = m]
  /\ UNCHANGED <<queue, index, phase, gen, loadVars, sessVars, mediaVars>>

CycleRepeatMode(s) == ChangeMode(s, [mode[s] EXCEPT !.repeat = NextMode[@]])

ToggleShuffle(s) == ChangeMode(s, [mode[s] EXCEPT !.shuffle = ~@])

\* The player reaches the end of its source.  Its event crosses from mpv's
\* thread to the listeners, which may have moved on when it arrives.
PlayerEnds ==
  /\ player # Idle /\ ~over /\ ~completed
  /\ over' = TRUE
  /\ completed' = TRUE
  /\ UNCHANGED <<snapVars, phase, gen, loadVars, sessVars, player>>

\* The completed listener: advance, or stop at the end of the queue.
OnCompleted(s) ==
  /\ completed
  /\ phase[s] = "alive"
  /\ completed' = FALSE
  /\ UNCHANGED <<player, over>>
  /\ \/ \E i \in Picks(s, TRUE) : MoveTo(s, i)
     \/ /\ Picks(s, TRUE) = {}
        /\ UNCHANGED <<snapVars, phase, gen, loadVars, sessVars>>

\* Nobody listens while the provider has no live service.
CompletedUnheard ==
  /\ completed
  /\ \A s \in Services : phase[s] # "alive"
  /\ completed' = FALSE
  /\ UNCHANGED <<snapVars, phase, gen, loadVars, sessVars, player, over>>

-----------------------------------------------------------------------------
(* _runLoad, from one await to the next. *)

\* The load ends; previousSession and previousStatsSub go out of scope.
Finish(s, g, stage) ==
  /\ pc' = [pc EXCEPT ![s][g] = stage]
  /\ prev' = [prev EXCEPT ![s][g] = None]
  /\ prevSub' = [prevSub EXCEPT ![s][g] = None]

Proceed(s, g, stage) ==
  /\ pc' = [pc EXCEPT ![s][g] = stage]
  /\ UNCHANGED <<prev, prevSub>>

\* Mutants of Turn: no chain; a chain that an abandoned load breaks.
TurnAtOnce(s, g) == pc[s][g] = "queued"

TurnAfterSuccess(s, g) ==
  /\ pc[s][g] = "queued"
  /\ \A h \in Gens : h < g => pc[s][h] = "done"

\* The chain calls a load when its predecessor's future has completed.
Turn(s, g) ==
  /\ pc[s][g] = "queued"
  /\ \A h \in Gens : h < g => pc[s][h] \in Finished

\* Mutant of StartLoad: the old source is not stopped first.
StartLoadUnstopped(s, g) ==
  /\ Turn(s, g)
  /\ IF g = gen[s] /\ HasCurrent(queue[s], index[s])
       THEN /\ track' = [track EXCEPT ![s][g] = Current(queue[s], index[s])]
            /\ Proceed(s, g, "asking")
       ELSE /\ Finish(s, g, "dropped")
            /\ UNCHANGED track
  /\ UNCHANGED <<snapVars, phase, gen, sessVars, mediaVars>>

StartLoad(s, g) ==
  /\ Turn(s, g)
  /\ IF g = gen[s] /\ HasCurrent(queue[s], index[s])
       THEN /\ track' = [track EXCEPT ![s][g] = Current(queue[s], index[s])]
            /\ Proceed(s, g, "stopping")
       ELSE /\ Finish(s, g, "dropped")
            /\ UNCHANGED track
  /\ UNCHANGED <<snapVars, phase, gen, sessVars, mediaVars>>

Stopped(s, g) ==
  /\ pc[s][g] = "stopping"
  /\ \/ /\ player' = Idle
        /\ over' = FALSE
     \/ /\ "stop" \in Faults            \* "player.stop ignored"
        /\ UNCHANGED <<player, over>>
  /\ Proceed(s, g, "asking")
  /\ UNCHANGED <<snapVars, phase, gen, track, sessVars, completed>>

InfoArrived(s, g) ==
  /\ pc[s][g] = "asking"
  /\ IF g = gen[s] THEN Proceed(s, g, "resolving") ELSE Finish(s, g, "dropped")
  /\ UNCHANGED <<snapVars, phase, gen, track, sessVars, mediaVars>>

\* The catch of _runLoad: report, and leave everything as it is.
Throws(s, g, await, stage) ==
  /\ await \in Faults /\ g \in Faulty
  /\ pc[s][g] = stage
  /\ Finish(s, g, "dropped")
  /\ UNCHANGED <<snapVars, phase, gen, track, sessVars, mediaVars>>

InfoThrows(s, g)    == Throws(s, g, "info", "asking")
ResolveThrows(s, g) == Throws(s, g, "resolve", "resolving")
OpenThrows(s, g)    == Throws(s, g, "open", "opening")

\* The resolver answered a load that is no longer the newest: release the
\* session it opened, if it opened one.
ResolvedStale(s, g, torrent) ==
  /\ pc[s][g] = "resolving"
  /\ g # gen[s]
  /\ IF torrent
       THEN /\ sess' = [sess EXCEPT ![s][g] = "open"]
            /\ Proceed(s, g, "releasing")
       ELSE /\ Finish(s, g, "dropped")
            /\ UNCHANGED sess
  /\ UNCHANGED <<snapVars, phase, gen, track, active, activeSub, listening,
                 peersOf, mediaVars>>

Released(s, g) ==
  /\ pc[s][g] = "releasing"
  /\ sess' = [sess EXCEPT ![s][g] = "disposed"]
  /\ Finish(s, g, "dropped")
  /\ UNCHANGED <<snapVars, phase, gen, track, active, activeSub, listening,
                 peersOf, mediaVars>>

\* The resolver answered the newest load: the sessions are swapped, the
\* peer counters reset and the new session's stats listened to.  Torrent
\* sources are served on the loopback interface, HTTP sources may be.
ResolvedSwap(s, g, torrent, loopback) ==
  /\ pc[s][g] = "resolving"
  /\ g = gen[s]
  /\ prev' = [prev EXCEPT ![s][g] = active[s]]
  /\ prevSub' = [prevSub EXCEPT ![s][g] = activeSub[s]]
  /\ active' = [active EXCEPT ![s] = IF torrent THEN g ELSE None]
  /\ activeSub' = [activeSub EXCEPT ![s] = IF torrent THEN g ELSE None]
  /\ sess' = IF torrent THEN [sess EXCEPT ![s][g] = "open"] ELSE sess
  /\ listening' = IF torrent THEN [listening EXCEPT ![s] = @ \cup {g}] ELSE listening
  /\ peersOf' = [peersOf EXCEPT ![s] = None]
  /\ pc' = [pc EXCEPT ![s][g] = IF torrent \/ loopback THEN "probing" ELSE "opening"]
  /\ UNCHANGED <<snapVars, phase, gen, track, mediaVars>>

\* _waitForStream returned, ready or not.
Probed(s, g) ==
  /\ pc[s][g] = "probing"
  /\ IF g = gen[s] THEN Proceed(s, g, "opening") ELSE Finish(s, g, "dropped")
  /\ UNCHANGED <<snapVars, phase, gen, track, sessVars, mediaVars>>

\* Session p, if there is one, will be disposed of by a timer or a future.
ScheduleDispose(s, p) ==
  sess' = IF p = None THEN sess ELSE [sess EXCEPT ![s][p] = "closing"]

\* player.open returned.  The generation is not looked at again.
Opened(s, g) ==
  /\ pc[s][g] = "opening"
  /\ player' = <<s, g>>
  /\ over' = FALSE
  /\ listening' = [listening EXCEPT ![s] = @ \ {prevSub[s][g]}]
  /\ IF prevSub[s][g] = None
       THEN ScheduleDispose(s, prev[s][g]) /\ Finish(s, g, "done")
       ELSE Proceed(s, g, "cancelling") /\ UNCHANGED sess
  /\ UNCHANGED <<snapVars, phase, gen, track, active, activeSub, peersOf, completed>>

\* Mutants of SubCancelled: it disposes of the session just attached; of none.
SubCancelledWrong(s, g) ==
  /\ pc[s][g] = "cancelling"
  /\ ScheduleDispose(s, active[s])
  /\ Finish(s, g, "done")
  /\ UNCHANGED <<snapVars, phase, gen, track, active, activeSub, listening,
                 peersOf, mediaVars>>

SubCancelledForgets(s, g) ==
  /\ pc[s][g] = "cancelling"
  /\ Finish(s, g, "done")
  /\ UNCHANGED <<snapVars, phase, gen, track, sessVars, mediaVars>>

SubCancelled(s, g) ==
  /\ pc[s][g] = "cancelling"
  /\ ScheduleDispose(s, prev[s][g])
  /\ Finish(s, g, "done")
  /\ UNCHANGED <<snapVars, phase, gen, track, active, activeSub, listening,
                 peersOf, mediaVars>>

LoadStep(s, g) ==
  \/ StartLoad(s, g) \/ Stopped(s, g)
  \/ InfoArrived(s, g) \/ InfoThrows(s, g) \/ ResolveThrows(s, g)
  \/ \E torrent, loopback \in BOOLEAN :
       ResolvedStale(s, g, torrent) \/ ResolvedSwap(s, g, torrent, loopback)
  \/ Released(s, g) \/ Probed(s, g)
  \/ Opened(s, g) \/ OpenThrows(s, g) \/ SubCancelled(s, g)

-----------------------------------------------------------------------------
(* The sessions, and the end of a service. *)

\* The three-second timer of _runLoad, or the future of dispose, runs.
DisposeFires(s, g) ==
  /\ sess[s][g] = "closing"
  /\ sess' = [sess EXCEPT ![s][g] = "disposed"]
  /\ UNCHANGED <<snapVars, phase, gen, loadVars, active, activeSub, listening,
                 peersOf, mediaVars>>

\* Mutant of PeersTick: no generation guard in the listener.
PeersTickAnyGen(s, g) ==
  /\ g \in listening[s]
  /\ peersOf' = [peersOf EXCEPT ![s] = g]
  /\ UNCHANGED <<snapVars, phase, gen, loadVars, active, activeSub, sess,
                 listening, mediaVars>>

\* A stats event of session g: the listener drops it unless g is the newest load.
PeersTick(s, g) ==
  /\ g \in listening[s]
  /\ g = gen[s]
  /\ peersOf' = [peersOf EXCEPT ![s] = g]
  /\ UNCHANGED <<snapVars, phase, gen, loadVars, active, activeSub, sess,
                 listening, mediaVars>>

\* dispose: the player's events are no longer heard, and the cancel of the
\* stats subscription is awaited (it ends with the generator's next turn).
DisposeStarts(s) ==
  /\ phase[s] = "alive"
  /\ phase' = [phase EXCEPT ![s] = "unlistening"]
  /\ listening' = [listening EXCEPT ![s] = @ \ {activeSub[s]}]
  /\ UNCHANGED <<snapVars, gen, loadVars, active, activeSub, sess, peersOf, mediaVars>>

DisposeTakesSession(s) ==
  /\ phase[s] = "unlistening"
  /\ phase' = [phase EXCEPT ![s] = "stopping"]
  /\ activeSub' = [activeSub EXCEPT ![s] = None]
  /\ active' = [active EXCEPT ![s] = None]
  /\ ScheduleDispose(s, active[s])
  /\ UNCHANGED <<snapVars, gen, loadVars, listening, peersOf, mediaVars>>

DisposeStopped(s) ==
  /\ phase[s] = "stopping"
  /\ phase' = [phase EXCEPT ![s] = "closed"]
  /\ \/ player' = Idle /\ over' = FALSE
     \/ "stop" \in Faults /\ UNCHANGED <<player, over>>
  /\ UNCHANGED <<snapVars, gen, loadVars, sessVars, completed>>

\* The provider is rebuilt: its dispose callback has been called, not awaited.
Rebuild(s) ==
  /\ phase[s] = "unborn"
  /\ phase[s - 1] \notin {"unborn", "alive"}
  /\ phase' = [phase EXCEPT ![s] = "alive"]
  /\ UNCHANGED <<snapVars, gen, loadVars, sessVars, mediaVars>>

-----------------------------------------------------------------------------
UserStep(s) ==
  \/ \E q \in Queues : \E i \in 0 .. Len(q) - 1 : PlayQueueAt(s, q, i)
  \/ SkipNext(s) \/ SkipPrevious(s) \/ CycleRepeatMode(s) \/ ToggleShuffle(s)

ServiceStep(s) ==
  \/ UserStep(s)
  \/ OnCompleted(s)
  \/ DisposeStarts(s) \/ DisposeTakesSession(s) \/ DisposeStopped(s)
  \/ Rebuild(s)
  \/ \E g \in Gens : LoadStep(s, g) \/ DisposeFires(s, g) \/ PeersTick(s, g)

Next == PlayerEnds \/ CompletedUnheard \/ \E s \in Services : ServiceStep(s)

(***************************************************************************)
(* What is awaited returns: repository calls and probes have timeouts, and *)
(* the event loop runs every ready continuation and timer.  The user and   *)
(* the player owe nothing.                                                 *)
(***************************************************************************)
Fairness ==
  \A s \in Services :
    /\ \A g \in Gens : WF_vars(LoadStep(s, g)) /\ WF_vars(DisposeFires(s, g))
    /\ WF_vars(DisposeTakesSession(s)) /\ WF_vars(DisposeStopped(s))

Spec == Init /\ [][Next]_vars
FairSpec == Spec /\ Fairness

-----------------------------------------------------------------------------
(* Properties. *)

\* What is heard is what the snapshot shows: the player reads the newest
\* load's source and that load's track is the snapshot's current one, or the
\* newest load has yet to silence the player.  Needs player.stop to work.
SoundIsCurrent ==
  \A s \in Services : player[1] = s =>
    \/ pc[s][gen[s]] \in Unserved
    \/ /\ player[2] = gen[s]
       /\ HasCurrent(queue[s], index[s])
       /\ track[s][gen[s]] = Current(queue[s], index[s])

\* What the invariant above rests on: loads are numbered in the order
\* they were asked for, a request that was heard was made, and the newest load,
\* once started, loads the snapshot's current track, because every change of
\* queue or index asks for a new load in the same turn.
AskedLoads ==
  \A s \in Services, g \in Gens : g <= gen[s] <=> pc[s][g] # "unused"

\* A load has its turn when every earlier one of its service has ended
\* (comments at lines 240-242 and 395-397).
LoadsInOrder ==
  \A s \in Services : \A g, h \in Gens :
    h < g /\ pc[s][g] \notin {"unused", "queued"} => pc[s][h] \in Finished

HeardWasAsked ==
  \A s \in Services : player[1] = s => player[2] \in 1 .. gen[s]

NewestLoadsCurrent ==
  \A s \in Services : gen[s] # 0 =>
    /\ HasCurrent(queue[s], index[s])
    /\ pc[s][gen[s]] # "queued" => track[s][gen[s]] = Current(queue[s], index[s])

\* While a service lives, the torrent session behind the source the player
\* reads is open: it is disposed of only after the player has moved on
\* (comments at lines 232-236 and 413-417).
SourceServed ==
  \A s \in Services, g \in Gens :
    player = <<s, g>> /\ phase[s] = "alive" => sess[s][g] \in {"none", "open"}

\* While a service lives, the peers shown are those of the attached session,
\* never of one left behind by a switch (the guard at line 469).
PeersOfActive ==
  \A s \in Services :
    phase[s] = "alive" /\ peersOf[s] # None => peersOf[s] = active[s]

\* The attached session of a living service is open and listened to, even
\* if later loads were preempted or failed after it was attached.
ActiveUsable ==
  \A s \in Services :
    phase[s] = "alive" /\ active[s] # None =>
      sess[s][active[s]] = "open" /\ active[s] \in listening[s]

\* A session that is closed stays closed, and one whose dispose was
\* scheduled is never attached again.
SessionsEnd ==
  [][\A s \in Services, g \in Gens :
       /\ sess[s][g] = "disposed" => sess'[s][g] = "disposed"
       /\ sess[s][g] \in {"closing", "disposed"} => active'[s] # g]_vars

\* Somebody has session g in hand and will dispose of it: the service, the load
\* that opened it too late, or the load that replaced it.
Held(s, g) ==
  \/ active[s] = g
  \/ pc[s][g] = "releasing"
  \/ \E h \in Gens : prev[s][h] = g

\* A load asked for after g ended without having opened its source.
DroppedAfter(s, g) == \E h \in Gens : h > g /\ pc[s][h] = "dropped"

\* An open session is in somebody's hands, through every swap, failure, late
\* answer and disposal, unless a later load was dropped: one preempted or failed
\* between the swap and the open (lines 441-495) loses the session it took over.
OpenIsHeld ==
  \A s \in Services, g \in Gens :
    sess[s][g] = "open" => Held(s, g) \/ DroppedAfter(s, g)

\* The loads of a service that were heard, and the newest of them (0: none).
HeardLoads(s) == {g \in Gens : pc[s][g] \in {"cancelling", "done"}}

NewestHeard(s) ==
  CHOOSE n \in {0} \cup HeardLoads(s) : \A h \in HeardLoads(s) : h <= n

Promise == INSTANCE PlaybackPromise
  WITH Silence <- Idle,
       asked   <- gen,
       newest  <- [s \in Services |-> NewestHeard(s)],
       heard   <- player

\* Every service keeps the abstract promise: requests are heard in order,
\* and a preempted load that opens late never replaces a newer source.
KeepsPromise == Promise!Spec

\* Every load asked for ends, whatever fails on the way: the chain of
\* futures at line 400 never wedges.
LoadsEnd ==
  \A s \in Services, g \in Gens : pc[s][g] = "queued" ~> pc[s][g] \in Finished

\* Whatever failed before it, a request that does not itself fail is heard unless
\* a newer one replaces it.
RequestHeard ==
  \A s \in Services : \A g \in Gens \ Faulty :
    pc[s][g] = "queued" /\ g = gen[s] ~> player = <<s, g>> \/ gen[s] > g

\* A scheduled dispose happens, and the session a heard load replaced is
\* among them (lines 500-508).
ReplacedDisposed ==
  \A s \in Services, g, h \in Gens :
    pc[s][g] = "cancelling" /\ prev[s][g] = h ~> sess[s][h] = "disposed"

=============================================================================
