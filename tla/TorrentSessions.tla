--------------------------- MODULE TorrentSessions ---------------------------
(***************************************************************************)
(* The app's side of torrents (libtorrent_service.dart) on top of the      *)
(* native library: one native session, made once whoever asks for it, and  *)
(* openMagnet, which keeps the handle of every magnet it has opened.       *)
(* Dart runs each stretch between two awaits without interruption; native  *)
(* calls run in an isolate of their own, one per openMagnet: the callers   *)
(* of NativeTorrent are the openMagnet calls.  Nothing is ever released.   *)
(***************************************************************************)
EXTENDS NativeTorrent

CONSTANTS
  Inits,    \* the calls of tryInit; each that succeeds makes a service
  Magnets,
  HashOf    \* the info-hash of each magnet

ASSUME SessionsAssumption == HashOf \in [Magnets -> Hashes]

VARIABLES
  initPc,    \* per tryInit: "new", "waits", "creates", "service", "null", "threw"
  waitsFor,  \* per tryInit: the call whose completer it awaits, or itself
  inFlight,  \* _initInFlight
  initFailed, sessions, \* _globalInitFailed; native sessions made
  closed,    \* _closed of each service
  cache,     \* _magnetToHandle of each service
  openPc,    \* per openMagnet: "new", "warm", "cold", "add", "wait", "url",
             \* "opened", "failed"
  call,      \* its service and arguments, once it is called
  handle,    \* the native handle it works with
  localUri   \* of the session it returned

init == <<initPc, waitsFor, inFlight, initFailed, sessions>>
open == <<openPc, call, handle, localUri>>
vars == <<native, init, closed, cache, open>>

Opens == Callers
OpenCalls == [svc : Inits, magnet : Magnets, index : 0 .. NFiles]
NoCall == [svc |-> "none"]

SessionsType ==
  /\ NativeType
  /\ initPc \in [Inits -> {"new", "waits", "creates", "service", "null", "threw"}]
  /\ waitsFor \in [Inits -> Inits]
  /\ inFlight = {i \in Inits : initPc[i] = "creates"}
  /\ initFailed \in BOOLEAN
  /\ sessions \in Nat
  /\ closed \subseteq Inits
  /\ cache \in [Inits -> [Magnets -> Handles \cup {0}]]
  /\ openPc \in [Opens -> {"new", "warm", "cold", "add", "wait", "url", "opened", "failed"}]
  /\ call \in [Opens -> OpenCalls \cup {NoCall}]
  /\ handle \in [Opens -> Handles \cup {0}]
  /\ localUri \in [Opens -> Urls \cup {NoUrl}]

Init ==
  /\ NativeInit
  /\ initPc = [i \in Inits |-> "new"]
  /\ waitsFor = [i \in Inits |-> i]
  /\ inFlight = {}
  /\ initFailed = FALSE
  /\ sessions = 0
  /\ closed = {}
  /\ cache = [i \in Inits |-> [m \in Magnets |-> 0]]
  /\ openPc = [o \in Opens |-> "new"]
  /\ call = [o \in Opens |-> NoCall]
  /\ handle = [o \in Opens |-> 0]
  /\ localUri = [o \in Opens |-> NoUrl]

-----------------------------------------------------------------------------
(* tryInit. *)

InitIs(i, state) == initPc' = [initPc EXCEPT ![i] = state]

\* Mutant of TryInit: nobody waits for a creation under way.
TryInitEager(i) ==
  /\ initPc[i] = "new"
  /\ IF initFailed THEN InitIs(i, "null") /\ UNCHANGED inFlight
     ELSE IF sessions > 0 THEN InitIs(i, "service") /\ UNCHANGED inFlight
     ELSE InitIs(i, "creates") /\ inFlight' = {i}
  /\ UNCHANGED <<native, waitsFor, initFailed, sessions, closed, cache, open>>

\* Up to the first await: an earlier verdict, an earlier session, somebody
\* else's attempt to wait for, or an attempt of one's own.
TryInit(i) ==
  /\ initPc[i] = "new"
  /\ \/ /\ initFailed
        /\ InitIs(i, "null")
        /\ UNCHANGED <<waitsFor, inFlight>>
     \/ /\ ~initFailed /\ sessions > 0
        /\ InitIs(i, "service")
        /\ UNCHANGED <<waitsFor, inFlight>>
     \/ /\ ~initFailed /\ sessions = 0
        /\ \E j \in inFlight : waitsFor' = [waitsFor EXCEPT ![i] = j]
        /\ InitIs(i, "waits")
        /\ UNCHANGED inFlight
     \/ /\ ~initFailed /\ sessions = 0 /\ inFlight = {}
        /\ InitIs(i, "creates")
        /\ inFlight' = {i}
        /\ UNCHANGED waitsFor
  /\ UNCHANGED <<native, initFailed, sessions, closed, cache, open>>

\* lt_create has returned; finally completes the completer.
Created(i) ==
  /\ initPc[i] = "creates"
  /\ InitIs(i, "service")
  /\ sessions' = sessions + 1
  /\ inFlight' = {}
  /\ UNCHANGED <<native, waitsFor, initFailed, closed, cache, open>>

\* Mutant of CreateFails: the verdict is returned past the finally.
CreateFailsEarly(i) ==
  /\ initPc[i] = "creates"
  /\ InitIs(i, "null")
  /\ initFailed' = TRUE
  /\ UNCHANGED <<native, waitsFor, inFlight, sessions, closed, cache, open>>

\* No library, or no session: a verdict for good.
CreateFails(i) ==
  /\ initPc[i] = "creates"
  /\ InitIs(i, "null")
  /\ initFailed' = TRUE
  /\ inFlight' = {}
  /\ UNCHANGED <<native, waitsFor, sessions, closed, cache, open>>

\* The cache directory or the isolate throws: no verdict.
CreateThrows(i) ==
  /\ initPc[i] = "creates"
  /\ InitIs(i, "threw")
  /\ inFlight' = {}
  /\ UNCHANGED <<native, waitsFor, initFailed, sessions, closed, cache, open>>

\* The completer of the call it waited for has been completed.
WaiterResumes(i) ==
  /\ initPc[i] = "waits"
  /\ waitsFor[i] \notin inFlight
  /\ InitIs(i, IF ~initFailed /\ sessions > 0 THEN "service" ELSE "null")
  /\ UNCHANGED <<native, waitsFor, inFlight, initFailed, sessions, closed, cache, open>>

\* The provider is torn down; the native session stays.
Dispose(i) ==
  /\ initPc[i] = "service"
  /\ closed' = closed \cup {i}
  /\ UNCHANGED <<native, init, cache, open>>

-----------------------------------------------------------------------------
(* openMagnet. *)

OpenIs(o, state) == openPc' = [openPc EXCEPT ![o] = state]

\* A handle in the cache, or the cold path; a closed service throws.
OpenMagnet(o) ==
  /\ openPc[o] = "new"
  /\ \E k \in OpenCalls :
       /\ initPc[k.svc] = "service"
       /\ call' = [call EXCEPT ![o] = k]
       /\ handle' = [handle EXCEPT ![o] = cache[k.svc][k.magnet]]
       /\ OpenIs(o, IF k.svc \in closed THEN "failed"
                    ELSE IF handle'[o] # 0 THEN "warm" ELSE "cold")
  /\ UNCHANGED <<native, init, closed, cache, localUri>>

\* Mutant of WarmUrl: the URL of the first file.
WarmUrlFirst(o) ==
  /\ openPc[o] = "warm"
  /\ ret[o] = None
  /\ StreamUrl(o, handle[o], 0)
  /\ UNCHANGED <<init, closed, cache, open>>

\* _streamUrlOnlyWorker, with the index as it came.
WarmUrl(o) ==
  /\ openPc[o] = "warm"
  /\ ret[o] = None
  /\ StreamUrl(o, handle[o], call[o].index)
  /\ UNCHANGED <<init, closed, cache, open>>

\* The session is returned, with the URL the native call gave.
Opened(o) ==
  /\ OpenIs(o, "opened")
  /\ localUri' = [localUri EXCEPT ![o] = ret[o][2]]

WarmOpened(o) ==
  /\ openPc[o] = "warm"
  /\ ret[o] \notin {None, Failed}
  /\ Opened(o)
  /\ UNCHANGED <<native, init, closed, cache, call, handle>>

\* The cached handle is taken to be stale: it is forgotten, the magnet added.
WarmStale(o) ==
  /\ openPc[o] = "warm"
  /\ ret[o] = Failed
  /\ cache' = [cache EXCEPT ![call[o].svc][call[o].magnet] = 0]
  /\ OpenIs(o, "cold")
  /\ UNCHANGED <<native, init, closed, call, handle, localUri>>

\* _addMagnetWorker: add the magnet, wait for the metadata, ask for the URL.
WorkerAdds(o) ==
  /\ openPc[o] = "cold"
  /\ AddMagnet(o, HashOf[call[o].magnet]) \/ AddFails(o)
  /\ OpenIs(o, "add")
  /\ UNCHANGED <<init, closed, cache, call, handle, localUri>>

WorkerInserts(o) ==
  /\ TakeNumber(o) \/ Insert(o)
  /\ UNCHANGED <<init, closed, cache, open>>

WorkerWaits(o) ==
  /\ openPc[o] = "add"
  /\ ret[o] \notin {None, Failed}
  /\ handle' = [handle EXCEPT ![o] = ret[o][2]]
  /\ Wait(o, ret[o][2])
  /\ OpenIs(o, "wait")
  /\ UNCHANGED <<init, closed, cache, call, localUri>>

MetadataWait(o) ==
  /\ WaitEnds(o) \/ WaitTimesOut(o)
  /\ UNCHANGED <<init, closed, cache, open>>

\* fileIndex.clamp(0, fileCount - 1)
Clamp(i) == IF i < NFiles THEN i ELSE NFiles - 1

WorkerUrl(o) ==
  /\ openPc[o] = "wait"
  /\ ret[o] = Done
  /\ StreamUrl(o, handle[o], Clamp(call[o].index))
  /\ OpenIs(o, "url")
  /\ UNCHANGED <<init, closed, cache, call, handle, localUri>>

ColdOpened(o) ==
  /\ openPc[o] = "url"
  /\ ret[o] \notin {None, Failed}
  /\ cache' = [cache EXCEPT ![call[o].svc][call[o].magnet] = handle[o]]
  /\ Opened(o)
  /\ UNCHANGED <<native, init, closed, call, handle>>

\* Mutant of ColdFails: the handle of a failed open is released.
ColdFailsReleasing(o) ==
  /\ openPc[o] \in {"add", "wait", "url"}
  /\ ret[o] = Failed
  /\ OpenIs(o, "failed")
  /\ handles' = Restrict(handles, DOMAIN handles \ {handle[o]})
  /\ active' = active \ (IF handle[o] = 0 THEN {} ELSE {handles[handle[o]]})
  /\ UNCHANGED <<made, info, audio, nextH, calls, streams, init, closed, cache,
                 call, handle, localUri>>

\* The error is thrown; the resolver goes for HTTP.  The handle stays.
ColdFails(o) ==
  /\ openPc[o] \in {"add", "wait", "url"}
  /\ ret[o] = Failed
  /\ OpenIs(o, "failed")
  /\ UNCHANGED <<native, init, closed, cache, call, handle, localUri>>

SwarmDelivers == InfoArrives /\ UNCHANGED <<init, closed, cache, open>>

InitStep(i) ==
  Created(i) \/ CreateFails(i) \/ CreateThrows(i) \/ WaiterResumes(i)

OpenStep(o) ==
  \/ WarmUrl(o) \/ WarmOpened(o) \/ WarmStale(o)
  \/ WorkerAdds(o) \/ WorkerInserts(o) \/ WorkerWaits(o) \/ MetadataWait(o)
  \/ WorkerUrl(o) \/ ColdOpened(o) \/ ColdFails(o)

Next ==
  \/ \E i \in Inits : TryInit(i) \/ InitStep(i) \/ Dispose(i)
  \/ \E o \in Opens : OpenMagnet(o) \/ OpenStep(o)
  \/ SwarmDelivers

Spec == Init /\ [][Next]_vars

\* Awaited futures complete: lt_create returns, its waiters resume.
FairSpec == Spec /\ \A i \in Inits : WF_vars(InitStep(i))

-----------------------------------------------------------------------------
\* However many callers ask for the engine at once, and in whatever order
\* their waits end, at most one native session is made.
OneNativeSession == sessions <= 1

\* Everybody who asks for the engine gets an answer: a creation that fails or
\* throws leaves no other caller waiting for ever.
InitsEnd == \A i \in Inits : initPc[i] \in {"waits", "creates"} ~> initPc[i] \in {"service", "null", "threw"}

\* A session that was opened stays playable as long as the app runs, whatever
\* is opened, disposed of, retried or given up meanwhile: whichever handle of
\* its hash the streamer picks, its torrent is active and has its metadata.
OpenedStaysServed ==
  \A o \in Opens :
    localUri[o] # NoUrl =>
      /\ HandleByInfoHash(localUri[o][1]) # {}
      /\ HandleByInfoHash(localUri[o][1]) \subseteq active \cap info

\* The file that plays is the one the track names, whether the magnet is
\* opened cold or warm, first or again: the audio file at or after the index
\* in the torrent's own order, an index past the end being the last file.
PicksTheTrack ==
  \A o \in Opens :
    localUri[o] # NoUrl =>
      /\ localUri[o][1] = HashOf[call[o].magnet]
      /\ localUri[o][2] \in Remap(HashOf[call[o].magnet], Clamp(call[o].index))

=============================================================================
