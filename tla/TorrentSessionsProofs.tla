------------------------ MODULE TorrentSessionsProofs ------------------------
(***************************************************************************)
(* One native session, and torrents that stay as long as the app runs, for *)
(* any number of callers, magnets, hashes and files.                       *)
(***************************************************************************)
EXTENDS TorrentSessions, NativeTorrentProofs

(* One session. *)

\* At most one creation is under way, and none once a session was made.
OneCreation ==
  /\ DOMAIN initPc = Inits
  /\ inFlight = {i \in Inits : initPc[i] = "creates"}
  /\ \A i, j \in inFlight : i = j
  /\ inFlight # {} => sessions = 0
  /\ sessions \in {0, 1}

\* Each step of tryInit keeps this; nothing else touches it.
LEMMA StepCreation == OneCreation /\ [Next]_vars => OneCreation'
<1> SUFFICES ASSUME OneCreation, [Next]_vars PROVE OneCreation'
  OBVIOUS
<1> USE DEF OneCreation, InitIs
<1>1. ASSUME NEW i \in Inits, TryInit(i) PROVE OneCreation'
  <2>1. CASE inFlight' = inFlight
    BY <1>1, <2>1 DEF TryInit
  <2>2. CASE inFlight' # inFlight
    BY <1>1, <2>2 DEF TryInit
  <2> QED BY <2>1, <2>2
<1>2. ASSUME NEW i \in Inits, Created(i) PROVE OneCreation'
  BY <1>2 DEF Created
<1>3. ASSUME NEW i \in Inits, CreateFails(i) \/ CreateThrows(i) PROVE OneCreation'
  BY <1>3 DEF CreateFails, CreateThrows
<1>4. ASSUME NEW i \in Inits, WaiterResumes(i) PROVE OneCreation'
  BY <1>4 DEF WaiterResumes
<1>5. CASE UNCHANGED init
  BY <1>5 DEF init
<1>6. ASSUME NEW i \in Inits, Dispose(i) PROVE UNCHANGED init
  BY <1>6 DEF Dispose
<1>7. ASSUME NEW o \in Opens, OpenMagnet(o) \/ OpenStep(o) PROVE UNCHANGED init
  BY <1>7 DEF OpenMagnet, OpenStep, WarmUrl, WarmOpened, WarmStale, WorkerAdds,
     WorkerInserts, WorkerWaits, MetadataWait, WorkerUrl, ColdOpened, ColdFails
<1>8. CASE SwarmDelivers
  BY <1>8, <1>5 DEF SwarmDelivers
<1>9. CASE UNCHANGED vars
  BY <1>9, <1>5 DEF vars
<1> QED
  BY <1>1, <1>2, <1>3, <1>4, <1>5, <1>6, <1>7, <1>8, <1>9 DEF Next, InitStep

\* However many callers ask for the engine at once, one native session is made
\* (libtorrent_service.dart:217-236).
THEOREM OneSession == Spec => []OneNativeSession
<1>1. Init => OneCreation
  BY DEF Init, OneCreation
<1>2. OneCreation => OneNativeSession
  BY DEF OneCreation, OneNativeSession
<1> QED BY <1>1, <1>2, StepCreation, PTL DEF Spec

-----------------------------------------------------------------------------
(* The library, as this app calls it: it never releases a handle. *)

\* No torrent is ever dropped, so there is one for each hash; handles, and
\* calls on their way to one, lead to a torrent that is active.
TorrentsLive ==
  /\ made \in Seq(Hashes)
  /\ active = DOMAIN made
  /\ \A s, t \in active : made[s] = made[t] => s = t
  /\ info \subseteq active
  /\ \A h \in DOMAIN handles : handles[h] \in active
  /\ \A c \in Callers : op[c] \in {"number", "insert"} => obj[c] \in active

\* A URL is given out for a handle whose torrent has its metadata.
UrlsServed ==
  \A u \in urls :
    \E h \in DOMAIN handles : handles[h] \in info /\ made[handles[h]] = u[1]

\* The inductive invariant of the library, called like that.
LibraryInv ==
  /\ HandlesInv /\ DOMAIN obj = Callers /\ DOMAIN ret = Callers
  /\ TorrentsLive /\ UrlsServed

\* The calls of openMagnet.
AppCall(c) ==
  \/ \E x \in Hashes : AddMagnet(c, x)
  \/ AddFails(c) \/ TakeNumber(c) \/ Insert(c)
  \/ \E h : Wait(c, h)
  \/ \E h, i : StreamUrl(c, h, i)
  \/ WaitEnds(c) \/ WaitTimesOut(c)

\* Torrents, metadata, handles and URLs only ever come.
Grows ==
  /\ \A t \in DOMAIN made : t \in DOMAIN made' /\ made'[t] = made[t]
  /\ info \subseteq info'
  /\ \A h \in DOMAIN handles : h \in DOMAIN handles' /\ handles'[h] = handles[h]

\* Then the URLs that were given out stay served.
LEMMA GrowsServes ==
  ASSUME LibraryInv, Grows, urls' = urls
  PROVE  UrlsServed'
  BY DEF LibraryInv, TorrentsLive, UrlsServed, Grows

\* A call that returns, or waits, without a change to torrents and handles.
LEMMA Looks ==
  ASSUME LibraryInv, NEW c \in Callers, UNCHANGED <<client, handles>>,
         \/ \E v : Returns(c, v)
         \/ \E t : Enters(c, "wait", t)
  PROVE  /\ TorrentsLive' /\ Grows
         /\ DOMAIN obj' = Callers /\ DOMAIN ret' = Callers
  BY DEF LibraryInv, HandlesInv, Shape, TorrentsLive, Grows, client, Returns, Enters

\* A native call keeps the invariant and takes back no URL.
LEMMA CallLibrary ==
  ASSUME LibraryInv, NEW c \in Callers, AppCall(c)
  PROVE  LibraryInv' /\ urls \subseteq urls'
<1>1. HandlesInv'
  BY CallHandles DEF AppCall, AnyCall, LibraryInv
<1> SUFFICES /\ TorrentsLive' /\ UrlsServed' /\ urls \subseteq urls'
             /\ DOMAIN obj' = Callers /\ DOMAIN ret' = Callers
  BY <1>1 DEF LibraryInv
<1>2. ASSUME NEW x \in Hashes, AddMagnet(c, x)
      PROVE  /\ TorrentsLive' /\ Grows /\ urls' = urls
             /\ DOMAIN obj' = Callers /\ DOMAIN ret' = Callers
  <2> USE DEF LibraryInv, HandlesInv, Shape, TorrentsLive, Grows, Enters, table
  <2>1. CASE \E t \in active : made[t] = x
    BY <1>2, <2>1 DEF AddMagnet
  <2>2. CASE ~ \E t \in active : made[t] = x
    <3>1. /\ made' = Append(made, x)
          /\ active' = active \cup {Len(made) + 1}
          /\ Enters(c, "number", Len(made) + 1)
          /\ info' = info /\ handles' = handles /\ urls' = urls
      BY <1>2, <2>2 DEF AddMagnet
    <3>2. /\ made' \in Seq(Hashes)
          /\ DOMAIN made' = DOMAIN made \cup {Len(made) + 1}
          /\ Len(made) + 1 \notin DOMAIN made
          /\ \A t \in DOMAIN made : made'[t] = made[t]
          /\ made'[Len(made) + 1] = x
      BY <3>1
    <3> QED BY <2>2, <3>1, <3>2
  <2> QED BY <2>1, <2>2
<1>3. CASE AddFails(c)
  BY <1>3, Looks, GrowsServes DEF AddFails, table
<1>4. CASE TakeNumber(c)
  <2>1. TorrentsLive' /\ Grows /\ urls' = urls /\ UNCHANGED <<obj, ret>>
    BY <1>4 DEF TakeNumber, LibraryInv, HandlesInv, Shape, TorrentsLive, Grows, client
  <2> QED BY <2>1, GrowsServes DEF LibraryInv
<1>5. CASE Insert(c)
  <2>1. DOMAIN handles' = DOMAIN handles \cup {num[c]} /\ handles'[num[c]] = obj[c]
        /\ num[c] \notin DOMAIN handles
    BY <1>5 DEF Insert, LibraryInv, HandlesInv, OwnNumber
  <2>2. \A h \in DOMAIN handles : handles'[h] = handles[h]
    BY <1>5, <2>1 DEF Insert
  <2>3. obj[c] \in active
    BY <1>5 DEF Insert, LibraryInv, TorrentsLive
  <2>4. /\ TorrentsLive' /\ Grows /\ urls' = urls
        /\ DOMAIN obj' = Callers /\ DOMAIN ret' = Callers
    BY <1>5, <2>1, <2>2, <2>3
       DEF Insert, Returns, LibraryInv, HandlesInv, Shape, TorrentsLive, Grows, client
  <2> QED BY <2>4, GrowsServes
<1>6. CASE \E h : Wait(c, h)
  BY <1>6, Looks, GrowsServes DEF Wait, table
<1>7. ASSUME NEW h, NEW i, StreamUrl(c, h, i)
      PROVE  /\ TorrentsLive' /\ UrlsServed' /\ urls \subseteq urls'
             /\ DOMAIN obj' = Callers /\ DOMAIN ret' = Callers
  <2>1. /\ TorrentsLive' /\ Grows
        /\ DOMAIN obj' = Callers /\ DOMAIN ret' = Callers
    BY <1>7, Looks DEF StreamUrl, table
  <2>2. CASE urls' = urls
    BY <2>1, <2>2, GrowsServes
  <2>3. ASSUME NEW u \in Served(h, i), urls' = urls \cup {u} PROVE UrlsServed'
    <3>1. h \in DOMAIN handles /\ handles[h] \in info /\ u[1] = made[handles[h]]
      BY <2>3 DEF Served
    <3> QED BY <1>7, <2>3, <3>1 DEF StreamUrl, UrlsServed, LibraryInv, client, table
  <2> QED BY <1>7, <2>1, <2>2, <2>3 DEF StreamUrl
<1>8. CASE WaitEnds(c) \/ WaitTimesOut(c)
  BY <1>8, Looks, GrowsServes DEF WaitEnds, WaitTimesOut, table
<1> QED
  BY <1>2, <1>3, <1>4, <1>5, <1>6, <1>7, <1>8, GrowsServes DEF AppCall

\* Metadata that arrives changes nothing else.
LEMMA InfoLibrary ==
  ASSUME LibraryInv, InfoArrives
  PROVE  LibraryInv' /\ urls' = urls
  BY DEF LibraryInv, HandlesInv, Shape, Counted, OwnNumber, TorrentsLive, UrlsServed,
     InfoArrives, table, calls

\* Steps outside of the library keep its invariant.
LEMMA SameLibrary ==
  ASSUME LibraryInv, UNCHANGED native
  PROVE  LibraryInv' /\ urls' = urls
  BY DEF LibraryInv, HandlesInv, Shape, Counted, OwnNumber, TorrentsLive, UrlsServed,
     native, client, table, calls

-----------------------------------------------------------------------------
(* openMagnet. *)

\* Between the native calls of an openMagnet its thread is idle, and inside
\* one it is where the step it has reached has called it.
CallFits(o) ==
  /\ openPc[o] = "add" => op[o] \in {"idle", "number", "insert"}
  /\ openPc[o] = "wait" => op[o] \in {"idle", "wait"}
  /\ openPc[o] \notin {"add", "wait"} => op[o] = "idle"
  /\ op[o] # "idle" \/ openPc[o] = "new" => ret[o] = None
  /\ openPc[o] \in {"warm", "cold"} => call[o].magnet \in Magnets
  /\ openPc[o] \in {"warm", "url"} =>
       ret[o] \in {None, Failed} \/ \E u \in urls : ret[o] = Url(u)

\* A session that was opened has a URL the library gave out.
UrlGiven(o) == localUri[o] # NoUrl => localUri[o] \in urls

\* The inductive invariant of the app over the library.
SessionsInv ==
  /\ LibraryInv
  /\ DOMAIN openPc = Opens /\ DOMAIN call = Opens /\ DOMAIN localUri = Opens
  /\ \A o \in Opens : CallFits(o) /\ UrlGiven(o)

\* It holds before anything was opened.
LEMMA InitSessions == Init => SessionsInv
<1> SUFFICES ASSUME Init PROVE SessionsInv
  OBVIOUS
<1>1. HandlesInv
  BY InitHandles DEF Init
<1>2. LibraryInv
  BY <1>1 DEF Init, NativeInit, LibraryInv, TorrentsLive, UrlsServed
<1> QED
  BY <1>2 DEF Init, NativeInit, SessionsInv, CallFits, UrlGiven, Opens

\* An openMagnet that does not make a native call at this step.
LEMMA AppSteps ==
  ASSUME SessionsInv, NEW o \in Opens, UNCHANGED native,
         OpenMagnet(o) \/ WarmOpened(o) \/ WarmStale(o) \/ ColdOpened(o) \/ ColdFails(o)
  PROVE  SessionsInv'
<1>1. LibraryInv'
  BY SameLibrary DEF SessionsInv
<1>2. UNCHANGED <<op, ret, urls>>
  BY DEF native, calls
<1> USE DEF SessionsInv, CallFits, UrlGiven, OpenIs
<1>3. CASE OpenMagnet(o)
  BY <1>1, <1>2, <1>3 DEF OpenMagnet, OpenCalls
<1>4. CASE WarmOpened(o)
  BY <1>1, <1>2, <1>4 DEF WarmOpened, Opened, Url
<1>5. CASE WarmStale(o)
  BY <1>1, <1>2, <1>5 DEF WarmStale
<1>6. CASE ColdOpened(o)
  BY <1>1, <1>2, <1>6 DEF ColdOpened, Opened, Url
<1>7. CASE ColdFails(o)
  <2>1. op[o] = "idle"
    BY <1>7 DEF ColdFails, None, Failed
  <2> QED BY <1>1, <1>2, <1>7, <2>1 DEF ColdFails
<1> QED BY <1>3, <1>4, <1>5, <1>6, <1>7

\* A native call of one openMagnet, which is where its step says.
LEMMA NativeSteps ==
  ASSUME SessionsInv, NEW o \in Opens, AppCall(o), UNCHANGED localUri,
         DOMAIN openPc' = Opens, UNCHANGED call,
         \A q \in Opens \ {o} : openPc'[q] = openPc[q] /\ op'[q] = op[q] /\ ret'[q] = ret[q],
         CallFits(o)'
  PROVE  SessionsInv'
<1>1. LibraryInv' /\ urls \subseteq urls'
  BY CallLibrary DEF SessionsInv, Opens
<1>2. \A q \in Opens \ {o} : CallFits(q)'
  BY <1>1 DEF SessionsInv, CallFits
<1>3. \A q \in Opens : UrlGiven(q)'
  BY <1>1 DEF SessionsInv, UrlGiven
<1> QED BY <1>1, <1>2, <1>3 DEF SessionsInv

\* The steps that do make a native call.
LEMMA AppCalls ==
  ASSUME SessionsInv, NEW o \in Opens,
         \/ WarmUrl(o) \/ WorkerAdds(o) \/ WorkerInserts(o)
         \/ WorkerWaits(o) \/ MetadataWait(o) \/ WorkerUrl(o)
  PROVE  SessionsInv'
<1> DEFINE Rest == \A q \in Opens \ {o} :
             openPc'[q] = openPc[q] /\ op'[q] = op[q] /\ ret'[q] = ret[q]
<1> DEFINE Frame == UNCHANGED <<localUri, call>> /\ DOMAIN openPc' = Opens /\ Rest
<1>0. /\ DOMAIN op = Opens /\ DOMAIN ret = Opens /\ DOMAIN openPc = Opens
      /\ CallFits(o)
  BY DEF SessionsInv, LibraryInv, HandlesInv, Shape, Opens
<1> SUFFICES AppCall(o) /\ Frame /\ CallFits(o)'
  BY NativeSteps
<1>1. CASE WarmUrl(o)
  <2>1. AppCall(o) /\ openPc' = openPc /\ UNCHANGED <<localUri, call>>
    BY <1>1 DEF WarmUrl, AppCall, open
  <2>2. /\ \E v : Returns(o, v)
        /\ ret'[o] = Failed \/ \E u \in urls' : ret'[o] = Url(u)
    BY <1>0, <1>1 DEF WarmUrl, StreamUrl, Returns
  <2> QED BY <1>0, <1>1, <2>1, <2>2 DEF Returns, CallFits, WarmUrl
<1>2. CASE WorkerAdds(o)
  <2>1. AppCall(o)
    BY <1>0, <1>2, SessionsAssumption DEF WorkerAdds, AppCall, CallFits
  <2>2. /\ openPc' = [openPc EXCEPT ![o] = "add"] /\ UNCHANGED <<localUri, call>>
        /\ (\E t : Enters(o, "number", t)) \/ Returns(o, Failed)
    BY <1>2 DEF WorkerAdds, AddMagnet, AddFails, OpenIs
  <2> QED BY <1>0, <2>1, <2>2 DEF Enters, Returns, CallFits
<1>3. CASE WorkerInserts(o)
  <2>1. AppCall(o) /\ openPc' = openPc /\ UNCHANGED <<localUri, call>>
    BY <1>3 DEF WorkerInserts, AppCall, open
  <2>2. openPc[o] = "add"
    BY <1>0, <1>3 DEF WorkerInserts, TakeNumber, Insert, CallFits
  <2>3. \/ op' = [op EXCEPT ![o] = "insert"] /\ ret' = ret /\ op[o] = "number"
        \/ \E v : Returns(o, v)
    BY <1>3 DEF WorkerInserts, TakeNumber, Insert
  <2> QED BY <1>0, <2>1, <2>2, <2>3 DEF Returns, CallFits
<1>4. CASE WorkerWaits(o)
  <2>1. AppCall(o)
    BY <1>4 DEF WorkerWaits, AppCall
  <2>2. /\ openPc' = [openPc EXCEPT ![o] = "wait"] /\ UNCHANGED <<localUri, call>>
        /\ (\E t : Enters(o, "wait", t)) \/ Returns(o, Failed)
    BY <1>4 DEF WorkerWaits, Wait, OpenIs
  <2> QED BY <1>0, <2>1, <2>2 DEF Enters, Returns, CallFits
<1>5. CASE MetadataWait(o)
  <2>1. AppCall(o) /\ openPc' = openPc /\ UNCHANGED <<localUri, call>>
    BY <1>5 DEF MetadataWait, AppCall, open
  <2>2. openPc[o] = "wait" /\ \E v : Returns(o, v)
    BY <1>0, <1>5 DEF MetadataWait, WaitEnds, WaitTimesOut, CallFits
  <2> QED BY <1>0, <2>1, <2>2 DEF Returns, CallFits
<1>6. CASE WorkerUrl(o)
  <2>1. AppCall(o) /\ openPc' = [openPc EXCEPT ![o] = "url"] /\ UNCHANGED <<localUri, call>>
    BY <1>6 DEF WorkerUrl, AppCall, OpenIs
  <2>2. /\ \E v : Returns(o, v)
        /\ ret'[o] = Failed \/ \E u \in urls' : ret'[o] = Url(u)
    BY <1>0, <1>6 DEF WorkerUrl, StreamUrl, Returns
  <2> QED BY <1>0, <2>1, <2>2 DEF Returns, CallFits
<1> QED BY <1>1, <1>2, <1>3, <1>4, <1>5, <1>6

\* A step that leaves every openMagnet where it is.
LEMMA StillSessions ==
  ASSUME SessionsInv, LibraryInv', UNCHANGED <<op, ret, urls, open>>
  PROVE  SessionsInv'
  BY DEF SessionsInv, CallFits, UrlGiven, open

\* Every step keeps it.
LEMMA StepSessions == SessionsInv /\ [Next]_vars => SessionsInv'
<1> SUFFICES ASSUME SessionsInv, [Next]_vars PROVE SessionsInv'
  OBVIOUS
<1>1. CASE UNCHANGED <<native, open>>
  BY <1>1, SameLibrary, StillSessions DEF SessionsInv, native, calls
<1>2. CASE SwarmDelivers
  BY <1>2, InfoLibrary, StillSessions DEF SwarmDelivers, InfoArrives, SessionsInv, calls
<1>3. ASSUME NEW o \in Opens, OpenMagnet(o) PROVE SessionsInv'
  BY <1>3, AppSteps DEF OpenMagnet
<1>4. ASSUME NEW o \in Opens, OpenStep(o) PROVE SessionsInv'
  BY <1>4, AppSteps, AppCalls DEF OpenStep, WarmOpened, WarmStale, ColdOpened, ColdFails
<1>5. ASSUME NEW i \in Inits, TryInit(i) \/ InitStep(i) \/ Dispose(i)
      PROVE  UNCHANGED <<native, open>>
  BY <1>5 DEF TryInit, InitStep, Created, CreateFails, CreateThrows, WaiterResumes, Dispose
<1> QED BY <1>1, <1>2, <1>3, <1>4, <1>5 DEF Next, vars

\* A session that was opened stays playable, whatever is opened, disposed of,
\* retried or given up later: the app never releases a handle, so no torrent
\* it got a URL for is dropped (libtorrent_service.dart:284-343, manager.go:192).
THEOREM StaysServed == Spec => []OpenedStaysServed
<1>1. SessionsInv => OpenedStaysServed
  <2> SUFFICES ASSUME SessionsInv, NEW o \in Opens, localUri[o] # NoUrl
               PROVE  /\ HandleByInfoHash(localUri[o][1]) # {}
                      /\ HandleByInfoHash(localUri[o][1]) \subseteq active \cap info
    BY DEF OpenedStaysServed
  <2>1. PICK h \in DOMAIN handles :
          handles[h] \in info /\ made[handles[h]] = localUri[o][1]
    BY DEF SessionsInv, LibraryInv, UrlsServed, UrlGiven
  <2>2. handles[h] \in HandleByInfoHash(localUri[o][1])
    BY <2>1 DEF HandleByInfoHash, Range
  <2>3. ASSUME NEW t \in HandleByInfoHash(localUri[o][1]) PROVE t = handles[h]
    <3>1. PICK g \in DOMAIN handles : t = handles[g] /\ made[t] = localUri[o][1]
      BY DEF HandleByInfoHash, Range
    <3> QED BY <2>1, <3>1 DEF SessionsInv, LibraryInv, TorrentsLive
  <2> QED BY <2>1, <2>2, <2>3 DEF SessionsInv, LibraryInv, TorrentsLive
<1> QED BY <1>1, InitSessions, StepSessions, PTL DEF Spec

-----------------------------------------------------------------------------
(* The app calls the library as it may be called. *)

\* The variables of the app.
AppOK ==
  /\ initPc \in [Inits -> {"new", "waits", "creates", "service", "null", "threw"}]
  /\ waitsFor \in [Inits -> Inits]
  /\ initFailed \in BOOLEAN
  /\ closed \subseteq Inits
  /\ cache \in [Inits -> [Magnets -> Handles \cup {0}]]
  /\ openPc \in [Opens -> {"new", "warm", "cold", "add", "wait", "url", "opened", "failed"}]
  /\ call \in [Opens -> OpenCalls \cup {NoCall}]
  /\ handle \in [Opens -> Handles \cup {0}]
  /\ localUri \in [Opens -> Urls \cup {NoUrl}]

\* Handle h is one of a torrent of magnet m.
HandleOf(h, m) == h \in DOMAIN handles /\ made[handles[h]] = HashOf[m]

\* URL u is that of the file call k is for.
Answers(k, u) ==
  /\ u \in Urls
  /\ u[1] = HashOf[k.magnet]
  /\ u[2] \in Remap(HashOf[k.magnet], Clamp(k.index))

\* What openMagnet o holds, at every await, is of the magnet it was called for.
NamesTrack(o) ==
  /\ openPc[o] # "new" => call[o] \in OpenCalls
  /\ openPc[o] \in {"warm", "wait", "url"} => HandleOf(handle[o], call[o].magnet)
  /\ openPc[o] = "add" =>
       /\ op[o] \in {"number", "insert"} => made[obj[o]] = HashOf[call[o].magnet]
       /\ op[o] = "idle" => \/ ret[o] = Failed
                            \/ \E h \in Handles : ret[o] = Handle(h) /\ HandleOf(h, call[o].magnet)
  /\ openPc[o] \in {"warm", "url"} =>
       ret[o] \in {None, Failed} \/ \E u \in Urls : ret[o] = Url(u) /\ Answers(call[o], u)
  /\ localUri[o] # NoUrl => openPc[o] = "opened" /\ Answers(call[o], localUri[o])

\* So are the handles a service keeps.
CacheNames ==
  \A i \in Inits, m \in Magnets : cache[i][m] # 0 => HandleOf(cache[i][m], m)

AppInv == TypesInv /\ AppOK /\ CacheNames /\ \A o \in Opens : NamesTrack(o)

LEMMA InitApp == Init => AppInv
<1> SUFFICES ASSUME Init PROVE AppInv
  OBVIOUS
<1>1. TypesInv
  BY InitTypes DEF Init
<1>2. AppOK
  BY DEF Init, AppOK
<1>3. CacheNames /\ \A o \in Opens : NamesTrack(o)
  BY DEF Init, NativeInit, CacheNames, NamesTrack
<1> QED BY <1>1, <1>2, <1>3 DEF AppInv

\* What calls return can be told apart.
LEMMA Returned ==
  /\ None # Failed /\ None # Done /\ Failed # Done
  /\ \A x : Handle(x) # None /\ Handle(x) # Failed /\ Handle(x) # Done /\ Handle(x)[2] = x
  /\ \A x : Url(x) # None /\ Url(x) # Failed /\ Url(x)[2] = x
  /\ \A x : Handle(x)[1] = "handle" /\ Url(x)[1] = "url"
  BY DEF None, Failed, Done, Handle, Url

\* A handle in the table is one there can be.
LEMMA HandlesKnown ==
  ASSUME TypesInv
  PROVE  /\ \A h \in DOMAIN handles : h \in Handles /\ handles[h] \in DOMAIN made
         /\ 0 \notin DOMAIN handles
  BY NativeAssumption DEF TypesInv, ClientOK, Handles

\* The library only grows under the app's calls.
LEMMA CallGrows ==
  ASSUME TypesInv, HandlesInv, NEW c \in Callers, AppCall(c)
  PROVE  Grows /\ UNCHANGED audio
<1>1. ASSUME NEW x \in Hashes, AddMagnet(c, x) PROVE Grows /\ UNCHANGED audio
  <2>1. info' = info /\ handles' = handles /\ audio' = audio
    BY <1>1 DEF AddMagnet, table
  <2>2. made' = made \/ (made' = Append(made, x) /\ Len(made) < MaxHandles)
    BY <1>1 DEF AddMagnet
  <2>3. \A t \in DOMAIN made : t \in DOMAIN made' /\ made'[t] = made[t]
    BY <2>2, OneMore DEF TypesInv
  <2> QED BY <2>1, <2>3 DEF Grows
<1>2. CASE Insert(c)
  <2>1. num[c] \notin DOMAIN handles
    BY <1>2 DEF Insert, HandlesInv, OwnNumber
  <2> QED BY <1>2, <2>1 DEF Insert, Grows, client
<1>3. CASE AddFails(c) \/ TakeNumber(c) \/ WaitEnds(c) \/ WaitTimesOut(c)
           \/ (\E h : Wait(c, h)) \/ \E h, i : StreamUrl(c, h, i)
  <2>1. UNCHANGED <<made, info, audio, handles>>
    BY <1>3 DEF AddFails, TakeNumber, Wait, StreamUrl, WaitEnds, WaitTimesOut, client, table
  <2> QED BY <2>1 DEF Grows
<1> QED BY <1>1, <1>2, <1>3 DEF AppCall

\* An openMagnet whose step this is not keeps what it has.
LEMMA KeepsTrack ==
  ASSUME AppInv, Grows, UNCHANGED audio, NEW o \in Opens, NamesTrack(o),
         openPc'[o] = openPc[o], op'[o] = op[o], obj'[o] = obj[o], ret'[o] = ret[o],
         call'[o] = call[o], handle'[o] = handle[o], localUri'[o] = localUri[o]
  PROVE  NamesTrack(o)'
<1>1. \A h, m : HandleOf(h, m) => HandleOf(h, m)'
  BY HandlesKnown DEF AppInv, HandleOf, Grows
<1>2. \A k, u : Answers(k, u) => Answers(k, u)'
  BY DEF Answers, Remap
<1>3. op[o] \in {"number", "insert"} => obj[o] \in DOMAIN made
  BY DEF AppInv, TypesInv, CallsOK, Opens
<1> QED BY <1>1, <1>2, <1>3 DEF NamesTrack, Grows

LEMMA KeepsCache ==
  ASSUME AppInv, Grows, UNCHANGED cache
  PROVE  CacheNames'
  BY HandlesKnown DEF AppInv, CacheNames, HandleOf, Grows

\* The URL given for a handle of the magnet, at the index as it came or clamped,
\* is that of the track's file: an index past the end has no URL unclamped.
LEMMA ServedAnswers ==
  ASSUME TypesInv, NEW k \in OpenCalls, NEW h, HandleOf(h, k.magnet),
         NEW i \in {k.index, Clamp(k.index)}, NEW u \in Served(h, i)
  PROVE  Answers(k, u)
<1>1. k.index \in 0 .. NFiles
  BY DEF OpenCalls
<1>2. u \in Urls /\ i \in Files
  BY ServedAudio DEF TypesInv, Served
<1>3. i = Clamp(k.index)
  BY <1>1, <1>2, NativeAssumption DEF Clamp, Files
<1>4. PICK j \in Remap(made[handles[h]], i) : u = <<made[handles[h]], j>>
  BY DEF Served
<1> QED BY <1>2, <1>3, <1>4 DEF Answers, HandleOf

\* What an openMagnet's step gives: its own state fits its magnet, and the
\* library was called as it may be, or not at all.
Sound(o) == NamesTrack(o)' /\ CacheNames' /\ AppOK' /\ (Call(o) \/ UNCHANGED native)

LEMMA SameHandles ==
  ASSUME UNCHANGED native
  PROVE  /\ \A h, m : HandleOf(h, m)' <=> HandleOf(h, m)
         /\ \A k, u : Answers(k, u)' <=> Answers(k, u)
         /\ UNCHANGED <<made, audio, op, obj, ret>> /\ Grows
  BY DEF native, client, table, calls, HandleOf, Answers, Remap, Grows

\* The steps of openMagnet that make no native call.
LEMMA QuietTracks ==
  ASSUME AppInv, SessionsInv, NEW o \in Opens,
         OpenMagnet(o) \/ WarmOpened(o) \/ WarmStale(o) \/ ColdOpened(o) \/ ColdFails(o)
  PROVE  Sound(o)
<1> USE DEF AppInv
<1>1. UNCHANGED native /\ NamesTrack(o) /\ CallFits(o)
  BY DEF OpenMagnet, WarmOpened, WarmStale, ColdOpened, ColdFails, SessionsInv
<1>2. /\ \A h, m : HandleOf(h, m)' <=> HandleOf(h, m)
      /\ \A k, u : Answers(k, u)' <=> Answers(k, u)
      /\ UNCHANGED <<op, obj, ret>> /\ Grows
  BY <1>1, SameHandles
<1>3. CASE OpenMagnet(o)
  <2>1. PICK k \in OpenCalls :
          /\ call' = [call EXCEPT ![o] = k]
          /\ handle' = [handle EXCEPT ![o] = cache[k.svc][k.magnet]]
          /\ openPc' = [openPc EXCEPT ![o] = IF k.svc \in closed THEN "failed"
                            ELSE IF handle'[o] # 0 THEN "warm" ELSE "cold"]
    BY <1>3 DEF OpenMagnet, OpenIs
  <2>2. k.svc \in Inits /\ k.magnet \in Magnets
    BY DEF OpenCalls
  <2>3. cache[k.svc][k.magnet] \in Handles \cup {0}
    BY <2>2 DEF AppOK
  <2>4. UNCHANGED <<init, closed, cache, localUri>> /\ openPc[o] = "new"
    BY <1>3 DEF OpenMagnet
  <2>5. AppOK'
    BY <2>1, <2>3, <2>4 DEF AppOK, init
  <2>6. /\ call'[o] = k /\ handle'[o] = cache[k.svc][k.magnet]
        /\ openPc'[o] \in {"failed", "warm", "cold"}
        /\ openPc'[o] = "warm" => handle'[o] # 0
    BY <2>1 DEF AppOK
  <2>7. openPc'[o] = "warm" => HandleOf(handle'[o], k.magnet)
    BY <2>2, <2>6 DEF CacheNames
  <2>8. ret[o] = None /\ localUri[o] = NoUrl
    BY <1>1, <2>4 DEF CallFits, NamesTrack
  <2>9. NamesTrack(o)'
    BY <1>2, <2>4, <2>6, <2>7, <2>8 DEF NamesTrack
  <2> QED BY <1>1, <1>2, <2>4, <2>5, <2>9, KeepsCache DEF Sound
<1>4. CASE WarmOpened(o)
  <2>1. /\ openPc[o] = "warm" /\ ret[o] \notin {None, Failed}
        /\ openPc' = [openPc EXCEPT ![o] = "opened"]
        /\ localUri' = [localUri EXCEPT ![o] = ret[o][2]]
        /\ UNCHANGED <<init, closed, cache, call, handle>>
    BY <1>4 DEF WarmOpened, Opened, OpenIs
  <2>2. PICK u \in Urls : ret[o] = Url(u) /\ Answers(call[o], u)
    BY <1>1, <2>1 DEF NamesTrack
  <2>3. ret[o][2] = u
    BY <2>2, Returned
  <2>4. AppOK'
    BY <2>1, <2>3 DEF AppOK, init
  <2>5. NamesTrack(o)'
    BY <1>1, <1>2, <2>1, <2>2, <2>3 DEF NamesTrack, AppOK
  <2> QED BY <1>1, <1>2, <2>1, <2>4, <2>5, KeepsCache DEF Sound
<1>5. CASE WarmStale(o)
  <2>1. /\ openPc[o] = "warm" /\ openPc' = [openPc EXCEPT ![o] = "cold"]
        /\ cache' = [cache EXCEPT ![call[o].svc][call[o].magnet] = 0]
        /\ UNCHANGED <<init, closed, call, handle, localUri>>
    BY <1>5 DEF WarmStale, OpenIs
  <2>2. call[o] \in OpenCalls
    BY <1>1, <2>1 DEF NamesTrack
  <2>3. call[o].svc \in Inits /\ call[o].magnet \in Magnets
    BY <2>2 DEF OpenCalls
  <2>4. cache \in [Inits -> [Magnets -> Handles \cup {0}]]
    BY DEF AppOK
  <2>5. /\ cache' \in [Inits -> [Magnets -> Handles \cup {0}]]
        /\ \A i \in Inits, m \in Magnets : cache'[i][m] \in {cache[i][m], 0}
    BY <2>1, <2>3, <2>4
  <2>6. AppOK'
    BY <2>1, <2>5 DEF AppOK, init
  <2>7. CacheNames'
    BY <1>2, <2>5 DEF CacheNames
  <2>8. NamesTrack(o)'
    BY <1>1, <1>2, <2>1 DEF NamesTrack, AppOK
  <2> QED BY <1>1, <2>6, <2>7, <2>8 DEF Sound
<1>6. CASE ColdOpened(o)
  <2>1. /\ openPc[o] = "url" /\ ret[o] \notin {None, Failed}
        /\ openPc' = [openPc EXCEPT ![o] = "opened"]
        /\ localUri' = [localUri EXCEPT ![o] = ret[o][2]]
        /\ cache' = [cache EXCEPT ![call[o].svc][call[o].magnet] = handle[o]]
        /\ UNCHANGED <<init, closed, call, handle>>
    BY <1>6 DEF ColdOpened, Opened, OpenIs
  <2>2. PICK u \in Urls : ret[o] = Url(u) /\ Answers(call[o], u)
    BY <1>1, <2>1 DEF NamesTrack
  <2>3. ret[o][2] = u
    BY <2>2, Returned
  <2>4. call[o] \in OpenCalls /\ HandleOf(handle[o], call[o].magnet)
    BY <1>1, <2>1 DEF NamesTrack
  <2>5. call[o].svc \in Inits /\ call[o].magnet \in Magnets
    BY <2>4 DEF OpenCalls
  <2>6. cache \in [Inits -> [Magnets -> Handles \cup {0}]] /\ handle[o] \in Handles \cup {0}
    BY DEF AppOK
  <2>7. /\ cache' \in [Inits -> [Magnets -> Handles \cup {0}]]
        /\ \A i \in Inits, m \in Magnets :
             cache'[i][m] = IF i = call[o].svc /\ m = call[o].magnet THEN handle[o] ELSE cache[i][m]
    BY <2>1, <2>5, <2>6
  <2>8. AppOK'
    BY <2>1, <2>3, <2>7 DEF AppOK, init
  <2>9. CacheNames'
    BY <1>2, <2>4, <2>7 DEF CacheNames
  <2>10. NamesTrack(o)'
    BY <1>1, <1>2, <2>1, <2>2, <2>3 DEF NamesTrack, AppOK
  <2> QED BY <1>1, <2>8, <2>9, <2>10 DEF Sound
<1>7. CASE ColdFails(o)
  <2>1. /\ openPc[o] \in {"add", "wait", "url"}
        /\ openPc' = [openPc EXCEPT ![o] = "failed"]
        /\ UNCHANGED <<init, closed, cache, call, handle, localUri>>
    BY <1>7 DEF ColdFails, OpenIs
  <2>2. AppOK'
    BY <2>1 DEF AppOK, init
  <2>3. NamesTrack(o)'
    BY <1>1, <1>2, <2>1 DEF NamesTrack, AppOK
  <2> QED BY <1>1, <1>2, <2>1, <2>2, <2>3, KeepsCache DEF Sound
<1> QED BY <1>3, <1>4, <1>5, <1>6, <1>7

\* What was true of handles and URLs stays true.
LEMMA HandlesGrow ==
  ASSUME TypesInv, Grows, UNCHANGED audio
  PROVE  /\ \A h, m : HandleOf(h, m) => HandleOf(h, m)'
         /\ \A k, u : Answers(k, u) <=> Answers(k, u)'
<1>1. \A h, m : HandleOf(h, m) => HandleOf(h, m)'
  BY HandlesKnown DEF HandleOf, Grows
<1>2. \A k, u : Answers(k, u) <=> Answers(k, u)'
  BY DEF Answers, Remap
<1> QED BY <1>1, <1>2

\* lt_stream_url, asked for a handle of the magnet.
LEMMA UrlTracks ==
  ASSUME AppInv, NEW o \in Opens, call[o] \in OpenCalls,
         HandleOf(handle[o], call[o].magnet),
         NEW i \in {call[o].index, Clamp(call[o].index)},
         StreamUrl(o, handle[o], i)
  PROVE  /\ Call(o) /\ AppCall(o) /\ op'[o] = "idle"
         /\ \/ ret'[o] = Failed
            \/ \E u \in Urls : ret'[o] = Url(u) /\ Answers(call[o], u)
<1> USE DEF AppInv
<1>1. handle[o] \in Handles
  BY HandlesKnown DEF HandleOf
<1>2. call[o].index \in 0 .. NFiles
  BY DEF OpenCalls
<1>3. i \in Files \cup {NFiles}
  BY <1>2, NativeAssumption DEF Clamp, Files
<1>4. Call(o) /\ AppCall(o)
  BY <1>1, <1>3 DEF Call, AppCall
<1>5. o \in DOMAIN op /\ o \in DOMAIN ret
  BY DEF TypesInv, CallsOK, Opens
<1>6. op'[o] = "idle" /\ (ret'[o] = Failed \/ \E u \in Served(handle[o], i) : ret'[o] = Url(u))
  BY <1>5 DEF StreamUrl, Returns
<1>7. ASSUME NEW u \in Served(handle[o], i), ret'[o] = Url(u)
      PROVE  u \in Urls /\ Answers(call[o], u)
  BY ServedAnswers DEF Answers
<1> QED BY <1>4, <1>6, <1>7

\* The steps of openMagnet that make a native call.
LEMMA CallTracks ==
  ASSUME AppInv, SessionsInv, NEW o \in Opens,
         \/ WarmUrl(o) \/ WorkerAdds(o) \/ WorkerInserts(o)
         \/ WorkerWaits(o) \/ MetadataWait(o) \/ WorkerUrl(o)
  PROVE  Sound(o) /\ AppCall(o) /\ Grows /\ UNCHANGED audio
<1> USE DEF AppInv
<1>1. NamesTrack(o) /\ CallFits(o) /\ HandlesInv
  BY DEF SessionsInv, LibraryInv
<1>2. DOMAIN op = Opens /\ DOMAIN ret = Opens /\ DOMAIN obj = Opens /\ DOMAIN openPc = Opens /\ DOMAIN handle = Opens
  BY DEF TypesInv, CallsOK, Opens, AppOK
<1>3. ASSUME AppCall(o)
      PROVE  /\ Grows /\ UNCHANGED audio
             /\ \A h, m : HandleOf(h, m) => HandleOf(h, m)'
             /\ \A k, u : Answers(k, u) <=> Answers(k, u)'
  BY <1>1, <1>3, CallGrows, HandlesGrow DEF Opens
<1>4. ASSUME NEW pc \in {"add", "wait", "url"}, openPc' = [openPc EXCEPT ![o] = pc],
             UNCHANGED <<init, closed, cache, call, handle, localUri>>
      PROVE  AppOK'
  BY <1>4 DEF AppOK, init
<1>5. ASSUME UNCHANGED <<init, closed, cache, open>> PROVE AppOK'
  BY <1>5 DEF AppOK, init, open
<1>6. ASSUME AppCall(o), UNCHANGED cache, AppOK', NamesTrack(o)', Call(o)
      PROVE  Sound(o) /\ AppCall(o) /\ Grows /\ UNCHANGED audio
  BY <1>3, <1>6, KeepsCache DEF Sound
<1>10. CASE WarmUrl(o)
  <2>1. /\ openPc[o] = "warm" /\ StreamUrl(o, handle[o], call[o].index)
        /\ UNCHANGED <<init, closed, cache, open>>
    BY <1>10 DEF WarmUrl
  <2>2. /\ Call(o) /\ AppCall(o) /\ op'[o] = "idle"
        /\ \/ ret'[o] = Failed
           \/ \E u \in Urls : ret'[o] = Url(u) /\ Answers(call[o], u)
    BY <1>1, <2>1, UrlTracks DEF NamesTrack
  <2>3. NamesTrack(o)'
    BY <1>1, <1>3, <2>1, <2>2 DEF NamesTrack, open
  <2> QED BY <1>5, <1>6, <2>1, <2>2, <2>3
<1>11. CASE WorkerAdds(o)
  <2>1. /\ openPc[o] = "cold" /\ openPc' = [openPc EXCEPT ![o] = "add"]
        /\ UNCHANGED <<init, closed, cache, call, handle, localUri>>
        /\ (AddMagnet(o, HashOf[call[o].magnet]) \/ AddFails(o))
    BY <1>11 DEF WorkerAdds, OpenIs
  <2>2. HashOf[call[o].magnet] \in Hashes
    BY <1>1, <2>1, SessionsAssumption DEF NamesTrack, OpenCalls
  <2>3. Call(o) /\ AppCall(o)
    BY <2>1, <2>2 DEF Call, AppCall
  <2>4. CASE AddFails(o)
    <3>1. op'[o] = "idle" /\ ret'[o] = Failed
      BY <1>2, <2>4 DEF AddFails, Returns
    <3>2. NamesTrack(o)'
      BY <1>1, <1>2, <2>1, <3>1 DEF NamesTrack
    <3> QED BY <1>4, <1>6, <2>1, <2>3, <3>2
  <2>5. CASE AddMagnet(o, HashOf[call[o].magnet])
    <3>1. PICK t : Enters(o, "number", t) /\ made'[t] = HashOf[call[o].magnet]
      <4>1. CASE \E t \in active : made[t] = HashOf[call[o].magnet]
        BY <2>5, <4>1 DEF AddMagnet
      <4>2. CASE ~ \E t \in active : made[t] = HashOf[call[o].magnet]
        <5>1. made' = Append(made, HashOf[call[o].magnet]) /\ Enters(o, "number", Len(made) + 1)
          BY <2>5, <4>2 DEF AddMagnet
        <5>2. made'[Len(made) + 1] = HashOf[call[o].magnet]
          BY <2>2, <5>1 DEF TypesInv, ClientOK
        <5> QED BY <5>1, <5>2
      <4> QED BY <4>1, <4>2
    <3>2. op'[o] = "number" /\ obj'[o] = t
      BY <1>2, <3>1 DEF Enters
    <3>3. NamesTrack(o)'
      BY <1>1, <1>2, <2>1, <3>1, <3>2 DEF NamesTrack
    <3> QED BY <1>4, <1>6, <2>1, <2>3, <3>3
  <2> QED BY <2>1, <2>4, <2>5
<1>12. CASE WorkerInserts(o)
  <2>1. UNCHANGED <<init, closed, cache, open>> /\ (TakeNumber(o) \/ Insert(o))
    BY <1>12 DEF WorkerInserts
  <2>2. Call(o) /\ AppCall(o)
    BY <2>1 DEF Call, AppCall
  <2>3. openPc[o] = "add" /\ op[o] \in {"number", "insert"} /\ made[obj[o]] = HashOf[call[o].magnet]
    BY <1>1, <2>1 DEF CallFits, TakeNumber, Insert, NamesTrack
  <2>4. CASE TakeNumber(o)
    <3>1. op'[o] = "insert" /\ obj' = obj /\ made' = made
      BY <1>2, <2>4 DEF TakeNumber, client
    <3>2. NamesTrack(o)'
      BY <1>1, <2>1, <2>3, <3>1 DEF NamesTrack, open
    <3> QED BY <1>5, <1>6, <2>1, <2>2, <3>2
  <2>5. CASE Insert(o)
    <3>1. PICK h \in Handles : h = num[o]
      BY <2>5 DEF Insert, TypesInv, CallsOK, ClientOK, Opens, Handles
    <3>2. /\ op'[o] = "idle" /\ ret'[o] = Handle(h) /\ made' = made
          /\ h \in DOMAIN handles' /\ handles'[h] = obj[o]
      BY <1>2, <2>5, <3>1 DEF Insert, Returns, client
    <3>3. HandleOf(h, call[o].magnet)'
      BY <2>1, <2>3, <3>2 DEF HandleOf, open
    <3>4. NamesTrack(o)'
      BY <1>1, <2>1, <2>3, <3>2, <3>3 DEF NamesTrack, open
    <3> QED BY <1>5, <1>6, <2>1, <2>2, <3>4
  <2> QED BY <2>1, <2>4, <2>5
<1>13. CASE WorkerWaits(o)
  <2>1. /\ openPc[o] = "add" /\ openPc' = [openPc EXCEPT ![o] = "wait"]
        /\ ret[o] \notin {None, Failed}
        /\ handle' = [handle EXCEPT ![o] = ret[o][2]]
        /\ Wait(o, ret[o][2])
        /\ UNCHANGED <<init, closed, cache, call, localUri>>
    BY <1>13 DEF WorkerWaits, OpenIs
  <2>2. op[o] = "idle"
    BY <2>1 DEF Wait
  <2>3. PICK h \in Handles : ret[o] = Handle(h) /\ HandleOf(h, call[o].magnet)
    BY <1>1, <2>1, <2>2 DEF NamesTrack
  <2>4. ret[o][2] = h
    BY <2>3, Returned
  <2>5. Call(o) /\ AppCall(o)
    BY <2>1, <2>4 DEF Call, AppCall
  <2>6. AppOK'
    BY <2>1, <2>4 DEF AppOK, init
  <2>7. NamesTrack(o)'
    BY <1>1, <1>2, <1>3, <2>1, <2>3, <2>4, <2>5 DEF NamesTrack
  <2> QED BY <1>6, <2>1, <2>5, <2>6, <2>7
<1>14. CASE MetadataWait(o)
  <2>1. UNCHANGED <<init, closed, cache, open>> /\ (WaitEnds(o) \/ WaitTimesOut(o))
    BY <1>14 DEF MetadataWait
  <2>2. Call(o) /\ AppCall(o)
    BY <2>1 DEF Call, AppCall
  <2>3. openPc[o] = "wait"
    BY <1>1, <2>1 DEF CallFits, WaitEnds, WaitTimesOut
  <2>4. NamesTrack(o)'
    BY <1>1, <1>3, <2>1, <2>2, <2>3 DEF NamesTrack, open
  <2> QED BY <1>5, <1>6, <2>1, <2>2, <2>4
<1>15. CASE WorkerUrl(o)
  <2>1. /\ openPc[o] = "wait" /\ openPc' = [openPc EXCEPT ![o] = "url"]
        /\ StreamUrl(o, handle[o], Clamp(call[o].index))
        /\ UNCHANGED <<init, closed, cache, call, handle, localUri>>
    BY <1>15 DEF WorkerUrl, OpenIs
  <2>2. /\ Call(o) /\ AppCall(o) /\ op'[o] = "idle"
        /\ \/ ret'[o] = Failed
           \/ \E u \in Urls : ret'[o] = Url(u) /\ Answers(call[o], u)
    BY <1>1, <2>1, UrlTracks DEF NamesTrack
  <2>3. NamesTrack(o)'
    BY <1>1, <1>2, <1>3, <2>1, <2>2 DEF NamesTrack
  <2> QED BY <1>4, <1>6, <2>1, <2>2, <2>3
<1> QED BY <1>10, <1>11, <1>12, <1>13, <1>14, <1>15

\* A native call of one openMagnet is nothing to the others.
LEMMA CallsApart ==
  ASSUME TypesInv, NEW c \in Callers, AppCall(c), NEW q \in Callers \ {c}
  PROVE  op'[q] = op[q] /\ obj'[q] = obj[q] /\ ret'[q] = ret[q]
<1>0. q \in DOMAIN op /\ q \in DOMAIN obj /\ q \in DOMAIN ret
  BY DEF TypesInv, CallsOK
<1>1. ASSUME NEW v, Returns(c, v) PROVE op'[q] = op[q] /\ obj'[q] = obj[q] /\ ret'[q] = ret[q]
  BY <1>0, <1>1 DEF Returns
<1>2. ASSUME NEW w, NEW t, Enters(c, w, t)
      PROVE  op'[q] = op[q] /\ obj'[q] = obj[q] /\ ret'[q] = ret[q]
  BY <1>0, <1>2 DEF Enters
<1>3. CASE TakeNumber(c)
  BY <1>0, <1>3 DEF TakeNumber
<1>4. CASE ~TakeNumber(c)
  BY <1>1, <1>2, <1>4 DEF AppCall, AddMagnet, AddFails, Insert, Wait, StreamUrl, WaitEnds, WaitTimesOut
<1> QED BY <1>3, <1>4

\* Nor is anything else an openMagnet does.
LEMMA OpensApart ==
  ASSUME AppOK, NEW o \in Opens, OpenMagnet(o) \/ OpenStep(o), NEW q \in Opens \ {o}
  PROVE  /\ openPc'[q] = openPc[q] /\ call'[q] = call[q]
         /\ handle'[q] = handle[q] /\ localUri'[q] = localUri[q]
<1>1. /\ q \in DOMAIN openPc /\ q \in DOMAIN call
      /\ q \in DOMAIN handle /\ q \in DOMAIN localUri
  BY DEF AppOK
<1> USE <1>1 DEF OpenIs, open
<1>2. CASE OpenMagnet(o)
  BY <1>2 DEF OpenMagnet
<1>3. CASE WarmOpened(o) \/ ColdOpened(o)
  BY <1>3 DEF WarmOpened, ColdOpened, Opened
<1>4. CASE WarmStale(o) \/ ColdFails(o)
  BY <1>4 DEF WarmStale, ColdFails
<1>5. CASE WarmUrl(o) \/ WorkerInserts(o) \/ MetadataWait(o)
  BY <1>5 DEF WarmUrl, WorkerInserts, MetadataWait
<1>6. CASE WorkerAdds(o)
  BY <1>6 DEF WorkerAdds
<1>7. CASE WorkerWaits(o)
  BY <1>7 DEF WorkerWaits
<1>8. CASE WorkerUrl(o)
  BY <1>8 DEF WorkerUrl
<1> QED BY <1>2, <1>3, <1>4, <1>5, <1>6, <1>7, <1>8 DEF OpenStep

\* The steps of tryInit, and a service torn down, move no openMagnet.
LEMMA InitsApp ==
  ASSUME AppInv, inFlight \subseteq Inits, NEW i \in Inits,
         TryInit(i) \/ InitStep(i) \/ Dispose(i)
  PROVE  AppOK' /\ UNCHANGED <<native, cache, open>>
<1> USE DEF AppInv
<1>1. UNCHANGED <<native, cache, open>>
  BY DEF TryInit, InitStep, Created, CreateFails, CreateThrows, WaiterResumes, Dispose
<1>2. ASSUME NEW state \in {"waits", "creates", "service", "null", "threw"}, InitIs(i, state)
      PROVE  initPc' \in [Inits -> {"new", "waits", "creates", "service", "null", "threw"}]
  BY <1>2 DEF InitIs, AppOK
<1>3. CASE TryInit(i)
  <2>1. initPc' \in [Inits -> {"new", "waits", "creates", "service", "null", "threw"}]
    BY <1>2, <1>3 DEF TryInit
  <2>2. waitsFor' \in [Inits -> Inits]
    BY <1>3 DEF TryInit, AppOK
  <2> QED BY <1>1, <1>3, <2>1, <2>2 DEF TryInit, AppOK, open
<1>4. CASE InitStep(i)
  <2>1. initPc' \in [Inits -> {"new", "waits", "creates", "service", "null", "threw"}]
    BY <1>2, <1>4 DEF InitStep, Created, CreateFails, CreateThrows, WaiterResumes
  <2>2. UNCHANGED <<waitsFor, closed>> /\ initFailed' \in BOOLEAN
    BY <1>4 DEF InitStep, Created, CreateFails, CreateThrows, WaiterResumes, AppOK
  <2> QED BY <1>1, <2>1, <2>2 DEF AppOK, open
<1>5. CASE Dispose(i)
  BY <1>1, <1>5 DEF Dispose, AppOK, init, open
<1> QED BY <1>1, <1>3, <1>4, <1>5

\* Every step keeps the invariant, and is one the library allows.
LEMMA StepApp ==
  AppInv /\ SessionsInv /\ OneCreation /\ [Next]_vars => AppInv' /\ [NativeNext]_native
<1> SUFFICES ASSUME AppInv, SessionsInv, OneCreation, [Next]_vars
             PROVE  AppInv' /\ [NativeNext]_native
  OBVIOUS
<1> USE DEF AppInv
<1>1. ASSUME UNCHANGED <<native, cache, open>>, AppOK' PROVE AppInv' /\ [NativeNext]_native
  <2>1. TypesInv'
    BY <1>1, StepTypes
  <2>2. Grows /\ UNCHANGED <<audio, op, obj, ret>>
    BY <1>1, SameHandles
  <2>3. \A q \in Opens : NamesTrack(q)'
    BY <1>1, <2>2, KeepsTrack DEF open
  <2> QED BY <1>1, <2>1, <2>2, <2>3, KeepsCache
<1>2. ASSUME NEW o \in Opens, Sound(o), OpenMagnet(o) \/ OpenStep(o), Grows, UNCHANGED audio,
             \A q \in Opens \ {o} : op'[q] = op[q] /\ obj'[q] = obj[q] /\ ret'[q] = ret[q]
      PROVE  AppInv' /\ [NativeNext]_native
  <2>1. [NativeNext]_native
    BY <1>2 DEF Sound, NativeNext, Opens
  <2>2. TypesInv'
    BY <2>1, StepTypes
  <2>3. \A q \in Opens \ {o} : NamesTrack(q)'
    BY <1>2, KeepsTrack, OpensApart
  <2> QED BY <1>2, <2>1, <2>2, <2>3 DEF Sound
<1>3. ASSUME NEW i \in Inits, TryInit(i) \/ InitStep(i) \/ Dispose(i)
      PROVE  AppInv' /\ [NativeNext]_native
  BY <1>1, <1>3, InitsApp DEF OneCreation
<1>4. ASSUME NEW o \in Opens,
             OpenMagnet(o) \/ WarmOpened(o) \/ WarmStale(o) \/ ColdOpened(o) \/ ColdFails(o)
      PROVE  AppInv' /\ [NativeNext]_native
  <2>1. UNCHANGED native
    BY <1>4 DEF OpenMagnet, WarmOpened, WarmStale, ColdOpened, ColdFails
  <2>2. Sound(o)
    BY <1>4, QuietTracks
  <2>3. OpenMagnet(o) \/ OpenStep(o)
    BY <1>4 DEF OpenStep
  <2> QED BY <1>2, <2>1, <2>2, <2>3, SameHandles
<1>5. ASSUME NEW o \in Opens,
             \/ WarmUrl(o) \/ WorkerAdds(o) \/ WorkerInserts(o)
             \/ WorkerWaits(o) \/ MetadataWait(o) \/ WorkerUrl(o)
      PROVE  AppInv' /\ [NativeNext]_native
  <2>1. Sound(o) /\ AppCall(o) /\ Grows /\ UNCHANGED audio
    BY <1>5, CallTracks
  <2>2. OpenStep(o)
    BY <1>5 DEF OpenStep
  <2>3. \A q \in Opens \ {o} : op'[q] = op[q] /\ obj'[q] = obj[q] /\ ret'[q] = ret[q]
    BY <2>1, CallsApart DEF Opens
  <2> QED BY <1>2, <2>1, <2>2, <2>3
<1>6. CASE SwarmDelivers
  <2>1. InfoArrives /\ UNCHANGED <<init, closed, cache, open>>
    BY <1>6 DEF SwarmDelivers
  <2>2. TypesInv' /\ [NativeNext]_native
    BY <2>1, StepTypes DEF NativeNext
  <2>3. Grows /\ UNCHANGED <<audio, op, obj, ret>>
    BY <2>1 DEF InfoArrives, table, calls, Grows
  <2>4. AppOK'
    BY <2>1 DEF AppOK, init, open
  <2>5. \A q \in Opens : NamesTrack(q)'
    BY <2>1, <2>3, KeepsTrack DEF open
  <2> QED BY <2>1, <2>2, <2>3, <2>4, <2>5, KeepsCache
<1>7. CASE UNCHANGED vars
  BY <1>1, <1>7 DEF vars, AppOK, init, open
<1> QED BY <1>3, <1>4, <1>5, <1>6, <1>7 DEF Next, OpenStep

\* Through its steps, what they all need.
Sessions == AppInv /\ SessionsInv /\ OneCreation

LEMMA SessionsHold == Spec => []Sessions
<1>1. Init => Sessions
  BY InitApp, InitSessions DEF Init, OneCreation, Sessions
<1>2. Sessions /\ [Next]_vars => Sessions'
  BY StepApp, StepSessions, StepCreation DEF Sessions
<1> QED BY <1>1, <1>2, PTL DEF Spec

\* The app is one of the programs the library is proved for: it calls with
\* handles it was given and file numbers the library checks, so what holds of
\* handles, URLs and streams under any callers holds under this one
\* (libtorrent_service.dart:345-428).
THEOREM AppUsesLibrary == Spec => NativeSpec
<1>1. Init => NativeInit
  BY DEF Init
<1>2. Sessions /\ [Next]_vars => [NativeNext]_native
  BY StepApp DEF Sessions
<1> QED BY <1>1, <1>2, SessionsHold, PTL DEF Spec, NativeSpec

\* Every variable of the app and the library stays in its type; a creation is
\* in flight exactly while a tryInit makes one.
THEOREM SessionsTyped == Spec => []SessionsType
<1>1. Sessions => SessionsType
  <2> SUFFICES ASSUME Sessions PROVE SessionsType
    OBVIOUS
  <2>1. NativeType
    BY DEF Sessions, AppInv, TypesInv, CallsOK, ClientOK, StreamsOK, NativeType, Rets
  <2> QED BY <2>1 DEF Sessions, AppInv, AppOK, OneCreation, SessionsType
<1> QED BY <1>1, SessionsHold, PTL

\* The file that plays is the one the track names, cold or warm, first or
\* again: at every await the handle an openMagnet holds, or a service keeps,
\* is one of its magnet, and the index asked for is the track's
\* (libtorrent_service.dart:284-343, 345-428; manager.go:151-179).
THEOREM TrackIsPicked == Spec => []PicksTheTrack
<1>1. Sessions => PicksTheTrack
  BY DEF Sessions, AppInv, NamesTrack, Answers, PicksTheTrack
<1> QED BY <1>1, SessionsHold, PTL
=============================================================================
