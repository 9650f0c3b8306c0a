------------------------- MODULE NativeTorrentProofs -------------------------
(***************************************************************************)
(* Handles of the native library keep their torrent, for every number of   *)
(* callers, requests, hashes and files.                                    *)
(***************************************************************************)
EXTENDS NativeTorrent, TLAPS

\* Numbers are counted upwards: a handle in the table, and one about to be put
\* there, has been counted.
Counted ==
  /\ nextH \in Nat
  /\ \A h \in DOMAIN handles : h \in Nat /\ h <= nextH
  /\ \A c \in Callers : op[c] = "insert" => num[c] \in Nat /\ num[c] <= nextH

\* The number of a caller between TakeNumber and Insert is its own: neither in
\* the table nor held by another caller.
OwnNumber ==
  \A c \in Callers : op[c] = "insert" =>
    /\ num[c] \notin DOMAIN handles
    /\ \A d \in Callers : op[d] = "insert" /\ num[d] = num[c] => d = c

\* As much of the type invariant as the others need.
Shape == op \in [Callers -> {"idle", "number", "insert", "wait", "drop"}]
         /\ num \in [Callers -> Int]

\* The inductive invariant.
HandlesInv == Shape /\ Counted /\ OwnNumber

\* The step of HandlesKept: the table changes no entry it keeps.
Kept == \A h \in DOMAIN handles \cap DOMAIN handles' : handles'[h] = handles[h]

\* It holds of the empty table.
LEMMA InitHandles == NativeInit => HandlesInv
  BY DEF NativeInit, HandlesInv, Shape, Counted, OwnNumber

\* Calls that neither count nor touch the table, and end or start outside of
\* an insertion, change nothing of this.
LEMMA Elsewhere ==
  ASSUME HandlesInv, NEW c \in Callers,
         UNCHANGED table,
         \/ \E v : Returns(c, v) /\ op[c] # "insert"
         \/ \E w \in {"number", "wait"} : \E t : Enters(c, w, t)
  PROVE  HandlesInv' /\ Kept
  BY DEF HandlesInv, Shape, Counted, OwnNumber, table, Returns, Enters, Kept

\* A call of one of the exported functions, whatever its arguments.
AnyCall(c) ==
  \/ \E x : AddMagnet(c, x)
  \/ AddFails(c) \/ TakeNumber(c) \/ Insert(c)
  \/ \E h : Wait(c, h) \/ Release(c, h)
  \/ \E h, i : StreamUrl(c, h, i)
  \/ WaitEnds(c) \/ WaitTimesOut(c) \/ DropTorrent(c)

\* One step of any call, with any arguments, keeps the invariant and every entry.
\* The crux is Insert: its number is its own, so it overwrites nothing.
LEMMA CallHandles ==
  ASSUME HandlesInv, NEW c \in Callers, AnyCall(c)
  PROVE  HandlesInv' /\ Kept
<1> USE DEF HandlesInv, Shape, Counted, OwnNumber, Kept
<1>1. CASE \E x : AddMagnet(c, x)
  BY <1>1, Elsewhere DEF AddMagnet
<1>2. CASE AddFails(c)
  BY <1>2, Elsewhere DEF AddFails
<1>3. CASE TakeNumber(c)
  BY <1>3 DEF TakeNumber
<1>4. CASE Insert(c)
  <2>1. DOMAIN handles' = DOMAIN handles \cup {num[c]}
    BY <1>4 DEF Insert
  <2>2. /\ op' = [op EXCEPT ![c] = "idle"]
        /\ num' = [num EXCEPT ![c] = 0]
        /\ nextH' = nextH
    BY <1>4 DEF Insert, Returns
  <2>3. HandlesInv'
    BY <1>4, <2>1, <2>2 DEF Insert
  <2>4. Kept
    BY <1>4, <2>1 DEF Insert
  <2> QED BY <2>3, <2>4
<1>5. CASE \E h : Wait(c, h)
  BY <1>5, Elsewhere DEF Wait
<1>6. CASE \E h : Release(c, h)
  BY <1>6 DEF Release, Enters
<1>7. CASE \E h, i : StreamUrl(c, h, i)
  BY <1>7, Elsewhere DEF StreamUrl
<1>8. CASE WaitEnds(c) \/ WaitTimesOut(c) \/ DropTorrent(c)
  BY <1>8, Elsewhere DEF WaitEnds, WaitTimesOut, DropTorrent, table
<1> QED BY <1>1, <1>2, <1>3, <1>4, <1>5, <1>6, <1>7, <1>8 DEF AnyCall

\* So does every step of the library.
LEMMA StepHandles == HandlesInv /\ [NativeNext]_native => HandlesInv' /\ Kept
<1> SUFFICES ASSUME HandlesInv, [NativeNext]_native PROVE HandlesInv' /\ Kept
  OBVIOUS
<1> USE DEF HandlesInv, Shape, Counted, OwnNumber, Kept
<1>1. ASSUME NEW c \in Callers, Call(c) PROVE HandlesInv' /\ Kept
  BY <1>1, CallHandles DEF Call, AnyCall
<1>2. CASE InfoArrives
  BY <1>2 DEF InfoArrives, table, calls
<1>3. ASSUME NEW s \in Streams, Fetch(s) \/ Prioritise(s) PROVE HandlesInv' /\ Kept
  BY <1>3 DEF Fetch, Request, Prioritise, table, calls
<1>4. CASE UNCHANGED native
  BY <1>4 DEF native, table, calls
<1> QED BY <1>1, <1>2, <1>3, <1>4 DEF NativeNext

\* A handle means the same torrent as long as it is in the table, although the
\* counter and the table are updated in two steps (manager.go:72-75).
THEOREM HandlesMean == NativeSpec => HandlesKept
<1>1. NativeSpec => []HandlesInv
  BY InitHandles, StepHandles, PTL DEF NativeSpec
<1>2. HandlesInv /\ [NativeNext]_native => [Kept]_native
  BY StepHandles
<1>3. [Kept]_native <=> [\A h \in DOMAIN handles \cap DOMAIN handles' : handles'[h] = handles[h]]_native
  BY DEF Kept
<1> QED BY <1>1, <1>2, <1>3, PTL DEF NativeSpec, HandlesKept

-----------------------------------------------------------------------------
(* Types: who refers to what. *)

Rets == {None, Failed, Done} \cup {Handle(h) : h \in Handles} \cup {Url(u) : u \in Urls}

\* The variables of the calls.  A caller about to put a handle into the table
\* has a number that was counted, and a torrent the client has made.
CallsOK ==
  /\ op \in [Callers -> {"idle", "number", "insert", "wait", "drop"}]
  /\ obj \in [Callers -> Torrents \cup {0}]
  /\ num \in [Callers -> Handles \cup {0}]
  /\ ret \in [Callers -> Rets]
  /\ \A c \in Callers :
       /\ op[c] \in {"number", "insert"} => obj[c] \in DOMAIN made
       /\ op[c] = "insert" => num[c] \in 1 .. nextH

\* The client and the table; both only grow, but for the handles.
ClientOK ==
  /\ made \in Seq(Hashes) /\ Len(made) <= MaxHandles
  /\ active \subseteq DOMAIN made
  /\ info \subseteq DOMAIN made
  /\ audio \in Audio
  /\ nextH \in 0 .. MaxHandles
  /\ DOMAIN handles \subseteq 1 .. nextH
  /\ \A h \in DOMAIN handles : handles[h] \in DOMAIN made
  /\ urls \subseteq Urls

\* The streams.  A request that is served has a torrent the client has made.
StreamsOK ==
  /\ stage \in [Streams -> {"new", "loop", "read", "refused"}]
  /\ asked \in [Streams -> Urls \cup {NoUrl}]
  /\ src \in [Streams -> Torrents \cup {0}]
  /\ file \in [Streams -> Files]
  /\ upto \in [Streams -> 0 .. NFiles]
  /\ prio \in [Torrents -> [Files -> {"none", "now"}]]
  /\ last \in [Torrents -> Streams \cup {0}]
  /\ \A s \in Streams : stage[s] \in {"loop", "read"} => src[s] \in DOMAIN made
  /\ \A s \in Streams : stage[s] \in {"new", "loop"} => upto[s] \in 0 .. NFiles - 1

TypesInv == CallsOK /\ ClientOK /\ StreamsOK

LEMMA InitTypes == NativeInit => TypesInv
<1> SUFFICES ASSUME NativeInit PROVE TypesInv
  OBVIOUS
<1>1. CallsOK
  BY DEF NativeInit, CallsOK, Rets
<1>2. ClientOK
  <2>1. made \in Seq(Hashes) /\ Len(made) = 0 /\ DOMAIN handles = {}
    BY DEF NativeInit
  <2>2. 0 <= MaxHandles /\ nextH \in 0 .. MaxHandles
    BY NativeAssumption DEF NativeInit
  <2> QED BY <2>1, <2>2 DEF NativeInit, ClientOK
<1>3. StreamsOK
  <2>1. 0 \in Files /\ 0 \in 0 .. NFiles - 1 /\ 0 \in 0 .. NFiles
    BY NativeAssumption DEF Files
  <2> QED BY <2>1 DEF NativeInit, StreamsOK
<1> QED BY <1>1, <1>2, <1>3 DEF TypesInv

\* The torrents that were made have numbers, and keep them.
LEMMA MadeNumbers ==
  ASSUME ClientOK
  PROVE  DOMAIN made \subseteq Torrents
  BY NativeAssumption DEF ClientOK, Torrents

LEMMA OneMore ==
  ASSUME ClientOK, NEW x \in Hashes, Len(made) < MaxHandles, made' = Append(made, x)
  PROVE  /\ made' \in Seq(Hashes) /\ Len(made') <= MaxHandles
         /\ DOMAIN made \subseteq DOMAIN made'
         /\ Len(made) + 1 \in DOMAIN made' /\ Len(made) + 1 \in Torrents
         /\ \A t \in DOMAIN made : made'[t] = made[t]
  BY NativeAssumption DEF ClientOK, Torrents

\* A call that ends, or goes on with a torrent that was made.
LEMMA ReturnsOK ==
  ASSUME CallsOK, NEW c \in Callers, NEW v \in Rets, Returns(c, v), UNCHANGED nextH,
         DOMAIN made \subseteq DOMAIN made'
  PROVE  CallsOK'
  BY DEF CallsOK, Returns

LEMMA EntersOK ==
  ASSUME CallsOK, NEW c \in Callers, NEW w \in {"number", "wait", "drop"},
         NEW t \in DOMAIN made', t \in Torrents, Enters(c, w, t), UNCHANGED nextH,
         DOMAIN made \subseteq DOMAIN made'
  PROVE  CallsOK'
  BY DEF CallsOK, Enters, Rets

\* Where calls leave the streams alone, and the client has lost nothing.
LEMMA StreamsKept ==
  ASSUME StreamsOK, UNCHANGED streams, DOMAIN made \subseteq DOMAIN made'
  PROVE  StreamsOK'
  BY DEF StreamsOK, streams

\* The URLs of a handle name audio files of its torrent.
LEMMA ServedAudio ==
  ASSUME ClientOK, NEW h, NEW i, NEW u \in Served(h, i)
  PROVE  u \in Urls /\ u[2] \in audio[u[1]]
<1>1. PICK j \in Remap(made[handles[h]], i) : u = <<made[handles[h]], j>>
  BY DEF Served
<1>2. h \in DOMAIN handles /\ i \in Files
  BY DEF Served
<1>3. made[handles[h]] \in Hashes
  BY <1>2 DEF ClientOK
<1>4. audio[made[handles[h]]] \subseteq Files
  BY <1>3, NativeAssumption DEF ClientOK
<1>5. j \in audio[made[handles[h]]]
  BY <1>1 DEF Remap
<1> QED BY <1>1, <1>3, <1>4, <1>5 DEF Urls

LEMMA CallTypes ==
  ASSUME TypesInv, NEW c \in Callers, Call(c)
  PROVE  TypesInv' /\ UNCHANGED streams /\ \A t \in DOMAIN made : made'[t] = made[t]
<1> USE DEF TypesInv
<1>0. None \in Rets /\ Failed \in Rets /\ Done \in Rets
  BY DEF Rets
<1>1. ASSUME NEW x \in Hashes, AddMagnet(c, x)
      PROVE  TypesInv' /\ UNCHANGED streams /\ \A t \in DOMAIN made : made'[t] = made[t]
  <2>1. UNCHANGED <<info, audio, nextH, handles, urls, streams>> /\ Len(made) < MaxHandles
    BY <1>1 DEF AddMagnet, table
  <2>2. CASE \E t \in active : Enters(c, "number", t) /\ UNCHANGED <<made, active>>
    <3>1. PICK t \in active : Enters(c, "number", t)
      BY <2>2
    <3>2. t \in DOMAIN made' /\ t \in Torrents /\ DOMAIN made \subseteq DOMAIN made'
      BY <2>2, MadeNumbers DEF ClientOK
    <3>3. CallsOK'
      BY <2>1, <3>1, <3>2, EntersOK
    <3>4. ClientOK'
      BY <2>1, <2>2 DEF ClientOK
    <3> QED BY <2>1, <2>2, <3>2, <3>3, <3>4, StreamsKept
  <2>3. CASE /\ made' = Append(made, x)
             /\ active' = active \cup {Len(made) + 1}
             /\ Enters(c, "number", Len(made) + 1)
    <3>1. /\ made' \in Seq(Hashes) /\ Len(made') <= MaxHandles
          /\ DOMAIN made \subseteq DOMAIN made'
          /\ Len(made) + 1 \in DOMAIN made' /\ Len(made) + 1 \in Torrents
          /\ \A t \in DOMAIN made : made'[t] = made[t]
      BY <2>1, <2>3, OneMore
    <3>2. CallsOK'
      BY <2>1, <2>3, <3>1, EntersOK
    <3>3. ClientOK'
      BY <2>1, <2>3, <3>1 DEF ClientOK
    <3> QED BY <2>1, <3>1, <3>2, <3>3, StreamsKept
  <2> QED BY <1>1, <2>2, <2>3 DEF AddMagnet
<1>2. ASSUME UNCHANGED <<made, info, audio, streams>>, CallsOK',
             active' \subseteq active, nextH' \in nextH .. MaxHandles, urls' \subseteq Urls,
             DOMAIN handles' \subseteq 1 .. nextH', \A h \in DOMAIN handles' : handles'[h] \in DOMAIN made
      PROVE  TypesInv' /\ UNCHANGED streams /\ \A t \in DOMAIN made : made'[t] = made[t]
  <2>1. nextH' \in 0 .. MaxHandles
    BY <1>2 DEF ClientOK
  <2>2. ClientOK'
    BY <1>2, <2>1 DEF ClientOK
  <2> QED BY <1>2, <2>2, StreamsKept
<1>3. nextH \in nextH .. MaxHandles
  BY DEF ClientOK
<1>4. ASSUME \/ AddFails(c) \/ WaitEnds(c) \/ WaitTimesOut(c) \/ DropTorrent(c)
             \/ \E h \in Handles, i \in Files \cup {NFiles} : StreamUrl(c, h, i)
             \/ \E h \in Handles : Wait(c, h)
      PROVE  TypesInv' /\ UNCHANGED streams /\ \A t \in DOMAIN made : made'[t] = made[t]
  <2>1. UNCHANGED <<made, info, audio, nextH, handles, streams>>
        /\ active' \subseteq active /\ DOMAIN made \subseteq DOMAIN made'
    BY <1>4 DEF AddFails, WaitEnds, WaitTimesOut, DropTorrent, StreamUrl, Wait, client, table
  <2>2. urls' \subseteq Urls /\ CallsOK'
    <3>1. CASE AddFails(c) \/ WaitEnds(c) \/ WaitTimesOut(c) \/ DropTorrent(c)
      <4>1. UNCHANGED urls /\ (Returns(c, Failed) \/ Returns(c, Done))
        BY <3>1 DEF AddFails, WaitEnds, WaitTimesOut, DropTorrent
      <4> QED BY <1>0, <2>1, <4>1, ReturnsOK DEF ClientOK
    <3>2. ASSUME NEW h \in Handles, Wait(c, h) PROVE urls' \subseteq Urls /\ CallsOK'
      <4>1. CASE h \in DOMAIN handles
        <5>1. handles[h] \in DOMAIN made' /\ handles[h] \in Torrents
          BY <2>1, <4>1, MadeNumbers DEF ClientOK
        <5> QED BY <2>1, <3>2, <4>1, <5>1, EntersOK DEF Wait, ClientOK
      <4>2. CASE h \notin DOMAIN handles
        BY <1>0, <2>1, <3>2, <4>2, ReturnsOK DEF Wait, ClientOK
      <4> QED BY <4>1, <4>2
    <3>3. ASSUME NEW h \in Handles, NEW i \in Files \cup {NFiles}, StreamUrl(c, h, i)
          PROVE  urls' \subseteq Urls /\ CallsOK'
      <4>1. CASE Served(h, i) = {}
        BY <1>0, <2>1, <3>3, <4>1, ReturnsOK DEF StreamUrl, ClientOK
      <4>2. CASE Served(h, i) # {}
        <5>1. PICK u \in Served(h, i) : Returns(c, Url(u)) /\ urls' = urls \cup {u}
          BY <3>3, <4>2 DEF StreamUrl
        <5>2. u \in Urls /\ Url(u) \in Rets
          BY <5>1, ServedAudio DEF Rets
        <5> QED BY <2>1, <5>1, <5>2, ReturnsOK DEF ClientOK
      <4> QED BY <4>1, <4>2
    <3> QED BY <1>4, <3>1, <3>2, <3>3
  <2> QED BY <1>2, <1>3, <2>1, <2>2 DEF ClientOK
<1>5. CASE TakeNumber(c)
  <2>1. UNCHANGED <<client, handles, urls, streams>> /\ nextH' = nextH + 1 /\ nextH < MaxHandles
    BY <1>5 DEF TakeNumber
  <2>2. nextH' \in Handles /\ nextH' \in nextH .. MaxHandles /\ 1 .. nextH \subseteq 1 .. nextH'
        /\ nextH' \in 1 .. nextH'
    BY <2>1, NativeAssumption DEF ClientOK, Handles
  <2>3. CallsOK'
    BY <1>5, <2>1, <2>2 DEF TakeNumber, CallsOK, client
  <2> QED BY <1>2, <2>1, <2>2, <2>3 DEF ClientOK, client
<1>6. CASE Insert(c)
  <2>1. UNCHANGED <<client, nextH, urls, streams>> /\ Returns(c, Handle(num[c]))
    BY <1>6 DEF Insert
  <2>2. num[c] \in Handles /\ num[c] \in 1 .. nextH /\ obj[c] \in DOMAIN made
    BY <1>6, NativeAssumption DEF Insert, CallsOK, ClientOK, Handles
  <2>3. Handle(num[c]) \in Rets
    BY <2>2 DEF Rets
  <2>4. CallsOK'
    BY <2>1, <2>3, ReturnsOK DEF client
  <2>5. DOMAIN handles' = DOMAIN handles \cup {num[c]}
        /\ \A h \in DOMAIN handles' : handles'[h] \in DOMAIN made
    BY <1>6, <2>2 DEF Insert, ClientOK
  <2> QED BY <1>2, <1>3, <2>1, <2>2, <2>4, <2>5 DEF ClientOK, client
<1>7. ASSUME NEW h \in Handles, Release(c, h)
      PROVE  TypesInv' /\ UNCHANGED streams /\ \A t \in DOMAIN made : made'[t] = made[t]
  <2>1. UNCHANGED <<client, nextH, urls, streams>> /\ Enters(c, "drop", handles[h])
        /\ h \in DOMAIN handles
    BY <1>7 DEF Release
  <2>2. handles[h] \in DOMAIN made' /\ handles[h] \in Torrents /\ DOMAIN made \subseteq DOMAIN made'
    BY <2>1, MadeNumbers DEF ClientOK, client
  <2>3. CallsOK'
    BY <2>1, <2>2, EntersOK
  <2>4. DOMAIN handles' \subseteq DOMAIN handles /\ \A g \in DOMAIN handles' : handles'[g] = handles[g]
    BY <1>7 DEF Release
  <2> QED BY <1>2, <1>3, <2>1, <2>3, <2>4 DEF ClientOK, client
<1> QED BY <1>1, <1>4, <1>5, <1>6, <1>7 DEF Call

\* A file that is audio is streamed as it was asked for.
LEMMA RemapAudio ==
  /\ \A x, i : Remap(x, i) \subseteq audio[x]
  /\ \A x, i : i \in audio[x] => Remap(x, i) = {i}
  BY DEF Remap

\* Request s enters the loop of file j of torrent t.
Joins(s, u, t, j) ==
  /\ made[t] = u[1] /\ j \in Files /\ t \in Torrents
  /\ \A q \in Streams : /\ stage'[q] = IF q = s THEN "loop" ELSE stage[q]
                        /\ src'[q] = IF q = s THEN t ELSE src[q]
                        /\ file'[q] = IF q = s THEN j ELSE file[q]
  /\ src' \in [Streams -> Torrents \cup {0}] /\ file' \in [Streams -> Files]
  /\ \A p \in Torrents :
       last'[p] = IF p = t THEN (IF InLoop(t) = {} THEN s ELSE 0) ELSE last[p]
  /\ last' \in [Torrents -> Streams \cup {0}]

\* What a request does, apart from what it leaves alone: it is refused, or it
\* enters the loop of a torrent of its hash.
LEMMA Requests ==
  ASSUME TypesInv, NEW s \in Streams, NEW u \in Urls, Request(s, u[1], u[2])
  PROVE  /\ stage[s] = "new"
         /\ \A q \in Streams : asked'[q] = IF q = s THEN u ELSE asked[q]
         /\ UNCHANGED <<client, table, calls, upto, prio>>
         /\ \/ /\ \A q \in Streams : stage'[q] = IF q = s THEN "refused" ELSE stage[q]
               /\ UNCHANGED <<src, file, last>>
            \/ \E t \in DOMAIN made, j \in Remap(u[1], u[2]) : Joins(s, u, t, j)
<1> USE DEF TypesInv
<1>1. stage[s] = "new" /\ UNCHANGED <<client, table, calls>>
  BY DEF Request
<1>2. \A q \in Streams : asked'[q] = IF q = s THEN u ELSE asked[q]
  <2>1. u = <<u[1], u[2]>>
    BY DEF Urls
  <2> QED BY <2>1 DEF Request, StreamsOK
<1>3. CASE Refuse(s)
  BY <1>1, <1>2, <1>3 DEF Refuse, StreamsOK
<1>4. ASSUME NEW t \in HandleByInfoHash(u[1]), t \in info, ~Refuse(s),
             /\ stage' = [stage EXCEPT ![s] = "loop"]
             /\ src' = [src EXCEPT ![s] = t]
             /\ \E j \in Remap(u[1], u[2]) : file' = [file EXCEPT ![s] = j]
             /\ last' = [last EXCEPT ![t] = IF InLoop(t) = {} THEN s ELSE 0]
             /\ UNCHANGED <<upto, prio>>
      PROVE  \E p \in DOMAIN made, j \in Remap(u[1], u[2]) : Joins(s, u, p, j)
  <2>1. t \in DOMAIN made /\ t \in Torrents /\ made[t] = u[1]
    BY <1>4, MadeNumbers DEF HandleByInfoHash, ClientOK
  <2>2. PICK j \in Remap(u[1], u[2]) : file' = [file EXCEPT ![s] = j]
    BY <1>4
  <2>3. j \in Files
    <3>1. audio[u[1]] \subseteq Files
      BY NativeAssumption DEF Urls, ClientOK
    <3> QED BY <3>1, RemapAudio
  <2>4. src' \in [Streams -> Torrents \cup {0}] /\ file' \in [Streams -> Files]
        /\ last' \in [Torrents -> Streams \cup {0}]
    BY <1>4, <2>1, <2>2, <2>3 DEF StreamsOK
  <2>5. \A q \in Streams : /\ stage'[q] = IF q = s THEN "loop" ELSE stage[q]
                           /\ src'[q] = IF q = s THEN t ELSE src[q]
                           /\ file'[q] = IF q = s THEN j ELSE file[q]
    BY <1>4, <2>2 DEF StreamsOK
  <2>6. \A r \in Torrents :
          last'[r] = IF r = t THEN (IF InLoop(t) = {} THEN s ELSE 0) ELSE last[r]
    BY <1>4 DEF StreamsOK
  <2> QED BY <2>1, <2>2, <2>3, <2>4, <2>5, <2>6 DEF Joins
<1>5. UNCHANGED <<upto, prio>>
  BY DEF Request, Refuse
<1>6. CASE ~Refuse(s)
  <2>1. PICK t \in HandleByInfoHash(u[1]) :
          /\ t \in info
          /\ stage' = [stage EXCEPT ![s] = "loop"]
          /\ src' = [src EXCEPT ![s] = t]
          /\ \E j \in Remap(u[1], u[2]) : file' = [file EXCEPT ![s] = j]
          /\ last' = [last EXCEPT ![t] = IF InLoop(t) = {} THEN s ELSE 0]
    BY <1>6 DEF Request
  <2> HIDE DEF TypesInv
  <2> QED BY <1>1, <1>2, <1>4, <1>5, <1>6, <2>1
<1> QED BY <1>3, <1>6

\* What a turn of the loop does.
LEMMA Prioritises ==
  ASSUME TypesInv, NEW s \in Streams, Prioritise(s)
  PROVE  /\ stage[s] = "loop" /\ upto[s] \in Files /\ src[s] \in Torrents
         /\ UNCHANGED <<client, table, calls, asked, src, file, last>>
         /\ \A q \in Streams :
              /\ upto'[q] = IF q = s THEN upto[s] + 1 ELSE upto[q]
              /\ stage'[q] = IF q # s THEN stage[q]
                             ELSE IF upto[s] + 1 = NFiles THEN "read" ELSE "loop"
         /\ prio' \in [Torrents -> [Files -> {"none", "now"}]]
         /\ \A t \in Torrents, g \in Files :
              prio'[t][g] = IF t = src[s] /\ g = upto[s]
                            THEN (IF g = file[s] THEN "now" ELSE "none") ELSE prio[t][g]
<1> USE DEF TypesInv
<1>1. stage[s] = "loop" /\ upto[s] \in Files /\ src[s] \in Torrents
  BY MadeNumbers DEF Prioritise, StreamsOK, Files
<1>2. UNCHANGED <<client, table, calls, asked, src, file, last>>
  BY DEF Prioritise
<1>3. \A q \in Streams : upto'[q] = IF q = s THEN upto[s] + 1 ELSE upto[q]
  BY DEF Prioritise, StreamsOK
<1>4. \A q \in Streams : stage'[q] = IF q # s THEN stage[q]
                                     ELSE IF upto[s] + 1 = NFiles THEN "read" ELSE "loop"
  BY <1>3 DEF Prioritise, StreamsOK
<1> DEFINE v == IF upto[s] = file[s] THEN "now" ELSE "none"
<1>5. v \in {"none", "now"} /\ prio' = [prio EXCEPT ![src[s]][upto[s]] = v]
      /\ prio \in [Torrents -> [Files -> {"none", "now"}]]
  BY DEF Prioritise, StreamsOK
<1>6. v = IF upto[s] = file[s] THEN "now" ELSE "none"
  OBVIOUS
<1> HIDE DEF v
<1>7. prio' \in [Torrents -> [Files -> {"none", "now"}]]
  BY <1>1, <1>5
<1>8. \A t \in Torrents, g \in Files :
        prio'[t][g] = IF t = src[s] /\ g = upto[s] THEN v ELSE prio[t][g]
  BY <1>1, <1>5
<1> QED BY <1>1, <1>2, <1>3, <1>4, <1>6, <1>7, <1>8

LEMMA SameClient ==
  ASSUME TypesInv, UNCHANGED <<client, table, calls>>
  PROVE  CallsOK' /\ ClientOK'
  BY DEF TypesInv, CallsOK, ClientOK, client, table, calls

LEMMA RequestTypes ==
  ASSUME TypesInv, NEW s \in Streams, NEW u \in Urls, Request(s, u[1], u[2])
  PROVE  TypesInv'
<1>1. CallsOK' /\ ClientOK'
  BY SameClient DEF Request
<1>2. UNCHANGED <<made, upto, prio>> /\ stage[s] = "new" /\ asked' \in [Streams -> Urls \cup {NoUrl}]
      /\ stage' \in [Streams -> {"new", "loop", "read", "refused"}]
  <2>1. u = <<u[1], u[2]>>
    BY DEF Urls
  <2> QED BY <2>1 DEF Request, Refuse, TypesInv, StreamsOK, client
<1>3. StreamsOK'
  <2>1. CASE /\ \A q \in Streams : stage'[q] = IF q = s THEN "refused" ELSE stage[q]
             /\ UNCHANGED <<src, file, last>>
    BY <1>2, <2>1 DEF TypesInv, StreamsOK
  <2>2. ASSUME NEW t \in DOMAIN made, NEW j, Joins(s, u, t, j) PROVE StreamsOK'
    <3>1. \A q \in Streams : stage'[q] \in {"loop", "read"} => src'[q] \in DOMAIN made'
      BY <1>2, <2>2 DEF Joins, TypesInv, StreamsOK
    <3>2. \A q \in Streams : stage'[q] \in {"new", "loop"} => upto'[q] \in 0 .. NFiles - 1
      BY <1>2, <2>2 DEF Joins, TypesInv, StreamsOK
    <3> QED BY <1>2, <2>2, <3>1, <3>2 DEF Joins, TypesInv, StreamsOK
  <2> QED BY <2>1, <2>2, Requests
<1> QED BY <1>1, <1>3 DEF TypesInv

LEMMA PrioritiseTypes ==
  ASSUME TypesInv, NEW s \in Streams, Prioritise(s)
  PROVE  TypesInv'
<1>1. CallsOK' /\ ClientOK'
  BY SameClient DEF Prioritise
<1>2. /\ UNCHANGED <<made, asked, src, file, last>>
      /\ stage' \in [Streams -> {"new", "loop", "read", "refused"}]
      /\ prio' \in [Torrents -> [Files -> {"none", "now"}]]
  BY Prioritises DEF Prioritise, TypesInv, StreamsOK, client
<1>3. upto[s] + 1 \in 0 .. NFiles /\ (upto[s] + 1 # NFiles => upto[s] + 1 \in 0 .. NFiles - 1)
  BY Prioritises, NativeAssumption DEF Files
<1>4. upto' \in [Streams -> 0 .. NFiles]
  BY <1>3 DEF Prioritise, TypesInv, StreamsOK
<1>5. StreamsOK'
  <2>1. \A q \in Streams : stage'[q] \in {"loop", "read"} => src'[q] \in DOMAIN made'
    BY <1>2, Prioritises DEF TypesInv, StreamsOK
  <2>2. \A q \in Streams : stage'[q] \in {"new", "loop"} => upto'[q] \in 0 .. NFiles - 1
    BY <1>3, Prioritises DEF TypesInv, StreamsOK
  <2> QED BY <1>2, <1>4, <2>1, <2>2 DEF TypesInv, StreamsOK
<1> QED BY <1>1, <1>5 DEF TypesInv

\* A request is for a URL that was handed out.
LEMMA Fetches ==
  ASSUME TypesInv, NEW s \in Streams, Fetch(s)
  PROVE  \E u \in urls : u \in Urls /\ Request(s, u[1], u[2])
  BY DEF Fetch, TypesInv, ClientOK

LEMMA StepTypes == TypesInv /\ [NativeNext]_native => TypesInv'
<1> SUFFICES ASSUME TypesInv, [NativeNext]_native PROVE TypesInv'
  OBVIOUS
<1>1. ASSUME NEW s \in Streams, Fetch(s) PROVE TypesInv'
  BY <1>1, Fetches, RequestTypes
<1>2. CASE InfoArrives
  <2>1. UNCHANGED <<made, active, audio, table, calls, streams>>
    BY <1>2 DEF InfoArrives
  <2>2. info' \subseteq DOMAIN made
    BY <1>2 DEF InfoArrives, TypesInv, ClientOK
  <2> QED BY <2>1, <2>2 DEF TypesInv, CallsOK, ClientOK, StreamsOK, table, calls, streams
<1>3. CASE UNCHANGED native
  BY <1>3 DEF native, TypesInv, CallsOK, ClientOK, StreamsOK, client, table, calls, streams
<1> QED BY <1>1, <1>2, <1>3, CallTypes, PrioritiseTypes DEF NativeNext

\* Every variable stays in its type: every handle, call and request names a
\* torrent the client has made, and every number was counted.
THEOREM NativeTypes == NativeSpec => []NativeType
<1>1. TypesInv => NativeType
  BY DEF TypesInv, CallsOK, ClientOK, StreamsOK, NativeType, Rets
<1> QED BY <1>1, InitTypes, StepTypes, PTL DEF NativeSpec

-----------------------------------------------------------------------------
(* What players are sent to. *)

\* The URLs there are after a call: those there were, and one that names an
\* audio file of a torrent in the table.
LEMMA CallUrls ==
  ASSUME NEW c \in Callers, Call(c)
  PROVE  /\ UNCHANGED audio
         /\ \A u \in urls' : u \in urls \/ \E h, i : u \in Served(h, i)
<1>1. ASSUME NEW h \in Handles, NEW i \in Files \cup {NFiles}, StreamUrl(c, h, i)
      PROVE  \A u \in urls' : u \in urls \/ u \in Served(h, i)
  BY <1>1 DEF StreamUrl
<1>2. UNCHANGED urls \/ \E h \in Handles, i \in Files \cup {NFiles} : StreamUrl(c, h, i)
  BY DEF Call, AddMagnet, AddFails, TakeNumber, Insert, Wait, Release, WaitEnds,
         WaitTimesOut, DropTorrent
<1>3. UNCHANGED audio
  BY DEF Call, AddMagnet, AddFails, TakeNumber, Insert, Wait, Release, StreamUrl, WaitEnds,
         WaitTimesOut, DropTorrent, client
<1> QED BY <1>1, <1>2, <1>3

LEMMA StepUrls == TypesInv /\ UrlsPlay /\ [NativeNext]_native => UrlsPlay'
<1> SUFFICES ASSUME TypesInv, UrlsPlay, [NativeNext]_native PROVE UrlsPlay'
  OBVIOUS
<1> USE DEF UrlsPlay
<1>1. ASSUME NEW c \in Callers, Call(c) PROVE UrlsPlay'
  <2>1. \A u \in urls' : u[2] \in audio'[u[1]]
    BY <1>1, CallUrls, ServedAudio DEF TypesInv
  <2>2. UNCHANGED streams /\ \A t \in DOMAIN made : made'[t] = made[t]
    BY <1>1, CallTypes
  <2> QED BY <2>1, <2>2 DEF streams, TypesInv, StreamsOK
<1>2. ASSUME NEW s \in Streams, Fetch(s) PROVE UrlsPlay'
  <2>1. PICK u \in urls : u \in Urls /\ Request(s, u[1], u[2])
    BY <1>2, Fetches
  <2>2. Remap(u[1], u[2]) = {u[2]} /\ u = <<u[1], u[2]>>
    BY <2>1, RemapAudio DEF Urls
  <2>3. UNCHANGED <<client, table, calls>> /\ \A q \in Streams : asked'[q] = IF q = s THEN u ELSE asked[q]
    BY <2>1, Requests
  <2>4. CASE /\ \A q \in Streams : stage'[q] = IF q = s THEN "refused" ELSE stage[q]
             /\ UNCHANGED <<src, file, last>>
    BY <2>3, <2>4 DEF client, calls
  <2>5. ASSUME NEW t \in DOMAIN made, NEW j \in Remap(u[1], u[2]), Joins(s, u, t, j)
        PROVE  UrlsPlay'
    BY <2>2, <2>3, <2>5 DEF Joins, client, calls
  <2> QED BY <2>1, <2>4, <2>5, Requests
<1>3. ASSUME NEW s \in Streams, Prioritise(s) PROVE UrlsPlay'
  <2>1. UNCHANGED <<made, audio, urls, asked, src, file>>
    BY <1>3 DEF Prioritise, client, calls
  <2>2. \A q \in Streams : stage'[q] \in {"loop", "read"} => stage[q] \in {"loop", "read"}
    BY <1>3, Prioritises
  <2> QED BY <2>1, <2>2
<1>4. CASE InfoArrives \/ UNCHANGED native
  BY <1>4 DEF InfoArrives, native, client, calls, streams
<1> QED BY <1>1, <1>2, <1>3, <1>4 DEF NativeNext

\* A player streams the very file its URL names, and it is audio: the remap of
\* the request (streamer.go) changes nothing that the remap of lt_stream_url
\* made, whatever files the torrent has and however handles come and go.
THEOREM UrlsNamePlayable == NativeSpec => []UrlsPlay
<1>1. NativeInit => UrlsPlay
  BY DEF NativeInit, UrlsPlay
<1> QED BY <1>1, InitTypes, StepTypes, StepUrls, PTL DEF NativeSpec

-----------------------------------------------------------------------------
(* Whose file has the bandwidth. *)

\* A request that has not started has prioritised nothing; one whose loop was
\* the last on its torrent, and ran alone, is alone there still, and the files
\* it has come by are as it wants them.
AloneInv ==
  \A s \in Streams :
    /\ stage[s] = "new" => upto[s] = 0
    /\ stage[s] \in {"loop", "read"} /\ last[src[s]] = s =>
         /\ \A q \in Streams : stage[q] = "loop" /\ src[q] = src[s] => q = s
         /\ \A g \in Files : stage[s] = "read" \/ g < upto[s] =>
              prio[src[s]][g] = IF g = file[s] THEN "now" ELSE "none"

LEMMA RequestAlone ==
  ASSUME TypesInv, AloneInv, NEW s \in Streams, NEW u \in Urls, Request(s, u[1], u[2])
  PROVE  AloneInv'
<1>1. UNCHANGED <<upto, prio>> /\ stage[s] = "new" /\ upto[s] = 0
  BY Requests DEF AloneInv
<1>2. CASE /\ \A q \in Streams : stage'[q] = IF q = s THEN "refused" ELSE stage[q]
           /\ UNCHANGED <<src, file, last>>
  BY <1>1, <1>2 DEF AloneInv
<1>3. ASSUME NEW t \in Torrents, NEW j \in Files, Joins(s, u, t, j)
      PROVE  AloneInv'
  <2>0. /\ \A q \in Streams : /\ stage'[q] = IF q = s THEN "loop" ELSE stage[q]
                              /\ src'[q] = IF q = s THEN t ELSE src[q]
                              /\ file'[q] = IF q = s THEN j ELSE file[q]
        /\ \A p \in Torrents :
             last'[p] = IF p = t THEN (IF InLoop(t) = {} THEN s ELSE 0) ELSE last[p]
    BY <1>3 DEF Joins
  <2> SUFFICES ASSUME NEW q \in Streams
               PROVE  /\ stage'[q] = "new" => upto'[q] = 0
                      /\ stage'[q] \in {"loop", "read"} /\ last'[src'[q]] = q =>
                           /\ \A r \in Streams : stage'[r] = "loop" /\ src'[r] = src'[q] => r = q
                           /\ \A g \in Files : stage'[q] = "read" \/ g < upto'[q] =>
                                prio'[src'[q]][g] = IF g = file'[q] THEN "now" ELSE "none"
    BY DEF AloneInv
  <2>1. stage'[q] = "new" => upto'[q] = 0
    BY <1>1, <2>0 DEF AloneInv
  <2>2. ASSUME stage'[q] \in {"loop", "read"}, last'[src'[q]] = q, q = s
        PROVE  /\ \A r \in Streams : stage'[r] = "loop" /\ src'[r] = src'[q] => r = q
               /\ \A g \in Files : ~(stage'[q] = "read" \/ g < upto'[q])
    <3>1. InLoop(t) = {}
      BY <2>0, <2>2, NativeAssumption
    <3>2. \A g \in Files : ~(g < 0)
      BY NativeAssumption DEF Files
    <3>3. \A r \in Streams : stage'[r] = "loop" /\ src'[r] = src'[q] => r = q
      BY <2>0, <2>2, <3>1 DEF InLoop
    <3> QED BY <1>1, <2>0, <2>2, <3>2, <3>3
  <2>3. ASSUME stage'[q] \in {"loop", "read"}, last'[src'[q]] = q, q # s
        PROVE  /\ \A r \in Streams : stage'[r] = "loop" /\ src'[r] = src'[q] => r = q
               /\ \A g \in Files : stage'[q] = "read" \/ g < upto'[q] =>
                    prio'[src'[q]][g] = IF g = file'[q] THEN "now" ELSE "none"
    <3>1. stage'[q] = stage[q] /\ src'[q] = src[q] /\ file'[q] = file[q] /\ src[q] \in Torrents
      BY <2>0, <2>3, MadeNumbers DEF TypesInv, StreamsOK
    <3>2. src[q] # t /\ last[src[q]] = q
      BY <2>0, <2>3, <3>1, NativeAssumption
    <3>3. \A r \in Streams : stage'[r] = "loop" /\ src'[r] = src'[q] => r = q
      BY <2>0, <2>3, <3>1, <3>2 DEF AloneInv
    <3> QED BY <1>1, <2>3, <3>1, <3>2, <3>3 DEF AloneInv
  <2> QED BY <2>1, <2>2, <2>3
<1>4. ASSUME NEW t \in DOMAIN made, NEW j, Joins(s, u, t, j) PROVE AloneInv'
  BY <1>3, <1>4 DEF Joins
<1> QED BY <1>2, <1>4, Requests

LEMMA PrioritiseAlone ==
  ASSUME TypesInv, AloneInv, NEW s \in Streams, Prioritise(s)
  PROVE  AloneInv'
<1>1. UNCHANGED <<src, file, last>> /\ stage[s] = "loop" /\ upto[s] \in Files /\ src[s] \in Torrents
  BY Prioritises
<1>2. \A q \in Streams : /\ upto'[q] = IF q = s THEN upto[s] + 1 ELSE upto[q]
                         /\ q # s => stage'[q] = stage[q]
                         /\ stage'[q] = "loop" => stage[q] = "loop"
                         /\ stage'[q] = "new" => stage[q] = "new" /\ q # s
  BY Prioritises
<1>3. \A t \in Torrents, g \in Files :
        prio'[t][g] = IF t = src[s] /\ g = upto[s]
                      THEN (IF g = file[s] THEN "now" ELSE "none") ELSE prio[t][g]
  BY Prioritises
<1>4. stage'[s] = IF upto[s] + 1 = NFiles THEN "read" ELSE "loop"
  BY Prioritises
<1>5. \A g \in Files : stage'[s] = "read" \/ g < upto[s] + 1 => g < upto[s] \/ g = upto[s]
  BY <1>1, <1>4, NativeAssumption DEF Files
<1> SUFFICES ASSUME NEW q \in Streams
             PROVE  /\ stage'[q] = "new" => upto'[q] = 0
                    /\ stage'[q] \in {"loop", "read"} /\ last[src[q]] = q =>
                         /\ \A r \in Streams : stage'[r] = "loop" /\ src[r] = src[q] => r = q
                         /\ \A g \in Files : stage'[q] = "read" \/ g < upto'[q] =>
                              prio'[src[q]][g] = IF g = file[q] THEN "now" ELSE "none"
  BY <1>1 DEF AloneInv
<1>6. stage'[q] = "new" => upto'[q] = 0
  BY <1>2 DEF AloneInv
<1>7. ASSUME stage'[q] \in {"loop", "read"}, last[src[q]] = q
      PROVE  stage[q] \in {"loop", "read"}
             /\ \A r \in Streams : stage[r] = "loop" /\ src[r] = src[q] => r = q
  BY <1>1, <1>2, <1>7 DEF AloneInv
<1>8. ASSUME stage'[q] \in {"loop", "read"}, last[src[q]] = q,
             NEW g \in Files, stage'[q] = "read" \/ g < upto'[q]
      PROVE  prio'[src[q]][g] = IF g = file[q] THEN "now" ELSE "none"
  <2>1. CASE q = s
    <3>1. g < upto[s] \/ g = upto[s]
      BY <1>2, <1>5, <1>8, <2>1
    <3>2. g < upto[s] => prio[src[s]][g] = IF g = file[s] THEN "now" ELSE "none"
      BY <1>1, <1>8, <2>1 DEF AloneInv
    <3> QED BY <1>1, <1>3, <2>1, <3>1, <3>2
  <2>2. CASE q # s
    <3>1. src[q] # src[s]
      BY <1>1, <1>7, <1>8, <2>2
    <3>2. src[q] \in Torrents
      BY <1>7, <1>8, MadeNumbers DEF TypesInv, StreamsOK
    <3>3. prio[src[q]][g] = IF g = file[q] THEN "now" ELSE "none"
      BY <1>2, <1>7, <1>8, <2>2 DEF AloneInv
    <3> QED BY <1>3, <3>1, <3>2, <3>3
  <2> QED BY <2>1, <2>2
<1> QED BY <1>2, <1>6, <1>7, <1>8

LEMMA StepAlone == TypesInv /\ AloneInv /\ [NativeNext]_native => AloneInv'
<1> SUFFICES ASSUME TypesInv, AloneInv, [NativeNext]_native PROVE AloneInv'
  OBVIOUS
<1>1. CASE UNCHANGED streams
  BY <1>1 DEF AloneInv, streams
<1>2. ASSUME NEW c \in Callers, Call(c) PROVE AloneInv'
  BY <1>1, <1>2, CallTypes
<1>3. CASE InfoArrives \/ UNCHANGED native
  BY <1>1, <1>3 DEF InfoArrives, native
<1>4. ASSUME NEW s \in Streams, Fetch(s) PROVE AloneInv'
  BY <1>4, Fetches, RequestAlone
<1> QED BY <1>2, <1>3, <1>4, PrioritiseAlone DEF NativeNext

\* Of requests for one torrent that do not overlap, the last has the bandwidth to
\* itself: the loop of streamer.go gives its file priority and takes it from
\* every other one, for any number of files, requests and torrents.
THEOREM LastRequestWins == NativeSpec => []LastAloneWins
<1>1. NativeInit => AloneInv
  BY DEF NativeInit, AloneInv
<1>2. TypesInv /\ AloneInv => LastAloneWins
  <2> SUFFICES ASSUME TypesInv, AloneInv, NEW s \in Streams, stage[s] = "read", last[src[s]] = s
               PROVE  Focused(src[s], file[s])
    BY DEF LastAloneWins
  <2>1. src[s] \in Torrents
    BY MadeNumbers DEF TypesInv, StreamsOK
  <2>2. prio[src[s]] \in [Files -> {"none", "now"}]
    BY <2>1 DEF TypesInv, StreamsOK
  <2>3. \A g \in Files : prio[src[s]][g] = IF g = file[s] THEN "now" ELSE "none"
    BY DEF AloneInv
  <2> QED BY <2>2, <2>3 DEF Focused
<1> QED BY <1>1, <1>2, InitTypes, StepTypes, StepAlone, PTL DEF NativeSpec

=============================================================================
