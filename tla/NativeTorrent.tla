---------------------------- MODULE NativeTorrent ----------------------------
(***************************************************************************)
(* The native torrent library: handles of torrents, called from any thread *)
(* (manager.go, api.go), and the loopback HTTP server that streams their   *)
(* files, one goroutine for each request (streamer.go).  Torrents are      *)
(* numbered in the order the client makes them: a magnet added again after *)
(* a drop is a new torrent.  One session; lt_destroy is left out.          *)
(***************************************************************************)
EXTENDS Integers, Sequences, FiniteSets, Functions

CONSTANTS
  Callers,     \* threads inside an exported function
  Streams,     \* bound: HTTP requests, each made once
  Hashes,
  NFiles,      \* files of a torrent
  MaxHandles,  \* bound: calls of lt_add_magnet
  Audio        \* the audio files each torrent may have

Files    == 0 .. NFiles - 1
Torrents == 1 .. MaxHandles
Handles  == 1 .. MaxHandles

ASSUME NativeAssumption ==
  /\ NFiles \in Nat \ {0}
  /\ MaxHandles \in Nat
  /\ Audio \subseteq [Hashes -> SUBSET Files]
  /\ 0 \notin Streams  \* 0 stands for no request

VARIABLES
  made,    \* the info-hash of every torrent the client has made
  active,  \* the torrents that were not dropped
  info,    \* the torrents whose metadata has arrived
  audio,   \* the audio files of the torrent of a hash
  nextH, handles,
  op,      \* per caller: where it is inside a call
  obj,     \* per caller: the torrent it works on
  num,     \* per caller: the handle its lt_add_magnet has taken
  ret,     \* per caller: what its last call returned
  urls,    \* the URLs that were handed out
  stage,   \* per request: "new", "loop", "read", "refused"
  asked,   \* per request: its path, <<hash, file>>
  src, file, upto, \* per request: torrent, file, files prioritised so far
  prio,    \* SetPriority of the files of each torrent
  last     \* history: the request whose loop was the last on a torrent and
           \* ran alone; 0 when the last loops overlapped

client  == <<made, active, info, audio>>
table   == <<nextH, handles>>
calls   == <<op, obj, num, ret, urls>>
streams == <<stage, asked, src, file, upto, prio, last>>
native  == <<client, table, calls, streams>>

Urls    == Hashes \X Files
NoUrl   == <<>>

\* What a call returns; nothing while it runs.
None      == <<>>
Failed    == <<"failed">>
Done      == <<"done">>
Handle(h) == <<"handle", h>>
Url(u)    == <<"url", u>>

NativeType ==
  /\ made \in Seq(Hashes) /\ Len(made) <= MaxHandles
  /\ active \subseteq DOMAIN made
  /\ info \subseteq DOMAIN made
  /\ audio \in Audio
  /\ nextH \in 0 .. MaxHandles
  /\ DOMAIN handles \subseteq 1 .. nextH
  /\ \A h \in DOMAIN handles : handles[h] \in DOMAIN made
  /\ op \in [Callers -> {"idle", "number", "insert", "wait", "drop"}]
  /\ obj \in [Callers -> Torrents \cup {0}]
  /\ num \in [Callers -> Handles \cup {0}]
  /\ ret \in [Callers -> {None, Failed, Done} \cup {Handle(h) : h \in Handles}
                          \cup {Url(u) : u \in Urls}]
  /\ urls \subseteq Urls
  /\ stage \in [Streams -> {"new", "loop", "read", "refused"}]
  /\ asked \in [Streams -> Urls \cup {NoUrl}]
  /\ src \in [Streams -> Torrents \cup {0}]
  /\ file \in [Streams -> Files]
  /\ upto \in [Streams -> 0 .. NFiles]
  /\ prio \in [Torrents -> [Files -> {"none", "now"}]]
  /\ last \in [Torrents -> Streams \cup {0}]

NativeInit ==
  /\ made = <<>>
  /\ active = {}
  /\ info = {}
  /\ audio \in Audio
  /\ nextH = 0
  /\ handles = <<>>
  /\ op = [c \in Callers |-> "idle"]
  /\ obj = [c \in Callers |-> 0]
  /\ num = [c \in Callers |-> 0]
  /\ ret = [c \in Callers |-> None]
  /\ urls = {}
  /\ stage = [s \in Streams |-> "new"]
  /\ asked = [s \in Streams |-> NoUrl]
  /\ src = [s \in Streams |-> 0]
  /\ file = [s \in Streams |-> 0]
  /\ upto = [s \in Streams |-> 0]
  /\ prio = [t \in Torrents |-> [f \in Files |-> "none"]]
  /\ last = [t \in Torrents |-> 0]

-----------------------------------------------------------------------------
(* Calls. A failing call returns -1 or NULL and sets the last error. *)

Returns(c, value) ==
  /\ op' = [op EXCEPT ![c] = "idle"]
  /\ obj' = [obj EXCEPT ![c] = 0]
  /\ num' = [num EXCEPT ![c] = 0]
  /\ ret' = [ret EXCEPT ![c] = value]

\* The call goes on, working on torrent t.
Enters(c, where, t) ==
  /\ op' = [op EXCEPT ![c] = where]
  /\ obj' = [obj EXCEPT ![c] = t]
  /\ ret' = [ret EXCEPT ![c] = None]
  /\ UNCHANGED num

\* cli.AddMagnet: the active torrent of that hash, or a new one.
AddMagnet(c, x) ==
  /\ op[c] = "idle"
  /\ Len(made) < MaxHandles
  /\ LET known == {t \in active : made[t] = x} IN
     IF known # {}
       THEN /\ \E t \in known : Enters(c, "number", t)
            /\ UNCHANGED <<made, active>>
       ELSE /\ made' = Append(made, x)
            /\ active' = active \cup {Len(made) + 1}
            /\ Enters(c, "number", Len(made) + 1)
  /\ UNCHANGED <<info, audio, table, urls, streams>>

\* A magnet the client cannot parse.
AddFails(c) ==
  /\ op[c] = "idle"
  /\ Returns(c, Failed)
  /\ UNCHANGED <<client, table, urls, streams>>

\* Mutant of TakeNumber: the size of the table is taken for the counter.
TakeNumberRacy(c) ==
  /\ op[c] = "number"
  /\ nextH' = Cardinality(DOMAIN handles) + 1
  /\ num' = [num EXCEPT ![c] = nextH']
  /\ op' = [op EXCEPT ![c] = "insert"]
  /\ UNCHANGED <<client, handles, obj, ret, urls, streams>>

\* atomic.AddInt64(&m.nextH, 1), outside the lock.
TakeNumber(c) ==
  /\ op[c] = "number"
  /\ nextH < MaxHandles
  /\ nextH' = nextH + 1
  /\ num' = [num EXCEPT ![c] = nextH']
  /\ op' = [op EXCEPT ![c] = "insert"]
  /\ UNCHANGED <<client, handles, obj, ret, urls, streams>>

Insert(c) ==
  /\ op[c] = "insert"
  /\ handles' = [h \in DOMAIN handles \cup {num[c]} |->
                   IF h = num[c] THEN obj[c] ELSE handles[h]]
  /\ Returns(c, Handle(num[c]))
  /\ UNCHANGED <<client, nextH, urls, streams>>

\* lt_wait_metadata looks the handle up and waits on what it found.
Wait(c, h) ==
  /\ op[c] = "idle"
  /\ IF h \in DOMAIN handles
       THEN Enters(c, "wait", handles[h])
       ELSE Returns(c, Failed)
  /\ UNCHANGED <<client, table, urls, streams>>

WaitEnds(c) ==
  /\ op[c] = "wait"
  /\ obj[c] \in info
  /\ Returns(c, Done)
  /\ UNCHANGED <<client, table, urls, streams>>

WaitTimesOut(c) ==
  /\ op[c] = "wait"
  /\ Returns(c, Failed)
  /\ UNCHANGED <<client, table, urls, streams>>

\* The swarm delivers the metadata of a torrent.
InfoArrives ==
  /\ \E t \in active \ info : info' = info \cup {t}
  /\ UNCHANGED <<made, active, audio, table, calls, streams>>

\* The file itself, or the first audio file met going forwards from it and
\* round once: {} when the torrent has none.
Remap(x, i) ==
  IF i \in audio[x] THEN {i}
  ELSE LET met == {off \in 1 .. NFiles : (i + off) % NFiles \in audio[x]}
       IN  {(i + off) % NFiles : off \in {o \in met : \A p \in met : o <= p}}

\* Mutant of Served: the index is taken as it is.
ServedRaw(h, i) ==
  IF h \in DOMAIN handles /\ handles[h] \in info /\ i \in Files
    THEN {<<made[handles[h]], i>>}
    ELSE {}

\* The URL of file i of handle h: none unless the metadata is there.
Served(h, i) ==
  IF h \in DOMAIN handles /\ handles[h] \in info /\ i \in Files
    THEN {<<made[handles[h]], j>> : j \in Remap(made[handles[h]], i)}
    ELSE {}

\* lt_stream_url.
StreamUrl(c, h, i) ==
  /\ op[c] = "idle"
  /\ IF Served(h, i) = {}
       THEN Returns(c, Failed) /\ UNCHANGED urls
       ELSE \E u \in Served(h, i) : Returns(c, Url(u)) /\ urls' = urls \cup {u}
  /\ UNCHANGED <<client, table, streams>>

\* lt_release takes the handle out of the table, then drops the torrent.
Release(c, h) ==
  /\ op[c] = "idle"
  /\ h \in DOMAIN handles
  /\ handles' = [g \in DOMAIN handles \ {h} |-> handles[g]]
  /\ Enters(c, "drop", handles[h])
  /\ UNCHANGED <<client, nextH, urls, streams>>

DropTorrent(c) ==
  /\ op[c] = "drop"
  /\ active' = active \ {obj[c]}
  /\ Returns(c, Done)
  /\ UNCHANGED <<made, info, audio, table, urls, streams>>

-----------------------------------------------------------------------------
(* Streaming: GET /<info hash>/<file>. *)

\* HandleByInfoHash: a Go map has no first entry; any handle of that hash.
HandleByInfoHash(x) == {t \in Range(handles) : made[t] = x}

InLoop(t) == {q \in Streams : stage[q] = "loop" /\ src[q] = t}

Refuse(s) ==
  /\ stage' = [stage EXCEPT ![s] = "refused"]
  /\ UNCHANGED <<src, file, upto, prio, last>>

Request(s, x, i) ==
  /\ stage[s] = "new"
  /\ asked' = [asked EXCEPT ![s] = <<x, i>>]
  /\ \/ HandleByInfoHash(x) = {} /\ Refuse(s)
     \/ \E t \in HandleByInfoHash(x) :
          IF t \in info /\ Remap(x, i) # {}
            THEN /\ stage' = [stage EXCEPT ![s] = "loop"]
                 /\ src' = [src EXCEPT ![s] = t]
                 /\ \E j \in Remap(x, i) : file' = [file EXCEPT ![s] = j]
                 /\ last' = [last EXCEPT ![t] = IF InLoop(t) = {} THEN s ELSE 0]
                 /\ UNCHANGED <<upto, prio>>
            ELSE Refuse(s)
  /\ UNCHANGED <<client, table, calls>>

\* Mutant of Prioritise: the other files keep their priority.
PrioritiseOwn(s) ==
  /\ stage[s] = "loop"
  /\ prio' = IF upto[s] = file[s]
       THEN [prio EXCEPT ![src[s]][upto[s]] = "now"] ELSE prio
  /\ upto' = [upto EXCEPT ![s] = @ + 1]
  /\ stage' = [stage EXCEPT ![s] = IF upto'[s] = NFiles THEN "read" ELSE "loop"]
  /\ UNCHANGED <<client, table, calls, asked, src, file, last>>

\* One turn of the loop over the files; the reader follows it.
Prioritise(s) ==
  /\ stage[s] = "loop"
  /\ prio' = [prio EXCEPT ![src[s]][upto[s]] = IF upto[s] = file[s] THEN "now" ELSE "none"]
  /\ upto' = [upto EXCEPT ![s] = @ + 1]
  /\ stage' = [stage EXCEPT ![s] = IF upto'[s] = NFiles THEN "read" ELSE "loop"]
  /\ UNCHANGED <<client, table, calls, asked, src, file, last>>

-----------------------------------------------------------------------------
\* Any caller makes any call; media players ask for URLs they were given.
Call(c) ==
  \/ \E x \in Hashes : AddMagnet(c, x)
  \/ AddFails(c) \/ TakeNumber(c) \/ Insert(c)
  \/ \E h \in Handles : Wait(c, h) \/ Release(c, h)
  \/ \E h \in Handles, i \in Files \cup {NFiles} : StreamUrl(c, h, i)
  \/ WaitEnds(c) \/ WaitTimesOut(c) \/ DropTorrent(c)

Fetch(s) == \E u \in urls : Request(s, u[1], u[2])

NativeNext ==
  \/ \E c \in Callers : Call(c)
  \/ InfoArrives
  \/ \E s \in Streams : Fetch(s) \/ Prioritise(s)

NativeSpec == NativeInit /\ [][NativeNext]_native

-----------------------------------------------------------------------------
\* A handle means the same torrent as long as it is in the table: no later
\* call is given a number that is taken (AddMagnet's counter and map are
\* updated in two steps, by callers that do not wait for each other).
HandlesKept ==
  [][\A h \in DOMAIN handles \cap DOMAIN handles' : handles'[h] = handles[h]]_native

\* What a player is sent to is what it gets, and it is audio: every URL names
\* an audio file of its torrent, and a request for it streams that very file
\* of a torrent of that hash (URLFor and handle each remap; the second time
\* nothing may change).
UrlsPlay ==
  /\ \A u \in urls : u[2] \in audio[u[1]]
  /\ \A s \in Streams :
       stage[s] \in {"loop", "read"} => asked[s] = <<made[src[s]], file[s]>>

Focused(t, f) == prio[t] = [g \in Files |-> IF g = f THEN "now" ELSE "none"]

\* Requests that do not overlap: when the last loop over a torrent's files ran
\* alone, its file, and no other, has the torrent's bandwidth.
LastAloneWins ==
  \A s \in Streams :
    stage[s] = "read" /\ last[src[s]] = s => Focused(src[s], file[s])

=============================================================================
