----------------------------- MODULE Downloads -----------------------------
(***************************************************************************)
(* DownloadService and the button that drives it.  An attempt is one tap:  *)
(* the async function of the button, which resolves a stream URI and calls *)
(* DownloadService.download, cut at its awaits.  What is written by dio    *)
(* (the HTTP client) is kept per file as the last attempt to truncate it   *)
(* and how far the bytes of that attempt are there.                        *)
(***************************************************************************)
EXTENDS Integers

CONSTANTS
  Tracks,
  Files,       \* the destinations
  FileOf,      \* _safeFileName: "artist - title" with an extension
  NumAttempts, \* bound: taps
  TappedFor,   \* bound: the track of each tap
  MaxCrashes,  \* bound: times the app is killed and started again
  Faults       \* the awaits that may throw: "resolve", "transfer"

ASSUME DownloadsAssumption ==
  /\ NumAttempts \in Nat
  /\ TappedFor \in [1 .. NumAttempts -> Tracks]
  /\ MaxCrashes \in Nat
  /\ FileOf \in [Tracks -> Files]
  /\ Faults \subseteq {"resolve", "transfer"}

Attempts == 1 .. NumAttempts
None == 0

\* From registration in _inflight to the end of the try statement, in order.
Transfer   == {"requesting", "writing"}
Registered == {"requesting", "writing", "written", "measured", "failing"}
Underway   == {"resolving", "locating", "found", "clear"} \cup Registered
Ended      == {"saved", "failed", "refused", "killed"}

VARIABLES
  pc,           \* per attempt: its stage
  inflight,     \* _inflight: per track the attempt whose CancelToken it holds
  cancelled,    \* the attempts whose token was cancelled during the transfer
  file,         \* per file: its state and the attempt that truncated it last
  holds,        \* the attempts whose open handle is on the file at its path
  button,       \* per track: what the last progress event makes the button show
  disposed,     \* the progress stream is closed
  crashes

app   == <<inflight, cancelled, button, disposed>>
disk  == <<file, holds>>
vars  == <<pc, app, disk, crashes>>

Dest(a) == FileOf[TappedFor[a]]

Absent == [state |-> "absent", by |-> None]

TypeOK ==
  /\ pc \in [Attempts -> {"untapped"} \cup Underway \cup Ended]
  /\ inflight \in [Tracks -> Attempts \cup {None}]
  /\ cancelled \subseteq {a \in Attempts : pc[a] \in Transfer}
  /\ file \in [Files -> [state : {"absent", "partial", "whole", "mixed"},
                         by : Attempts \cup {None}]]
  /\ holds \subseteq {a \in Attempts : pc[a] = "writing"}
  /\ button \in [Tracks -> {"download", "progress", "saved"}]
  /\ disposed \in BOOLEAN
  /\ crashes \in 0 .. MaxCrashes

Init ==
  /\ pc = [a \in Attempts |-> "untapped"]
  /\ inflight = [t \in Tracks |-> None]
  /\ cancelled = {}
  /\ file = [f \in Files |-> Absent]
  /\ holds = {}
  /\ button = [t \in Tracks |-> "download"]
  /\ disposed = FALSE
  /\ crashes = 0

-----------------------------------------------------------------------------
Goes(a, stage) == pc' = [pc EXCEPT ![a] = stage]

\* _emit: an event reaches the button unless the stream is closed.
Emit(a, shows) ==
  button' = IF disposed THEN button ELSE [button EXCEPT ![TappedFor[a]] = shows]

\* The button can be tapped until the first progress event arrives.
Tap(a) ==
  /\ ~disposed
  /\ pc[a] = "untapped"
  /\ \A b \in Attempts : b < a => pc[b] # "untapped"
  /\ button[TappedFor[a]] = "download"
  /\ Goes(a, "resolving")
  /\ UNCHANGED <<app, disk, crashes>>

ResolveThrows(a) ==
  /\ "resolve" \in Faults
  /\ pc[a] = "resolving"
  /\ Goes(a, "failed")
  /\ UNCHANGED <<app, disk, crashes>>

\* Mutant of Resolved: no look at _inflight.
ResolvedUnguarded(a) ==
  /\ pc[a] = "resolving"
  /\ Goes(a, "locating")
  /\ UNCHANGED <<app, disk, crashes>>

\* The URI is there and download is called.
Resolved(a) ==
  /\ pc[a] = "resolving"
  /\ Goes(a, IF inflight[TappedFor[a]] # None THEN "refused" ELSE "locating")
  /\ UNCHANGED <<app, disk, crashes>>

\* Mutant of Located: it overwrites.
LocatedUnseen(a) ==
  /\ pc[a] = "locating"
  /\ Goes(a, "clear")
  /\ UNCHANGED <<app, disk, crashes>>

\* The destination is resolved and its existence looked up.
Located(a) ==
  /\ pc[a] = "locating"
  /\ Goes(a, IF file[Dest(a)] # Absent THEN "found" ELSE "clear")
  /\ UNCHANGED <<app, disk, crashes>>

\* The file was there: report it saved, unless it is gone by now.
ReportFound(a) ==
  /\ pc[a] = "found"
  /\ IF file[Dest(a)] # Absent
       THEN Goes(a, "saved") /\ Emit(a, "saved")
       ELSE Goes(a, "failed") /\ UNCHANGED button
  /\ UNCHANGED <<inflight, cancelled, disposed, disk, crashes>>

Register(a) ==
  /\ pc[a] = "clear"
  /\ inflight' = [inflight EXCEPT ![TappedFor[a]] = a]
  /\ Goes(a, "requesting")
  /\ UNCHANGED <<cancelled, button, disposed, disk, crashes>>

\* dio has the response's headers: it truncates the file and starts writing.
Opens(a) ==
  /\ pc[a] = "requesting"
  /\ file' = [file EXCEPT ![Dest(a)] = [state |-> "partial", by |-> a]]
  /\ holds' = holds \cup {a}
  /\ Goes(a, "writing")
  /\ UNCHANGED <<app, crashes>>

Progress(a) ==
  /\ pc[a] = "writing"
  /\ Emit(a, "progress")
  /\ UNCHANGED <<pc, inflight, cancelled, disposed, disk, crashes>>

\* The other attempts still writing the file of a.
CoWriters(a) == {b \in holds : b # a /\ Dest(b) = Dest(a)}

\* What the file of a is once dio has written the last byte of a.
Completed(a) ==
  LET f == file[Dest(a)] IN
  CASE f.by = a /\ (\A b \in CoWriters(a) : TappedFor[b] = TappedFor[a]) -> "whole"
    [] f.by # a /\ TappedFor[f.by] # TappedFor[a] -> "mixed"
    [] OTHER -> f.state

\* Mutant of Transferred: the handle stays open.
TransferredStill(a) ==
  /\ pc[a] = "writing"
  /\ file' = IF a \in holds THEN [file EXCEPT ![Dest(a)].state = Completed(a)] ELSE file
  /\ Goes(a, "written")
  /\ cancelled' = cancelled \ {a}
  /\ UNCHANGED <<inflight, button, disposed, holds, crashes>>

\* dio is done.  The bytes of an attempt whose file was deleted go nowhere.
Transferred(a) ==
  /\ pc[a] = "writing"
  /\ file' = IF a \in holds THEN [file EXCEPT ![Dest(a)].state = Completed(a)] ELSE file
  /\ holds' = holds \ {a}
  /\ Goes(a, "written")
  /\ cancelled' = cancelled \ {a}
  /\ UNCHANGED <<inflight, button, disposed, crashes>>

TransferThrows(a) ==
  /\ "transfer" \in Faults \/ a \in cancelled
  /\ pc[a] \in Transfer
  /\ holds' = holds \ {a}
  /\ Goes(a, "failing")
  /\ cancelled' = cancelled \ {a}
  /\ UNCHANGED <<inflight, button, disposed, file, crashes>>

\* File(dest).length() throws when somebody deleted the file.
Measured(a) ==
  /\ pc[a] = "written"
  /\ Goes(a, IF file[Dest(a)] # Absent THEN "measured" ELSE "failing")
  /\ UNCHANGED <<app, disk, crashes>>

\* Mutant of Unregister: the finally clause is missing.
UnregisterNever(a) == UNCHANGED inflight

\* The finally clause removes the entry of the track, whoever put it there.
Unregister(a) == inflight' = [inflight EXCEPT ![TappedFor[a]] = None]

ReportSaved(a) ==
  /\ pc[a] = "measured"
  /\ Emit(a, "saved")
  /\ Unregister(a)
  /\ Goes(a, "saved")
  /\ UNCHANGED <<cancelled, disposed, disk, crashes>>

\* Mutants of ReportFailed: it emits nothing; the partial file stays.
ReportFailedSilent(a) ==
  /\ pc[a] = "failing"
  /\ file' = [file EXCEPT ![Dest(a)] = Absent]
  /\ holds' = {b \in holds : Dest(b) # Dest(a)}
  /\ Unregister(a)
  /\ Goes(a, "failed")
  /\ UNCHANGED <<cancelled, button, disposed, crashes>>

ReportFailedUncleaned(a) ==
  /\ pc[a] = "failing"
  /\ Emit(a, "download")
  /\ Unregister(a)
  /\ Goes(a, "failed")
  /\ UNCHANGED <<cancelled, disposed, disk, crashes>>

\* The catch clause deletes whatever is at the destination; handles on it
\* keep a file without a name.  A failure makes the button tappable again.
ReportFailed(a) ==
  /\ pc[a] = "failing"
  /\ file' = [file EXCEPT ![Dest(a)] = Absent]
  /\ holds' = {b \in holds : Dest(b) # Dest(a)}
  /\ Emit(a, "download")
  /\ Unregister(a)
  /\ Goes(a, "failed")
  /\ UNCHANGED <<cancelled, disposed, crashes>>

-----------------------------------------------------------------------------
\* A token whose transfer is over is inert.
Cancel(t) ==
  /\ inflight[t] # None
  /\ pc[inflight[t]] \in Transfer
  /\ cancelled' = cancelled \cup {inflight[t]}
  /\ UNCHANGED <<pc, inflight, button, disposed, disk, crashes>>

Dispose ==
  /\ ~disposed
  /\ disposed' = TRUE
  /\ cancelled' = cancelled \cup {a \in Attempts : /\ inflight[TappedFor[a]] = a
                                                  /\ pc[a] \in Transfer}
  /\ UNCHANGED <<pc, inflight, button, disk, crashes>>

\* The app is killed and started again: only the files are left.
Crash ==
  /\ crashes < MaxCrashes
  /\ crashes' = crashes + 1
  /\ pc' = [a \in Attempts |-> IF pc[a] \in Underway THEN "killed" ELSE pc[a]]
  /\ inflight' = [t \in Tracks |-> None]
  /\ cancelled' = {}
  /\ holds' = {}
  /\ button' = [t \in Tracks |-> "download"]
  /\ disposed' = FALSE
  /\ UNCHANGED file

AttemptStep(a) ==
  \/ ResolveThrows(a) \/ Resolved(a) \/ Located(a) \/ ReportFound(a) \/ Register(a)
  \/ Opens(a) \/ Transferred(a) \/ TransferThrows(a)
  \/ Measured(a) \/ ReportSaved(a) \/ ReportFailed(a)

Next ==
  \/ \E a \in Attempts : Tap(a) \/ AttemptStep(a) \/ Progress(a)
  \/ \E t \in Tracks : Cancel(t)
  \/ Dispose
  \/ Crash

\* Every await of an attempt ends: dio has a receive timeout.
Fairness == \A a \in Attempts : WF_vars(AttemptStep(a))

Spec == Init /\ [][Next]_vars
FairSpec == Spec /\ Fairness

-----------------------------------------------------------------------------
(* Properties. *)

\* "Clean up partial file" (line 103): as long as the app is not killed, a
\* file with less than all bytes of its track is one somebody is at work on,
\* whatever taps overlap, fail or are cancelled.
LeftoversCleaned ==
  crashes = 0 =>
    \A f \in Files : file[f].state = "partial" =>
      \E a \in Attempts : Dest(a) = f /\ pc[a] \in Registered

\* An entry of _inflight belongs to an attempt still inside the try of
\* download, for that track: no stale entry refuses later taps (line 53), and
\* cancel (line 121) never cancels the token of an attempt that is over.
RegisteredAtWork ==
  \A t \in Tracks : inflight[t] # None =>
    pc[inflight[t]] \in Registered /\ TappedFor[inflight[t]] = t

\* A whole file that no attempt has cleared for writing.
Settled(f) ==
  /\ file[f].state = "whole"
  /\ \A a \in Attempts : Dest(a) = f => pc[a] \notin Registered \cup {"clear"}

\* "We never overwrite without checking for an existing file first" (lines
\* 11-12): once a file is whole and nobody is past the check, it stays so
\* for ever, across crashes too.
SettledStays == [][\A f \in Files : Settled(f) => Settled(f)']_vars

\* Every download leaves _inflight, so its track can be downloaded again.
TracksFreed == \A t \in Tracks : inflight[t] # None ~> inflight[t] = None

\* The spinner of a track goes away, whatever attempts overlap: the last event
\* of each of them is a final one.
SpinnerEnds ==
  \A t \in Tracks : button[t] = "progress" ~> button[t] # "progress" \/ disposed

-----------------------------------------------------------------------------
(* What comments say and the code does not do. *)

\* "Returns the absolute path of the saved file on success" (line 51): an
\* attempt that returns a path has the whole of its own track there.
SavedIsWhole ==
  [][\A a \in Attempts : pc[a] # "saved" /\ pc'[a] = "saved" =>
       file[Dest(a)].state = "whole" /\ TappedFor[file[Dest(a)].by] = TappedFor[a]]_vars

=============================================================================
