--------------------------- MODULE DownloadsProofs ---------------------------
(***************************************************************************)
(* DownloadService keeps its books and its files, for every number of      *)
(* tracks, files, taps and crashes and every choice of file names.         *)
(***************************************************************************)
EXTENDS Downloads, TLAPS

LEMMA AttemptFacts ==
  /\ None \notin Attempts
  /\ \A a \in Attempts : TappedFor[a] \in Tracks /\ Dest(a) \in Files
  BY DownloadsAssumption DEF Attempts, None, Dest

-----------------------------------------------------------------------------
(* Types. *)

LEMMA InitType == Init => TypeOK
<1> SUFFICES ASSUME Init PROVE TypeOK
  OBVIOUS
<1>1. crashes \in 0 .. MaxCrashes
  BY DownloadsAssumption DEF Init
<1>2. file \in [Files -> [state : {"absent", "partial", "whole", "mixed"},
                        by : Attempts \cup {None}]]
  BY DEF Init, Absent
<1> QED BY <1>1, <1>2 DEF Init, TypeOK

\* An attempt that is not transferring moves on: what it cancelled or holds
\* is none of its own.
LEMMA GoesType ==
  ASSUME TypeOK, NEW a \in Attempts, NEW w \in Underway \cup Ended, Goes(a, w),
         \/ pc[a] \notin Transfer /\ cancelled' = cancelled /\ holds' \subseteq holds
         \/ pc[a] = "requesting" /\ w = "writing" /\ cancelled' = cancelled /\ holds' = holds \cup {a}
         \/ cancelled' = cancelled \ {a} /\ holds' = holds \ {a}
  PROVE  /\ pc' \in [Attempts -> {"untapped"} \cup Underway \cup Ended]
         /\ cancelled' \subseteq {b \in Attempts : pc'[b] \in Transfer}
         /\ holds' \subseteq {b \in Attempts : pc'[b] = "writing"}
<1>1. /\ pc' = [pc EXCEPT ![a] = w]
      /\ pc \in [Attempts -> {"untapped"} \cup Underway \cup Ended]
      /\ cancelled \subseteq {b \in Attempts : pc[b] \in Transfer}
      /\ holds \subseteq {b \in Attempts : pc[b] = "writing"}
  BY DEF Goes, TypeOK
<1>2. pc' \in [Attempts -> {"untapped"} \cup Underway \cup Ended]
  BY <1>1
<1>3. \A b \in Attempts : pc'[b] = IF b = a THEN w ELSE pc[b]
  BY <1>1
<1>4. "writing" \in Transfer
  BY DEF Transfer
<1> QED BY <1>1, <1>2, <1>3, <1>4

LEMMA EmitType ==
  ASSUME TypeOK, NEW a \in Attempts, NEW v \in {"download", "progress", "saved"}, Emit(a, v)
  PROVE  button' \in [Tracks -> {"download", "progress", "saved"}]
  BY DEF TypeOK, Emit

LEMMA CompletedType ==
  ASSUME TypeOK, NEW a \in Attempts
  PROVE  Completed(a) \in {"absent", "partial", "whole", "mixed"}
<1>1. file[Dest(a)].state \in {"absent", "partial", "whole", "mixed"}
  BY AttemptFacts DEF TypeOK
<1> QED BY <1>1 DEF Completed

LEMMA AttemptType ==
  ASSUME TypeOK, NEW a \in Attempts, AttemptStep(a)
  PROVE  TypeOK'
<1> USE DEF Underway, Registered, Ended, Transfer
<1>1. CASE ResolveThrows(a) \/ Resolved(a) \/ Located(a) \/ Measured(a)
  <2>1. PICK w \in Underway \cup Ended : Goes(a, w)
    BY <1>1 DEF ResolveThrows, Resolved, Located, Measured
  <2>2. pc[a] \notin Transfer /\ UNCHANGED <<app, disk, crashes>>
    BY <1>1 DEF ResolveThrows, Resolved, Located, Measured
  <2>3. UNCHANGED <<inflight, cancelled, button, disposed, file, holds, crashes>>
    BY <2>2 DEF app, disk
  <2> QED BY <2>1, <2>2, <2>3, GoesType DEF TypeOK
<1>2. CASE ReportFound(a)
  <2>1. pc[a] \notin Transfer
        /\ UNCHANGED <<inflight, cancelled, disposed, file, holds, crashes>>
    BY <1>2 DEF ReportFound, disk
  <2>2. Goes(a, "saved") \/ Goes(a, "failed")
    BY <1>2 DEF ReportFound
  <2>3. button' \in [Tracks -> {"download", "progress", "saved"}]
    BY <1>2, EmitType DEF ReportFound, TypeOK
  <2> QED BY <2>1, <2>2, <2>3, GoesType DEF TypeOK
<1>3. CASE Register(a)
  <2>1. Goes(a, "requesting") /\ pc[a] \notin Transfer
        /\ UNCHANGED <<cancelled, button, disposed, file, holds, crashes>>
    BY <1>3 DEF Register, disk
  <2>2. inflight' \in [Tracks -> Attempts \cup {None}]
    BY <1>3, AttemptFacts DEF Register, TypeOK
  <2> QED BY <2>1, <2>2, GoesType DEF TypeOK
<1>4. CASE Opens(a)
  <2>1. /\ Goes(a, "writing") /\ pc[a] = "requesting" /\ holds' = holds \cup {a}
        /\ UNCHANGED <<inflight, cancelled, button, disposed, crashes>>
    BY <1>4 DEF Opens, app
  <2>2. file' \in [Files -> [state : {"absent", "partial", "whole", "mixed"},
                             by : Attempts \cup {None}]]
    BY <1>4, AttemptFacts DEF Opens, TypeOK
  <2> QED BY <2>1, <2>2, GoesType DEF TypeOK
<1>5. CASE Transferred(a)
  <2>1. /\ Goes(a, "written") /\ holds' = holds \ {a} /\ cancelled' = cancelled \ {a}
        /\ UNCHANGED <<inflight, button, disposed, crashes>>
    BY <1>5 DEF Transferred
  <2>2. file' \in [Files -> [state : {"absent", "partial", "whole", "mixed"},
                             by : Attempts \cup {None}]]
    BY <1>5, AttemptFacts, CompletedType DEF Transferred, TypeOK
  <2> QED BY <2>1, <2>2, GoesType DEF TypeOK
<1>6. CASE TransferThrows(a)
  <2>1. /\ Goes(a, "failing") /\ holds' = holds \ {a} /\ cancelled' = cancelled \ {a}
        /\ UNCHANGED <<inflight, button, disposed, file, crashes>>
    BY <1>6 DEF TransferThrows
  <2> QED BY <2>1, GoesType DEF TypeOK
<1>7. CASE ReportSaved(a)
  <2>1. /\ Goes(a, "saved") /\ pc[a] \notin Transfer
        /\ UNCHANGED <<cancelled, disposed, file, holds, crashes>>
    BY <1>7 DEF ReportSaved, disk
  <2>2. inflight' \in [Tracks -> Attempts \cup {None}]
        /\ button' \in [Tracks -> {"download", "progress", "saved"}]
    BY <1>7, AttemptFacts, EmitType DEF ReportSaved, Unregister, TypeOK
  <2> QED BY <2>1, <2>2, GoesType DEF TypeOK
<1>8. CASE ReportFailed(a)
  <2>1. /\ Goes(a, "failed") /\ pc[a] \notin Transfer /\ holds' \subseteq holds
        /\ UNCHANGED <<cancelled, disposed, crashes>>
    BY <1>8 DEF ReportFailed
  <2>2. inflight' \in [Tracks -> Attempts \cup {None}]
        /\ button' \in [Tracks -> {"download", "progress", "saved"}]
    BY <1>8, AttemptFacts, EmitType DEF ReportFailed, Unregister, TypeOK
  <2>3. file' \in [Files -> [state : {"absent", "partial", "whole", "mixed"},
                             by : Attempts \cup {None}]]
    BY <1>8, AttemptFacts DEF ReportFailed, TypeOK, Absent
  <2> QED BY <2>1, <2>2, <2>3, GoesType DEF TypeOK
<1> QED BY <1>1, <1>2, <1>3, <1>4, <1>5, <1>6, <1>7, <1>8 DEF AttemptStep

LEMMA StepType == TypeOK /\ [Next]_vars => TypeOK'
<1> SUFFICES ASSUME TypeOK, [Next]_vars PROVE TypeOK'
  OBVIOUS
<1>1. ASSUME NEW a \in Attempts, Tap(a) PROVE TypeOK'
  <2>1. Goes(a, "resolving") /\ pc[a] \notin Transfer
        /\ UNCHANGED <<inflight, cancelled, button, disposed, file, holds, crashes>>
    BY <1>1 DEF Tap, app, disk, Transfer
  <2> QED BY <2>1, GoesType DEF TypeOK, Underway
<1>2. ASSUME NEW a \in Attempts, Progress(a) PROVE TypeOK'
  <2>1. UNCHANGED <<pc, inflight, cancelled, disposed, file, holds, crashes>>
        /\ button' \in [Tracks -> {"download", "progress", "saved"}]
    BY <1>2, EmitType DEF Progress, disk
  <2> QED BY <2>1 DEF TypeOK
<1>3. ASSUME NEW t \in Tracks, Cancel(t) PROVE TypeOK'
  BY <1>3 DEF Cancel, TypeOK, disk
<1>4. CASE Dispose
  BY <1>4 DEF Dispose, TypeOK, disk
<1>5. CASE Crash
  <2>1. crashes' \in 0 .. MaxCrashes
    BY <1>5, DownloadsAssumption DEF Crash, TypeOK
  <2>2. pc' \in [Attempts -> {"untapped"} \cup Underway \cup Ended]
    BY <1>5 DEF Crash, TypeOK, Ended
  <2> QED BY <1>5, <2>1, <2>2, AttemptFacts DEF Crash, TypeOK
<1>6. CASE UNCHANGED vars
  BY <1>6 DEF vars, app, disk, TypeOK
<1> QED BY <1>1, <1>2, <1>3, <1>4, <1>5, <1>6, AttemptType DEF Next

\* Every variable stays in its type: a cancelled token is one of a transfer, and
\* only a transfer that is writing has a handle open.
THEOREM TypeCorrect == Spec => []TypeOK
<1> QED BY InitType, StepType, PTL DEF Spec

-----------------------------------------------------------------------------
(* The entries of _inflight. *)

\* An attempt inside the try of download stays there or removes the entry of
\* its track.
LEMMA AttemptAtWork ==
  ASSUME TypeOK, RegisteredAtWork, NEW a \in Attempts, AttemptStep(a)
  PROVE  RegisteredAtWork'
<1> SUFFICES ASSUME NEW t \in Tracks, inflight'[t] # None
             PROVE  pc'[inflight'[t]] \in Registered /\ TappedFor[inflight'[t]] = t
  BY DEF RegisteredAtWork
<1>1. \A b \in Attempts : b # a => pc'[b] = pc[b]
  BY DEF AttemptStep, ResolveThrows, Resolved, Located, ReportFound, Register, Opens,
         Transferred, TransferThrows, Measured, ReportSaved, ReportFailed, Goes, TypeOK
<1>2. inflight[t] \in Attempts \cup {None}
  BY DEF TypeOK
<1>3. CASE ReportSaved(a) \/ ReportFailed(a)
  <2>1. inflight'[t] = inflight[t] /\ TappedFor[a] # t
    BY <1>3, AttemptFacts DEF ReportSaved, ReportFailed, Unregister, TypeOK
  <2>2. inflight[t] \in Attempts /\ inflight[t] # a
    BY <1>2, <2>1, AttemptFacts DEF RegisteredAtWork
  <2> QED BY <1>1, <2>1, <2>2 DEF RegisteredAtWork
<1>4. CASE Register(a)
  <2>1. inflight' = [inflight EXCEPT ![TappedFor[a]] = a] /\ pc'[a] \in Registered
    BY <1>4 DEF Register, Goes, TypeOK, Registered
  <2>2. CASE TappedFor[a] = t
    BY <2>1, <2>2 DEF TypeOK
  <2>3. CASE TappedFor[a] # t
    <3>1. inflight'[t] = inflight[t]
      BY <2>1, <2>3 DEF TypeOK
    <3> QED BY <1>1, <1>2, <2>1, <3>1 DEF RegisteredAtWork
  <2> QED BY <2>2, <2>3
<1>5. CASE \/ ResolveThrows(a) \/ Resolved(a) \/ Located(a) \/ ReportFound(a)
           \/ Opens(a) \/ Transferred(a) \/ TransferThrows(a) \/ Measured(a)
  <2>1. UNCHANGED inflight /\ (pc[a] \in Registered => pc'[a] \in Registered)
    BY <1>5 DEF ResolveThrows, Resolved, Located, ReportFound, Opens, Transferred,
                TransferThrows, Measured, Goes, TypeOK, app, Registered, Transfer
  <2> QED BY <1>1, <1>2, <2>1 DEF RegisteredAtWork
<1> QED BY <1>3, <1>4, <1>5 DEF AttemptStep

LEMMA StepAtWork == TypeOK /\ RegisteredAtWork /\ [Next]_vars => RegisteredAtWork'
<1> SUFFICES ASSUME TypeOK, RegisteredAtWork, [Next]_vars PROVE RegisteredAtWork'
  OBVIOUS
<1>1. ASSUME NEW a \in Attempts, Tap(a) PROVE RegisteredAtWork'
  <2>1. UNCHANGED inflight /\ \A b \in Attempts : pc[b] \in Registered => pc'[b] = pc[b]
    BY <1>1 DEF Tap, app, Goes, TypeOK, Registered
  <2> QED BY <2>1 DEF RegisteredAtWork, TypeOK
<1>2. CASE Crash
  BY <1>2 DEF Crash, RegisteredAtWork
<1>3. CASE UNCHANGED <<pc, inflight>>
  BY <1>3 DEF RegisteredAtWork
<1>4. CASE Dispose \/ UNCHANGED vars
  BY <1>3, <1>4 DEF Dispose, vars, app
<1>5. ASSUME NEW a \in Attempts, Progress(a) PROVE RegisteredAtWork'
  BY <1>3, <1>5 DEF Progress
<1>6. ASSUME NEW t \in Tracks, Cancel(t) PROVE RegisteredAtWork'
  BY <1>3, <1>6 DEF Cancel
<1> QED BY <1>1, <1>2, <1>4, <1>5, <1>6, AttemptAtWork DEF Next

\* An entry of _inflight is that of an attempt of its track still inside the try
\* of download, however attempts overlap: the guard of line 53 refuses nobody for
\* an attempt that is over, and cancel (line 121) reaches no token that is.
THEOREM EntriesAreLive == Spec => []RegisteredAtWork
<1>1. Init => RegisteredAtWork
  BY DEF Init, RegisteredAtWork
<1> QED BY <1>1, TypeCorrect, StepAtWork, PTL DEF Spec

-----------------------------------------------------------------------------
(* Who cleans up a file. *)

\* A file that is being written was opened.
HoldersNamed == \A a \in holds : file[Dest(a)].by # None

\* The attempt that will complete or delete file f.
Owner(a, f) ==
  /\ Dest(a) = f
  /\ \/ pc[a] = "failing"
     \/ a \in holds /\ (a = file[f].by \/ TappedFor[a] # TappedFor[file[f].by])

\* As long as the app is not killed, a partial file has one: the attempt that
\* truncated it last while it holds it, else one that will mix its own track
\* in, else one that failed and is about to delete the file.
PartialOwned ==
  crashes = 0 =>
    \A f \in Files : file[f].state = "partial" => \E a \in Attempts : Owner(a, f)

FilesInv == HoldersNamed /\ PartialOwned

LEMMA InitFiles == Init => FilesInv
  BY DEF Init, FilesInv, HoldersNamed, PartialOwned, Absent

\* A step that neither writes nor ends a file's owner.
LEMMA SameFiles ==
  ASSUME TypeOK, FilesInv, UNCHANGED <<file, holds, crashes>>,
         \A b \in Attempts : pc[b] = "failing" => pc'[b] = "failing"
  PROVE  FilesInv'
<1>1. HoldersNamed'
  BY DEF FilesInv, HoldersNamed
<1>2. PartialOwned'
  BY DEF FilesInv, PartialOwned, Owner
<1> QED BY <1>1, <1>2 DEF FilesInv

LEMMA OpensFiles ==
  ASSUME TypeOK, FilesInv, NEW a \in Attempts, Opens(a)
  PROVE  FilesInv'
<1>1. /\ \A f \in Files : file'[f] = IF f = Dest(a) THEN [state |-> "partial", by |-> a] ELSE file[f]
      /\ holds' = holds \cup {a} /\ crashes' = crashes
      /\ \A b \in Attempts : pc[b] = "failing" => pc'[b] = "failing"
  BY DEF Opens, TypeOK, Goes
<1>2. HoldersNamed'
  BY <1>1, AttemptFacts DEF FilesInv, HoldersNamed, TypeOK
<1>3. ASSUME crashes = 0, NEW f \in Files, file'[f].state = "partial"
      PROVE  \E b \in Attempts : Owner(b, f)'
  <2>1. CASE f = Dest(a)
    <3>1. a \in holds' /\ file'[f].by = a
      BY <1>1, <2>1
    <3> QED BY <2>1, <3>1 DEF Owner
  <2>2. CASE f # Dest(a)
    <3>1. file'[f] = file[f]
      BY <1>1, <2>2
    <3>2. PICK b \in Attempts : Owner(b, f)
      BY <1>3, <3>1 DEF FilesInv, PartialOwned
    <3> QED BY <1>1, <3>1, <3>2 DEF Owner
  <2> QED BY <2>1, <2>2
<1> QED BY <1>1, <1>2, <1>3 DEF FilesInv, PartialOwned

LEMMA TransferredFiles ==
  ASSUME TypeOK, FilesInv, NEW a \in Attempts, Transferred(a)
  PROVE  FilesInv'
<1>1. /\ \A f \in Files : f # Dest(a) => file'[f] = file[f]
      /\ file'[Dest(a)].by = file[Dest(a)].by
      /\ file'[Dest(a)].state = IF a \in holds THEN Completed(a) ELSE file[Dest(a)].state
  BY AttemptFacts DEF Transferred, TypeOK
<1>2. /\ holds' = holds \ {a} /\ crashes' = crashes
      /\ \A b \in Attempts : pc[b] = "failing" => pc'[b] = "failing"
  BY DEF Transferred, TypeOK, Goes
<1>3. HoldersNamed'
  BY <1>1, <1>2, AttemptFacts DEF FilesInv, HoldersNamed, TypeOK
<1>4. ASSUME crashes = 0, NEW f \in Files, file'[f].state = "partial"
      PROVE  \E b \in Attempts : Owner(b, f)'
  <2>1. CASE f # Dest(a)
    <3>1. PICK b \in Attempts : Owner(b, f)
      BY <1>1, <1>4, <2>1 DEF FilesInv, PartialOwned
    <3> QED BY <1>1, <1>2, <2>1, <3>1 DEF Owner
  <2>2. CASE f = Dest(a) /\ a \notin holds
    <3>1. PICK b \in Attempts : Owner(b, f)
      BY <1>1, <1>4, <2>2 DEF FilesInv, PartialOwned
    <3> QED BY <1>1, <1>2, <2>2, <3>1 DEF Owner
  <2>3. CASE f = Dest(a) /\ a \in holds
    <3>1. Completed(a) = "partial"
      BY <1>1, <1>4, <2>3
    <3>2. CASE file[f].by = a
      <4>1. PICK b \in CoWriters(a) : TappedFor[b] # TappedFor[a]
        BY <2>3, <3>1, <3>2 DEF Completed
      <4>2. b \in Attempts /\ b \in holds' /\ Dest(b) = f
        BY <1>2, <2>3, <4>1 DEF CoWriters, TypeOK
      <4> QED BY <1>1, <2>3, <3>2, <4>1, <4>2 DEF Owner
    <3>3. CASE file[f].by # a
      <4>1. TappedFor[file[f].by] = TappedFor[a] /\ file[f].state = "partial"
        BY <2>3, <3>1, <3>3 DEF Completed
      <4>2. PICK b \in Attempts : Owner(b, f)
        BY <1>4, <4>1 DEF FilesInv, PartialOwned
      <4>3. pc[b] = "failing" \/ b # a
        BY <3>3, <4>1, <4>2 DEF Owner
      <4> QED BY <1>1, <1>2, <2>3, <4>2, <4>3 DEF Owner
    <3> QED BY <3>2, <3>3
  <2> QED BY <2>1, <2>2, <2>3
<1> QED BY <1>2, <1>3, <1>4 DEF FilesInv, PartialOwned

LEMMA ThrowsFiles ==
  ASSUME TypeOK, FilesInv, NEW a \in Attempts, TransferThrows(a)
  PROVE  FilesInv'
<1>1. /\ file' = file /\ holds' = holds \ {a} /\ crashes' = crashes
      /\ pc'[a] = "failing"
      /\ \A b \in Attempts : pc[b] = "failing" => pc'[b] = "failing"
  BY DEF TransferThrows, TypeOK, Goes
<1>2. HoldersNamed'
  BY <1>1 DEF FilesInv, HoldersNamed
<1>3. ASSUME crashes = 0, NEW f \in Files, file[f].state = "partial"
      PROVE  \E b \in Attempts : Owner(b, f)'
  <2>1. PICK b \in Attempts : Owner(b, f)
    BY <1>3 DEF FilesInv, PartialOwned
  <2> QED BY <1>1, <2>1 DEF Owner
<1> QED BY <1>1, <1>2, <1>3 DEF FilesInv, PartialOwned

LEMMA FailedFiles ==
  ASSUME TypeOK, FilesInv, NEW a \in Attempts, ReportFailed(a)
  PROVE  FilesInv'
<1>1. /\ \A f \in Files : file'[f] = IF f = Dest(a) THEN Absent ELSE file[f]
      /\ holds' = {b \in holds : Dest(b) # Dest(a)} /\ crashes' = crashes
      /\ \A b \in Attempts : b # a => pc'[b] = pc[b]
  BY DEF ReportFailed, TypeOK, Goes
<1>2. HoldersNamed'
  BY <1>1, AttemptFacts DEF FilesInv, HoldersNamed, TypeOK
<1>3. ASSUME crashes = 0, NEW f \in Files, file'[f].state = "partial"
      PROVE  \E b \in Attempts : Owner(b, f)'
  <2>1. f # Dest(a) /\ file'[f] = file[f]
    BY <1>1, <1>3 DEF Absent
  <2>2. PICK b \in Attempts : Owner(b, f)
    BY <1>3, <2>1 DEF FilesInv, PartialOwned
  <2> QED BY <1>1, <2>1, <2>2 DEF Owner
<1> QED BY <1>1, <1>2, <1>3 DEF FilesInv, PartialOwned

LEMMA StepFiles == TypeOK /\ FilesInv /\ [Next]_vars => FilesInv'
<1> SUFFICES ASSUME TypeOK, FilesInv, [Next]_vars PROVE FilesInv'
  OBVIOUS
<1>1. ASSUME NEW a \in Attempts,
             \/ Tap(a) \/ ResolveThrows(a) \/ Resolved(a) \/ Located(a) \/ ReportFound(a)
             \/ Register(a) \/ Measured(a) \/ ReportSaved(a) \/ Progress(a)
      PROVE  FilesInv'
  <2>1. /\ UNCHANGED <<file, holds, crashes>>
        /\ \A b \in Attempts : pc[b] = "failing" => pc'[b] = "failing"
    BY <1>1 DEF Tap, ResolveThrows, Resolved, Located, ReportFound, Register, Measured,
                ReportSaved, Progress, Goes, disk, TypeOK
  <2> QED BY <2>1, SameFiles
<1>2. CASE Dispose \/ UNCHANGED vars \/ \E t \in Tracks : Cancel(t)
  <2>1. UNCHANGED <<pc, file, holds, crashes>>
    BY <1>2 DEF Dispose, Cancel, vars, disk
  <2> QED BY <2>1, SameFiles
<1>3. CASE Crash
  <2>1. crashes' # 0 /\ holds' = {}
    BY <1>3, DownloadsAssumption DEF Crash, TypeOK
  <2> QED BY <2>1 DEF FilesInv, HoldersNamed, PartialOwned
<1> QED BY <1>1, <1>2, <1>3, OpensFiles, TransferredFiles, ThrowsFiles, FailedFiles
        DEF Next, AttemptStep

\* Until the app is killed, a file that is not complete is one somebody is still
\* at work on: every way out of download either completes the file or deletes it
\* (the catch clause of lines 102-114), whoever else writes it meanwhile.
THEOREM LeftoversAreCleaned == Spec => []LeftoversCleaned
<1>1. TypeOK /\ FilesInv => LeftoversCleaned
  <2> SUFFICES ASSUME TypeOK, FilesInv, crashes = 0, NEW f \in Files, file[f].state = "partial"
               PROVE  \E a \in Attempts : Dest(a) = f /\ pc[a] \in Registered
    BY DEF LeftoversCleaned
  <2>1. PICK a \in Attempts : Owner(a, f)
    BY DEF FilesInv, PartialOwned
  <2> QED BY <2>1 DEF Owner, TypeOK, Registered
<1> QED BY <1>1, TypeCorrect, InitFiles, StepFiles, PTL DEF Spec

-----------------------------------------------------------------------------
(* Complete files stay. *)

LEMMA StepSettled ==
  ASSUME TypeOK, [Next]_vars, NEW f \in Files, Settled(f)
  PROVE  Settled(f)'
<1>1. file[f].state = "whole" /\ file[f] # Absent
      /\ \A a \in Attempts : Dest(a) = f =>
           pc[a] \notin {"requesting", "writing", "written", "measured", "failing", "clear"}
  BY DEF Settled, Absent, Registered
<1>2. ASSUME file'[f] = file[f],
             \A a \in Attempts : Dest(a) = f => pc'[a] \notin Registered \cup {"clear"}
      PROVE  Settled(f)'
  BY <1>1, <1>2 DEF Settled
<1>3. ASSUME NEW a \in Attempts, Tap(a) \/ AttemptStep(a) \/ Progress(a) PROVE Settled(f)'
  <2>1. \A b \in Attempts : b # a => pc'[b] = pc[b]
    BY <1>3 DEF Tap, Progress, AttemptStep, ResolveThrows, Resolved, Located, ReportFound,
                Register, Opens, Transferred, TransferThrows, Measured, ReportSaved,
                ReportFailed, Goes, TypeOK
  <2>2. CASE Dest(a) # f
    <3>1. file'[f] = file[f]
      BY <1>3, <2>2 DEF Tap, Progress, AttemptStep, ResolveThrows, Resolved, Located,
             ReportFound, Register, Opens, Transferred, TransferThrows, Measured,
             ReportSaved, ReportFailed, disk, TypeOK
    <3> QED BY <1>1, <1>2, <2>1, <2>2, <3>1 DEF Registered
  <2>3. CASE Dest(a) = f
    <3>1. /\ Tap(a) \/ ResolveThrows(a) \/ Resolved(a) \/ Located(a) \/ ReportFound(a)
          /\ file' = file
      BY <1>1, <1>3, <2>3 DEF Tap, Progress, AttemptStep, ResolveThrows, Resolved, Located,
             ReportFound, Register, Opens, Transferred, TransferThrows, Measured,
             ReportSaved, ReportFailed, Transfer, disk
    <3>2. pc'[a] \in {"resolving", "failed", "refused", "locating", "found", "saved"}
      BY <1>1, <2>3, <3>1 DEF Tap, ResolveThrows, Resolved, Located, ReportFound, Goes, TypeOK
    <3> QED BY <1>1, <1>2, <2>1, <3>1, <3>2 DEF Registered
  <2> QED BY <2>2, <2>3
<1>4. CASE Dispose \/ UNCHANGED vars \/ \E t \in Tracks : Cancel(t)
  <2>1. UNCHANGED <<pc, file>>
    BY <1>4 DEF Dispose, Cancel, vars, disk
  <2> QED BY <1>1, <1>2, <2>1 DEF Registered
<1>5. CASE Crash
  <2>1. file' = file /\ \A a \in Attempts : pc'[a] \in {"killed", pc[a]}
    BY <1>5 DEF Crash
  <2> QED BY <1>1, <1>2, <2>1 DEF Registered
<1> QED BY <1>3, <1>4, <1>5 DEF Next

\* A complete file that nobody has cleared for writing stays complete and
\* uncleared for ever: "We never overwrite without checking for an existing file
\* first" (lines 11-12), across any number of taps, failures and restarts.
THEOREM SettledFilesStay == Spec => SettledStays
<1>1. TypeOK /\ [Next]_vars => [\A f \in Files : Settled(f) => Settled(f)']_vars
  BY StepSettled
<1> QED BY <1>1, TypeCorrect, PTL DEF Spec, SettledStays

-----------------------------------------------------------------------------
(* What SavedIsWhole comes to. *)

\* Every track has a file name of its own.
OwnNames == \A s, t \in Tracks : FileOf[s] = FileOf[t] => s = t

Taps(t) == {a \in Attempts : TappedFor[a] = t}

\* From the look at _inflight to the entry in it: lines 53 to 75.
Window == {"locating", "clear"}

\* The app is not killed, and no two attempts of a track are in the window.
Undisturbed ==
  /\ crashes = 0
  /\ \A t \in Tracks : \A a, b \in Taps(t) : pc[a] \in Window /\ pc[b] \in Window => a = b

\* Then one attempt at a time is at the file of track t, and knows it.
InTurn(t) ==
  /\ \A a, b \in Taps(t) : pc[a] \in Window \cup Registered /\ pc[b] \in Window \cup Registered => a = b
  /\ \A a \in Taps(t) : pc[a] \in Registered => inflight[t] = a
  /\ \A a \in Taps(t) : pc[a] = "writing" => a \in holds /\ file[FileOf[t]].by = a
  /\ \A a \in Taps(t) : pc[a] \in {"found", "written", "measured"} => file[FileOf[t]].state = "whole"
  /\ \A a, b \in Taps(t) : pc[a] = "found" => pc[b] \notin {"clear"} \cup Registered
  /\ file[FileOf[t]] # Absent =>
       file[FileOf[t]].by \in Taps(t) /\ file[FileOf[t]].state \in {"partial", "whole"}

AllInTurn == \A t \in Tracks : InTurn(t)

LEMMA TapsFacts ==
  ASSUME NEW t \in Tracks
  PROVE  /\ FileOf[t] \in Files
         /\ \A a \in Taps(t) : a \in Attempts /\ TappedFor[a] = t /\ Dest(a) = FileOf[t]
         /\ \A a \in Attempts : a \in Taps(TappedFor[a])
         /\ OwnNames => \A a \in Attempts : Dest(a) = FileOf[t] => a \in Taps(t)
  BY AttemptFacts, DownloadsAssumption DEF Taps, Dest, OwnNames

\* An attempt does nothing to the tracks and files of others.
LEMMA OthersInTurn ==
  ASSUME TypeOK, OwnNames, NEW a \in Attempts, Tap(a) \/ AttemptStep(a) \/ Progress(a),
         NEW t \in Tracks, t # TappedFor[a], InTurn(t)
  PROVE  InTurn(t)'
<1>1. \A b \in Taps(t) : b # a /\ Dest(b) # Dest(a)
  BY TapsFacts DEF OwnNames, Taps
<1>2. \A b \in Attempts : b # a => pc'[b] = pc[b]
  BY DEF Tap, Progress, AttemptStep, ResolveThrows, Resolved, Located, ReportFound, Register,
         Opens, Transferred, TransferThrows, Measured, ReportSaved, ReportFailed, Goes, TypeOK
<1>3. inflight'[t] = inflight[t]
  BY DEF Tap, Progress, AttemptStep, ResolveThrows, Resolved, Located, ReportFound, Register,
         Opens, Transferred, TransferThrows, Measured, ReportSaved, ReportFailed, Unregister,
         app, TypeOK
<1>4. FileOf[t] # Dest(a)
  BY AttemptFacts DEF OwnNames, Dest
<1>5. file'[FileOf[t]] = file[FileOf[t]]
  <2>1. ASSUME NEW f \in Files, f # Dest(a) PROVE file'[f] = file[f]
    BY <2>1 DEF Tap, Progress, AttemptStep, ResolveThrows, Resolved, Located, ReportFound,
           Register, Opens, Transferred, TransferThrows, Measured, ReportSaved, ReportFailed,
           disk, TypeOK
  <2> QED BY <1>4, <2>1, TapsFacts
<1>6. \A b \in Attempts : b # a /\ Dest(b) # Dest(a) => (b \in holds' <=> b \in holds)
  BY DEF Tap, Progress, AttemptStep, ResolveThrows, Resolved, Located, ReportFound,
         Register, Opens, Transferred, TransferThrows, Measured, ReportSaved, ReportFailed, disk
<1>7. \A b \in Taps(t) : pc'[b] = pc[b] /\ (b \in holds' <=> b \in holds)
  BY <1>1, <1>2, <1>6, TapsFacts
<1> QED BY <1>3, <1>5, <1>7 DEF InTurn

\* An attempt that leaves the file alone and enters no stage that says more of it.
LEMMA GoesInTurn ==
  ASSUME TypeOK, NEW t \in Tracks, NEW a \in Taps(t), NEW w, Goes(a, w), InTurn(t),
         UNCHANGED <<inflight, file, holds>>,
         \/ w \notin Window \cup Registered \cup {"found"}
         \/ w \in Registered \ {"writing", "written", "measured"} /\ pc[a] \in Registered
         \/ w = "measured" /\ pc[a] = "written"
  PROVE  InTurn(t)'
<1> USE DEF Window, Registered
<1>1. a \in Attempts
  BY TapsFacts
<1>2. pc'[a] = w /\ \A b \in Taps(t) : b # a => pc'[b] = pc[b]
  BY <1>1, TapsFacts DEF Goes, TypeOK
<1>3. \A b \in Taps(t) : pc'[b] \in Window \cup Registered => pc[b] \in Window \cup Registered
  BY <1>2
<1>4. \A b \in Taps(t) : pc'[b] \in {"clear"} \cup Registered => pc[b] \in {"clear"} \cup Registered
  BY <1>2
<1>5. \A b \in Taps(t) : /\ pc'[b] \in Registered => pc[b] \in Registered
                         /\ pc'[b] = "writing" => pc[b] = "writing"
                         /\ pc'[b] = "found" => pc[b] = "found"
                         /\ pc'[b] \in {"found", "written", "measured"} =>
                              pc[b] \in {"found", "written", "measured"}
  BY <1>2
<1> QED BY <1>3, <1>4, <1>5 DEF InTurn

\* Past the look at _inflight, an attempt is alone in the window if nothing is
\* disturbed, and nobody is in the try of download: he would be in _inflight.
LEMMA ResolvedInTurn ==
  ASSUME TypeOK, NEW t \in Tracks, NEW a \in Taps(t), Resolved(a), InTurn(t), Undisturbed'
  PROVE  InTurn(t)'
<1> USE DEF Window, Registered
<1>1. a \in Attempts /\ TappedFor[a] = t
  BY TapsFacts
<1>2. CASE inflight[t] # None
  BY <1>1, <1>2, GoesInTurn DEF Resolved, app, disk, Transfer
<1>3. CASE inflight[t] = None
  <2>1. Goes(a, "locating") /\ UNCHANGED <<inflight, file, holds>>
    BY <1>1, <1>3 DEF Resolved, app, disk
  <2>2. pc'[a] = "locating" /\ \A b \in Taps(t) : b # a => pc'[b] = pc[b]
    BY <1>1, <2>1, TapsFacts DEF Goes, TypeOK
  <2>3. \A b \in Taps(t) : pc[b] \notin Registered
    BY <1>3, AttemptFacts, TapsFacts DEF InTurn
  <2>4. \A b, c \in Taps(t) : pc'[b] \in Window \cup Registered /\ pc'[c] \in Window \cup Registered => b = c
    <3>1. \A b \in Taps(t) : pc'[b] \notin Registered
      BY <2>2, <2>3
    <3>2. \A b, c \in Taps(t) : pc'[b] \in Window /\ pc'[c] \in Window => b = c
      BY DEF Undisturbed, Taps
    <3> QED BY <3>1, <3>2
  <2> QED BY <2>1, <2>2, <2>3, <2>4 DEF InTurn
<1> QED BY <1>2, <1>3

\* A file that is there is whole: whoever were still writing it would be a
\* second attempt of the track.
LEMMA LocatedInTurn ==
  ASSUME TypeOK, FilesInv, OwnNames, crashes = 0,
         NEW t \in Tracks, NEW a \in Taps(t), Located(a), InTurn(t)
  PROVE  InTurn(t)'
<1> USE DEF Window, Registered
<1>1. a \in Attempts /\ TappedFor[a] = t /\ Dest(a) = FileOf[t] /\ FileOf[t] \in Files
  BY TapsFacts
<1>2. pc[a] = "locating" /\ UNCHANGED <<inflight, file, holds>>
  BY DEF Located, app, disk
<1>3. \A b \in Taps(t) : b # a => pc[b] \notin Window \cup Registered
  BY <1>2 DEF InTurn
<1>4. PICK w \in {"found", "clear"} : Goes(a, w) /\ (w = "found" => file[FileOf[t]] # Absent)
  BY <1>1 DEF Located
<1>5. pc'[a] = w /\ \A b \in Taps(t) : b # a => pc'[b] = pc[b]
  BY <1>1, <1>4, TapsFacts DEF Goes, TypeOK
<1>6. file[FileOf[t]].state # "partial"
  <2> SUFFICES ASSUME file[FileOf[t]].state = "partial" PROVE FALSE
    OBVIOUS
  <2>1. PICK b \in Attempts : Owner(b, FileOf[t])
    BY <1>1 DEF FilesInv, PartialOwned
  <2>2. b \in Taps(t) /\ pc[b] \in {"failing", "writing"}
    BY <2>1, TapsFacts DEF Owner, TypeOK
  <2> QED BY <1>2, <1>3, <2>2
<1>7. w = "found" => file[FileOf[t]].state = "whole"
  BY <1>4, <1>6 DEF InTurn
<1>8. \A b \in Taps(t) : b # a => pc'[b] \notin Window \cup Registered
  BY <1>3, <1>5
<1>9. ASSUME NEW b \in Taps(t), NEW c \in Taps(t), pc'[b] = "found"
      PROVE  pc'[c] \notin {"clear"} \cup Registered
  <2>1. CASE c # a
    BY <1>8, <2>1
  <2>2. CASE c = a /\ w = "found"
    BY <1>5, <2>2
  <2>3. CASE c = a /\ w = "clear"
    <3>1. b # a /\ pc[b] = "found"
      BY <1>5, <1>9, <2>3
    <3>2. file[FileOf[t]].state = "whole" /\ file[FileOf[t]] # Absent
      BY <3>1 DEF InTurn, Absent
    <3>3. Goes(a, "found")
      BY <1>1, <3>2 DEF Located
    <3>4. pc'[a] = "found"
      BY <1>1, <3>3 DEF Goes, TypeOK
    <3> QED BY <1>5, <2>3, <3>4
  <2> QED BY <1>4, <2>1, <2>2, <2>3
<1>10. \A b \in Taps(t) : pc'[b] \in {"found", "written", "measured"} => file[FileOf[t]].state = "whole"
  BY <1>4, <1>5, <1>7 DEF InTurn
<1>11. \A b \in Taps(t) : pc'[b] \notin Registered
  BY <1>4, <1>5, <1>8
<1> QED BY <1>2, <1>8, <1>9, <1>10, <1>11 DEF InTurn

\* An attempt that is about to enter _inflight, or has, is alone: what holds
\* after its step is what holds of it.
LEMMA AloneInTurn ==
  ASSUME TypeOK, NEW t \in Tracks, NEW a \in Taps(t), pc[a] \in {"clear"} \cup Registered,
         NEW w \in Registered \cup {"saved", "failed"}, Goes(a, w), InTurn(t),
         w \in Registered => inflight'[t] = a,
         w = "writing" => a \in holds' /\ file'[FileOf[t]].by = a,
         w \in {"written", "measured"} => file'[FileOf[t]].state = "whole",
         file'[FileOf[t]] # Absent =>
           file'[FileOf[t]].by \in Taps(t) /\ file'[FileOf[t]].state \in {"partial", "whole"}
  PROVE  InTurn(t)'
<1> USE DEF Window, Registered
<1>1. a \in Attempts
  BY TapsFacts
<1>2. pc'[a] = w /\ \A b \in Taps(t) : b # a => pc'[b] = pc[b]
  BY <1>1, TapsFacts DEF Goes, TypeOK
<1>3. \A b \in Taps(t) : b # a => pc[b] \notin Window \cup Registered \cup {"found"}
  BY DEF InTurn
<1>4. \A b \in Taps(t) : b # a => pc'[b] \notin Window \cup Registered \cup {"found"}
  BY <1>2, <1>3
<1>5. pc'[a] \notin {"found", "clear"}
  BY <1>2
<1> QED BY <1>2, <1>4, <1>5 DEF InTurn

LEMMA OwnInTurn ==
  ASSUME TypeOK, FilesInv, OwnNames, Undisturbed, Undisturbed',
         NEW t \in Tracks, NEW a \in Taps(t), AttemptStep(a), InTurn(t)
  PROVE  InTurn(t)'
<1> USE DEF Registered
<1> DEFINE f == file[FileOf[t]]
           f2 == file'[FileOf[t]]
<1>1. a \in Attempts /\ TappedFor[a] = t /\ Dest(a) = FileOf[t] /\ FileOf[t] \in Files
  BY TapsFacts
<1>2. f # Absent => f.by \in Taps(t) /\ f.state \in {"partial", "whole"}
  BY DEF InTurn
<1>3. CASE ResolveThrows(a)
  BY <1>3, GoesInTurn DEF ResolveThrows, app, disk, Window
<1>4. CASE Resolved(a)
  BY <1>4, ResolvedInTurn
<1>5. CASE Located(a)
  BY <1>5, LocatedInTurn DEF Undisturbed
<1>6. CASE ReportFound(a)
  <2>1. PICK w \in {"saved", "failed"} : Goes(a, w)
    BY <1>6 DEF ReportFound
  <2>2. UNCHANGED <<inflight, file, holds>>
    BY <1>6 DEF ReportFound, disk
  <2> QED BY <2>1, <2>2, GoesInTurn DEF Window
<1>7. CASE Register(a)
  <2>1. /\ pc[a] = "clear" /\ Goes(a, "requesting") /\ UNCHANGED file
        /\ inflight'[t] = a
    BY <1>1, <1>7 DEF Register, disk, TypeOK
  <2> QED BY <1>2, <2>1, AloneInTurn
<1>8. CASE Opens(a)
  <2>1. /\ pc[a] = "requesting" /\ Goes(a, "writing") /\ UNCHANGED inflight
        /\ a \in holds' /\ f2 = [state |-> "partial", by |-> a]
    BY <1>1, <1>8 DEF Opens, app, TypeOK
  <2>2. inflight'[t] = a /\ f2.by = a /\ f2.state = "partial"
    BY <2>1 DEF InTurn
  <2> QED BY <2>1, <2>2, AloneInTurn
<1>9. CASE Transferred(a)
  <2>1. /\ pc[a] = "writing" /\ Goes(a, "written") /\ UNCHANGED inflight
        /\ a \in holds /\ f.by = a
    BY <1>9 DEF Transferred, InTurn
  <2>2. file' = [file EXCEPT ![FileOf[t]].state = Completed(a)]
    BY <1>1, <1>9, <2>1 DEF Transferred
  <2>3. \A b \in CoWriters(a) : TappedFor[b] = TappedFor[a]
    <3> SUFFICES ASSUME NEW b \in CoWriters(a) PROVE TappedFor[b] = TappedFor[a]
      OBVIOUS
    <3>1. b \in Attempts /\ Dest(b) = FileOf[t]
      BY <1>1 DEF CoWriters, TypeOK
    <3> QED BY <1>1, <3>1, TapsFacts DEF Taps
  <2>4. Completed(a) = "whole"
    BY <1>1, <2>1, <2>3 DEF Completed
  <2>5. f2.state = "whole" /\ f2.by = a
    BY <1>1, <2>1, <2>2, <2>4 DEF TypeOK
  <2>6. inflight'[t] = a
    BY <2>1 DEF InTurn
  <2> QED BY <2>1, <2>5, <2>6, AloneInTurn
<1>10. CASE TransferThrows(a)
  <2>1. /\ pc[a] \in Registered /\ Goes(a, "failing") /\ UNCHANGED <<inflight, file>>
    BY <1>10 DEF TransferThrows, Transfer
  <2>2. inflight'[t] = a
    BY <2>1 DEF InTurn
  <2> QED BY <1>2, <2>1, <2>2, AloneInTurn
<1>11. CASE Measured(a)
  <2>1. pc[a] = "written" /\ UNCHANGED <<inflight, file>> /\ f.state = "whole"
    BY <1>11 DEF Measured, app, disk, InTurn
  <2>2. PICK w \in {"measured", "failing"} : Goes(a, w)
    BY <1>11 DEF Measured
  <2>3. inflight'[t] = a
    BY <2>1 DEF InTurn
  <2> QED BY <1>2, <2>1, <2>2, <2>3, AloneInTurn
<1>12. CASE ReportSaved(a)
  <2>1. pc[a] = "measured" /\ Goes(a, "saved") /\ UNCHANGED file
    BY <1>12 DEF ReportSaved, disk
  <2> QED BY <1>2, <2>1, AloneInTurn
<1>13. CASE ReportFailed(a)
  <2>1. pc[a] = "failing" /\ Goes(a, "failed") /\ f2 = Absent
    BY <1>1, <1>13 DEF ReportFailed, TypeOK
  <2> QED BY <2>1, AloneInTurn
<1> QED BY <1>3, <1>4, <1>5, <1>6, <1>7, <1>8, <1>9, <1>10, <1>11, <1>12, <1>13
        DEF AttemptStep

LEMMA StepInTurn ==
  ASSUME TypeOK, FilesInv, OwnNames, AllInTurn, Undisturbed, Undisturbed', [Next]_vars
  PROVE  AllInTurn'
<1> SUFFICES ASSUME NEW t \in Tracks PROVE InTurn(t)'
  BY DEF AllInTurn
<1>1. InTurn(t)
  BY DEF AllInTurn
<1>2. ASSUME UNCHANGED <<pc, inflight, file, holds>> PROVE InTurn(t)'
  BY <1>1, <1>2 DEF InTurn
<1>3. ASSUME NEW a \in Attempts, Tap(a) \/ AttemptStep(a) \/ Progress(a) PROVE InTurn(t)'
  <2>1. CASE t # TappedFor[a]
    BY <1>1, <1>3, <2>1, OthersInTurn
  <2>2. CASE a \in Taps(t) /\ AttemptStep(a)
    BY <1>1, <2>2, OwnInTurn
  <2>3. CASE a \in Taps(t) /\ Tap(a)
    BY <1>1, <2>3, GoesInTurn DEF Tap, app, disk, Window, Registered
  <2>4. CASE Progress(a)
    BY <1>2, <2>4 DEF Progress, disk
  <2> QED BY <1>3, <2>1, <2>2, <2>3, <2>4 DEF Taps
<1>4. CASE Dispose \/ UNCHANGED vars \/ \E u \in Tracks : Cancel(u)
  BY <1>2, <1>4 DEF Dispose, Cancel, vars, app, disk
<1>5. ~Crash
  BY DEF Crash, Undisturbed
<1> QED BY <1>3, <1>4, <1>5 DEF Next

\* A path that download returns is that of the whole file of its track, except
\* for three causes: a kill has left a partial file, two tracks have one file
\* name, or two attempts of a track were between the look at _inflight and the
\* entry at once.  Failures, cancels and disposes, and attempts that overlap in
\* any other way, break nothing (download_service.dart:51-117).
THEOREM SavedUndisturbed ==
  ASSUME OwnNames
  PROVE  Spec /\ []Undisturbed => SavedIsWhole
<1>1. Init => AllInTurn
  <2> SUFFICES ASSUME Init, NEW t \in Tracks PROVE InTurn(t)
    BY DEF AllInTurn
  <2>1. /\ FileOf[t] \in Files /\ file[FileOf[t]] = Absent
        /\ \A a \in Taps(t) : pc[a] = "untapped"
    BY TapsFacts DEF Init
  <2>2. "untapped" \notin Window \cup Registered \cup {"found", "clear"}
    BY DEF Window, Registered
  <2> QED BY <2>1, <2>2 DEF InTurn, Registered
<1>2. TypeOK /\ FilesInv /\ AllInTurn /\ Undisturbed /\ Undisturbed' /\ [Next]_vars => AllInTurn'
  BY StepInTurn
<1>3. TypeOK /\ AllInTurn /\ [Next]_vars =>
        [\A a \in Attempts : pc[a] # "saved" /\ pc'[a] = "saved" =>
           file[Dest(a)].state = "whole" /\ TappedFor[file[Dest(a)].by] = TappedFor[a]]_vars
  <2> SUFFICES ASSUME TypeOK, AllInTurn, Next, NEW a \in Attempts, pc[a] # "saved", pc'[a] = "saved"
               PROVE  file[Dest(a)].state = "whole" /\ TappedFor[file[Dest(a)].by] = TappedFor[a]
    OBVIOUS
  <2> DEFINE t == TappedFor[a]
  <2>1. t \in Tracks /\ a \in Taps(t) /\ Dest(a) = FileOf[t] /\ InTurn(t)
    BY AttemptFacts, TapsFacts DEF AllInTurn, Dest
  <2>2. ReportFound(a) \/ ReportSaved(a)
    <3>1. ASSUME NEW b \in Attempts, Tap(b) \/ AttemptStep(b) \/ Progress(b)
          PROVE  b = a /\ (ReportFound(a) \/ ReportSaved(a))
      BY <3>1 DEF Tap, Progress, AttemptStep, ResolveThrows, Resolved, Located, ReportFound,
              Register, Opens, Transferred, TransferThrows, Measured, ReportSaved,
              ReportFailed, Goes, TypeOK
    <3>2. ASSUME NEW u \in Tracks, Cancel(u) PROVE FALSE
      BY <3>2 DEF Cancel
    <3>3. ~Dispose
      BY DEF Dispose
    <3>4. ~Crash
      BY DEF Crash
    <3> QED BY <3>1, <3>2, <3>3, <3>4 DEF Next
  <2>3. pc[a] \in {"found", "measured"}
    BY <2>2 DEF ReportFound, ReportSaved
  <2>4. file[FileOf[t]].state = "whole" /\ file[FileOf[t]] # Absent
    BY <2>1, <2>3 DEF InTurn, Absent
  <2> QED BY <2>1, <2>4 DEF InTurn, Taps
<1> QED BY <1>1, <1>2, <1>3, TypeCorrect, InitFiles, StepFiles, PTL DEF Spec, SavedIsWhole



=============================================================================
