------------------------------ MODULE PlayQueue ------------------------------
(***************************************************************************)
(* The queue arithmetic of AudioPlayerService: which index plays next.     *)
(* Indexes are the code's: 0 .. n-1 in a queue of n tracks, -1 when there  *)
(* is no current track.                                                    *)
(***************************************************************************)
EXTENDS Integers, Sequences

RepeatModes == {"off", "all", "one"}

\* cycleRepeatMode: off -> all -> one -> off
NextMode == [off |-> "all", all |-> "one", one |-> "off"]

\* PlaybackSnapshot.current is null unless this holds.
HasCurrent(q, i) == i \in 0 .. Len(q) - 1

Current(q, i) == q[i + 1]

\* Mutant of NextIndexes: `<=` for `<` at the end of the queue.
NextIndexesPastEnd(n, i, repeat, shuffle, auto) ==
  IF n = 0 THEN {} ELSE {IF auto /\ repeat = "one" THEN i ELSE i + 1}

(***************************************************************************)
(* _pickNextIndex: the set of indexes it may return in a queue of n        *)
(* tracks, {} when it returns null.  Under shuffle the pick depends on the *)
(* clock: every index but the current one can come out.                    *)
(***************************************************************************)
NextIndexes(n, i, repeat, shuffle, auto) ==
  { j \in 0 .. n - 1 :
      IF auto /\ repeat = "one" THEN j = i
      ELSE IF shuffle           THEN n = 1 \/ j # i
      ELSE \/ j = i + 1
           \/ j = 0 /\ i + 1 >= n /\ repeat = "all" }

=============================================================================
