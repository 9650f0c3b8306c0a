--------------------------- MODULE MCNativeTorrent ---------------------------
(* Small instances of NativeTorrent. *)
EXTENDS NativeTorrent, TLC

CONSTANTS c1, c2, x1

TwoCallers == {c1, c2}
OneHash    == {x1}
TwoStreams == {1, 2}

\* No audio, a cover first and a log last, a gap, audio only.
SomeAudio == [Hashes -> {{}, {1}, {0, 2}, {0, 1, 2}}]

Interchangeable == Permutations(Callers)

=============================================================================
