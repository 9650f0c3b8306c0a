-------------------------- MODULE MCTorrentSessions --------------------------
(* Small instances of TorrentSessions. *)
EXTENDS TorrentSessions

CONSTANTS o1, o2, i1, i2, x1, m1

Two       == {o1, o2}
TwoInits  == {i1, i2}
OneHash   == {x1}
OneMagnet  == {m1}
SameHash  == [m \in Magnets |-> x1]
NoStreams == {}
SomeAudio == [Hashes -> {{1}, {0, 1}}]

=============================================================================
