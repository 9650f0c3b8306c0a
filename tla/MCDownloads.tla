---------------------------- MODULE MCDownloads ----------------------------
(* Small instances of Downloads. *)
EXTENDS Downloads

CONSTANTS t1, t2, f1

OneTrack  == {t1}
TwoTracks == {t1, t2}
OneFile   == {f1}
SameName  == [t \in Tracks |-> f1]
OneByOne  == [a \in 1 .. NumAttempts |-> t1]
TwiceAndOther == <<t1, t1, t2>>
NoFaults  == {}
AllFaults == {"resolve", "transfer"}

=============================================================================
