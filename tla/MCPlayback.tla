---------------------------- MODULE MCPlayback ----------------------------
(* Small instances of Playback. *)
EXTENDS Playback

CONSTANTS t1, t2

TwoTracks == {t1, t2}
TwoQueues == {<<t1>>, <<t2, t1>>}
OneTrack  == {<<t1>>}
Uniform   == [s \in 1 .. NumServices |-> MaxGen]
TwoThenOne == <<2, 1>>
PlainMode == {[repeat |-> "off", shuffle |-> FALSE]}
NoFaults  == {}
NetFaults == {"info", "resolve", "open"}
AllFaults == {"stop", "info", "resolve", "open"}
AnyLoad   == 1 .. MaxGen
Second    == {2}

=============================================================================
