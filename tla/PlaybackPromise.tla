-------------------------- MODULE PlaybackPromise --------------------------
(***************************************************************************)
(* What playback services that share one speaker promise their users: the  *)
(* requests made of a service are heard in the order they were made, each  *)
(* at most once, some never; once a request is heard, no earlier one of    *)
(* the same service ever is.                                               *)
(***************************************************************************)
EXTENDS Naturals

CONSTANTS Services, Silence

VARIABLES
  asked,   \* per service, how many requests were made, numbered from 1
  newest,  \* per service, the newest request heard so far, 0 before the first
  heard    \* the <<service, request>> heard now, or Silence

vars == <<asked, newest, heard>>

Init ==
  /\ asked = [s \in Services |-> 0]
  /\ newest = [s \in Services |-> 0]
  /\ heard = Silence

Ask(s) ==
  /\ asked' = [asked EXCEPT ![s] = @ + 1]
  /\ UNCHANGED <<newest, heard>>

Play(s) ==
  /\ \E r \in newest[s] + 1 .. asked[s] :
       /\ newest' = [newest EXCEPT ![s] = r]
       /\ heard' = <<s, r>>
  /\ UNCHANGED asked

FallSilent == heard' = Silence /\ UNCHANGED <<asked, newest>>

Next == FallSilent \/ \E s \in Services : Ask(s) \/ Play(s)

Spec == Init /\ [][Next]_vars

=============================================================================
