---------------------------- MODULE MCScheduledSend ----------------------------
(* Instances of ScheduledSend for TLC. *)
EXTENDS ScheduledSend

CONSTANTS s1, s2, a1, a2, a3

TwoSenders == {s1, s2}
ThreeAlbums == {a1, a2, a3}
OneBroken == {a3}

\* The first sender draws from the whole library, the second from a part of it.
Scopes == [s \in Senders |-> IF s = s1 THEN Albums ELSE {a1, a2}]
TwoBack == [s \in Senders |-> 2]
================================================================================
