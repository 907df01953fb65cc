---------------------------- MODULE MCWebLogins ----------------------------
(* An instance of WebLogins for TLC.                                       *)
EXTENDS WebLogins, TLC

CONSTANTS c1, c2, w1, w2

Addresses == {c1, c2}
Allowed   == {c2}
Threads   == {w1, w2}
ThreadsAlike == Permutations(Threads)
=============================================================================
