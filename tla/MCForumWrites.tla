---------------------------- MODULE MCForumWrites ----------------------------
(* ForumWrites with four calls and one daemon: a stale frame is mistaken for *)
(* a receipt only when two earlier calls have left one each on the pipe.     *)
EXTENDS ForumWrites, TLC

CONSTANTS c1, c2, c3, c4, w1
MCCalls   == {c1, c2, c3, c4}
MCWorkers == {w1}
Symmetry == Permutations(MCCalls)
=============================================================================
