-------------------------- MODULE MCLoginErrorCache --------------------------
(* One login name, one or two entries for it, two requests. *)
EXTENDS LoginErrorCache, TLC

CONSTANTS n1, e1, e2, t1, t2

MCSymmetry == Permutations(Entries) \cup Permutations(Threads)
=============================================================================
