---------------------------- MODULE MCWebSessions ----------------------------
(* One user with two sessions, and two threads. *)
EXTENDS WebSessions, TLC

CONSTANTS u1, s1, s2, r1, r2

MCSymmetry == Permutations(Sessions) \cup Permutations(Requests)
=============================================================================
