----------------------------- MODULE MCMessaging -----------------------------
(* One or two threads of a producer, one or two consumers. *)
EXTENDS Messaging, TLC

CONSTANTS p1, p2, c1, c2, a, b

MCSymmetry == Permutations(Senders) \cup Permutations(Receivers) \cup Permutations(Names)
=============================================================================
