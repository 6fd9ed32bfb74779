------------------------ MODULE MCDocumentConversion ------------------------
(* Two callers and two names; a minute of one millisecond that comes back after two. *)
EXTENDS DocumentConversion, TLC

CONSTANTS c1, c2, n1, n2

MCSymmetry == Permutations(Callers) \cup Permutations(Names)
=============================================================================
