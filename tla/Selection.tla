----------------------------- MODULE Selection -----------------------------
(***************************************************************************)
(* A part of a list in the order of the list, as the upload widget takes   *)
(* the files that are left, or the thumbnails of one kind.                 *)
(***************************************************************************)
EXTENDS Integers, Sequences, FiniteSets

Seqs == INSTANCE SequencesExt

\* The elements of s that are in S, in their order.
Only(s, S) ==
  LET at == {i \in DOMAIN s : s[i] \in S}
  IN [n \in 1 .. Cardinality(at) |-> s[CHOOSE i \in at : Cardinality({j \in at : j <= i}) = n]]
=============================================================================
