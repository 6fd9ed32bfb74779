-------------------------- MODULE MCUploadAddress --------------------------
(* Two requests with a file of one name, and one with a file of each kind. *)
EXTENDS UploadAddress, TLC

CONSTANTS r1, r2, r3, a, b

MCFile(n, h) == [name |-> n, holds |-> h]

MCFilesOf == r1 :> <<MCFile(a, "gps")>>
          @@ r2 :> <<MCFile(a, "gps"), MCFile(b, "noImage")>>
          @@ r3 :> <<MCFile(a, "nothing"), MCFile(a, "noGps"), MCFile(b, "gps")>>
=============================================================================
