--------------------------- MODULE MCFilePreview ---------------------------
EXTENDS FilePreview, TLC

-----------------------------------------------------------------------------
(* Exif data: values on both sides of the four bytes of an entry. *)

Types ==
  (1 :> "Short") @@ (2 :> "Ascii") @@ (3 :> "Rational") @@ (4 :> "Undefined")
    @@ (5 :> "Byte") @@ (6 :> "Long") @@ (7 :> "SRational") @@ (8 :> "Long")

Numbers(n) == [kind |-> "numbers", n |-> n, data |-> "numbers", wide |-> FALSE]
Wide(n) == [kind |-> "numbers", n |-> n, data |-> "numbers", wide |-> TRUE]
Text(n) == [kind |-> "string", n |-> n, data |-> "text", wide |-> FALSE]
Pairs(n) == [kind |-> "pairs", n |-> n, data |-> "pairs", wide |-> FALSE]

Small == (1 :> Numbers(2)) @@ (2 :> Text(3)) @@ (4 :> Text(4)) @@ (5 :> Numbers(0)) @@ (6 :> Numbers(1)) @@ (7 :> Pairs(2))
Large == (1 :> Numbers(3)) @@ (2 :> Text(4)) @@ (3 :> Pairs(1)) @@ (4 :> Text(5)) @@ (5 :> Numbers(5)) @@ (6 :> Numbers(2))

Dict(zeroth, exifIfd, gps, interop, first, thumbnail) ==
  [zeroth |-> zeroth, exif |-> exifIfd, gps |-> gps, interop |-> interop, first |-> first, thumbnail |-> thumbnail]

Picture(len, apps) == [len |-> len, apps |-> apps, picture |-> "thumbnail", jpeg |-> TRUE]

At1(d, tag) == d @@ (tag :> 0)

Fit == {
  Dict(Empty, Empty, Empty, Empty, Empty, Missing),
  Dict(Large, Empty, Empty, Empty, Empty, Missing),
  Dict(At1(Small, GPSTag), Empty, Large, Empty, Empty, Missing),
  Dict(At1(Empty, ExifTag), At1(Empty, InteroperabilityTag), Empty, Large, Empty, Missing),
  Dict(At1(Large, ExifTag), At1(Small, InteroperabilityTag), Empty, Small, Large, Picture(900, 18)),
  Dict(At1(At1(Large, ExifTag), GPSTag), At1(Large, InteroperabilityTag), Large, Large, Large, Picture(64000, 0)),
  Dict(Large, Empty, Empty, Empty, Large, Missing),
  Dict(Small @@ (8 :> Numbers(0)), Empty, Large, Empty, Empty, Missing) }

Unfit == {
  Dict((1 :> Text(2)), Empty, Empty, Empty, Empty, Missing),
  Dict(Small, Empty, (1 :> Wide(1)), Empty, Empty, Missing),
  Dict(Small, Empty, Empty, Empty, Small, [Picture(900, 18) EXCEPT !.jpeg = FALSE]),
  Dict(Small, Empty, Empty, Empty, Small, Picture(64020, 18)),
  Dict((4 :> Text(65510)), Empty, Empty, Empty, Empty, Missing) }

Choices ==
  {(1 :> d) @@ (3 :> Missing) : d \in Fit \cup Unfit} \cup {(1 :> Missing) @@ (3 :> d) : d \in Unfit}

-----------------------------------------------------------------------------
(* Documents: all shapes of up to three nodes, nests of four, and attributes. *)

Depths(n) == {d \in [1 .. n -> 1 .. n] : d[1] = 1 /\ \A k \in 2 .. n : d[k] <= d[k - 1] + 1}

WithTags(n, tags) ==
  {[k \in 1 .. n |-> [depth |-> d[k], tag |-> t[k], attrs |-> <<>>]] :
     d \in Depths(n), t \in [1 .. n -> tags]}

WellFormed(d) == \A k \in 1 .. Len(d) - 1 : d[k].tag = "#text" => d[k + 1].depth <= d[k].depth

Shapes ==
  {d \in UNION {WithTags(n, {"p", "x-tag", "style", "#text"}) : n \in 1 .. 3} \cup WithTags(4, {"p", "x-tag"}) :
     WellFormed(d)}
    \cup UNION {WithTags(n, {"iframe", "form", "clobbered form"}) : n \in 1 .. 3}

Names3 == {"id", "name", "src"}

Orders == {s \in UNION {[1 .. n -> Names3] : n \in 1 .. 3} : \A i, j \in DOMAIN s : i # j => s[i] # s[j]}

AttrValues == [Names3 -> {"plain", "clobbers", "data", "other"}]

Attributed ==
  {<<[depth |-> 1, tag |-> tag, attrs |-> [k \in DOMAIN s |-> [name |-> s[k], value |-> v[s[k]]]]]>> :
     tag \in {"img", "p"}, s \in Orders, v \in {w \in AttrValues : {w["id"], w["name"]} \subseteq {"plain", "clobbers"}}}

Documents == Shapes \cup Attributed
=============================================================================
