-------------------------------- MODULE Exif --------------------------------
(***************************************************************************)
(* The Exif data of a photograph (piexif.js): taken from it by load, and,  *)
(* when the upload widget has made a smaller picture, written by dump and  *)
(* put into that by insert.  What can go wrong is the arithmetic of the    *)
(* offsets, so the model keeps lengths and offsets in bytes and leaves out *)
(* the bytes themselves: a TIFF is the sequence of the pieces it is put    *)
(* together from, a reader gets a piece if it asks for exactly that one.   *)
(*                                                                         *)
(* A dictionary is a record of IFDs; an IFD maps tags to values; a value   *)
(* is a kind (numbers, a string, pairs of numbers), how many, data, and    *)
(* whether a number of it is out of the range of its tag's type.           *)
(* Tags that piexif.js does not know, which it leaves out, are left out.   *)
(***************************************************************************)
EXTENDS Integers, Sequences, FiniteSets

CONSTANTS
  Missing,   \* undefined, null
  TagType    \* TAGS: the type of each tag of the model

ExifTag == 34665
GPSTag == 34853
InteroperabilityTag == 40965
Thumbnail == 513
ThumbnailLength == 514
Pointers == {ExifTag, GPSTag, InteroperabilityTag, Thumbnail, ThumbnailLength}

TiffHeaderLength == 8
MaxThumbnail == 64000
MaxShort == 65535

Ifds == {"zeroth", "exif", "gps", "interop", "first"}

Unit == [Byte |-> 1, Ascii |-> 1, Undefined |-> 1, Short |-> 2, Long |-> 4, Rational |-> 8,
         SRational |-> 8]

Kind(type) ==
  CASE type \in {"Byte", "Short", "Long"} -> "numbers"
    [] type \in {"Ascii", "Undefined"} -> "string"
    [] type \in {"Rational", "SRational"} -> "pairs"

\* A value has the kind that TAGS gives its tag, or is a text where TAGS wants numbers.
\* The file gives it a type of its own: a Short may have been written as a Long.
Fits(type, v) ==
  /\ type \in DOMAIN Unit
  /\ v = [kind |-> v.kind, n |-> v.n, data |-> v.data, wide |-> v.wide]
  /\ v.n \in Nat /\ (Kind(type) = "pairs" => v.n # 0)
  /\ v.wide \in BOOLEAN /\ (v.wide => type \in {"Byte", "Short", "Rational"} /\ v.kind = Kind(type))
  /\ v.kind = Kind(type) \/ (Kind(type) = "numbers" /\ v.kind = "string")

\* What load makes of a photograph: its thumbnail is more than its APPn segments.
IsDictionary(d) ==
  /\ \A ifd \in Ifds :
       /\ IsFiniteSet(DOMAIN d[ifd]) /\ DOMAIN d[ifd] \subseteq Nat
       /\ \A t \in DOMAIN d[ifd] \ Pointers : Fits(TagType[t], d[ifd][t])
  /\ d.thumbnail # Missing =>
       /\ d.thumbnail.len \in Nat /\ d.thumbnail.apps \in Nat /\ d.thumbnail.apps < d.thumbnail.len
       /\ d.thumbnail.jpeg \in BOOLEAN
       /\ [len |-> d.thumbnail.len - d.thumbnail.apps, apps |-> 0, jpeg |-> TRUE,
           picture |-> d.thumbnail.picture] # Missing

-----------------------------------------------------------------------------
(* Pieces *)

Piece(len, what) == [len |-> len, what |-> what]

\* Where each piece begins, and last where the sequence ends.
Offsets(s) ==
  LET at[n \in 1 .. Len(s) + 1] == IF n = 1 THEN 0 ELSE at[n - 1] + s[n - 1].len
  IN at

Length(s) == Offsets(s)[Len(s) + 1]

\* The bytes of a file: each piece at its offset.
File(s) ==
  LET at == Offsets(s)
  IN {[at |-> at[n], len |-> s[n].len, what |-> s[n].what] : n \in DOMAIN s}

Found(tiff, offset, len) == {p \in tiff : p.at = offset /\ p.len = len}

\* What slice(offset, offset + len) finds.
Slice(tiff, offset, len) ==
  LET found == Found(tiff, offset, len)
  IN IF found = {} THEN Missing ELSE (CHOOSE p \in found : TRUE).what

-----------------------------------------------------------------------------
(* Writing *)

\* The number of units: a text ends with a zero.
Count(type, v) == v.n + (IF type = "Ascii" THEN 1 ELSE 0)

Size(type, v) == Unit[type] * Count(type, v)

\* _value_to_bytes: up to four bytes are kept in the entry itself.
InEntry(type, v) == Kind(type) # "pairs" /\ Size(type, v) <= 4

\* for (key in ifd): numbers come in their order.
Ascending(keys) ==
  [n \in 1 .. Cardinality(keys) |-> CHOOSE k \in keys : Cardinality({u \in keys : u <= k}) = n]

NextIfd(name) == IF name \in {"0th", "1st"} THEN 4 ELSE 0

\* Mutant: the pointer to the next IFD is forgotten.
EntriesOnly(ifd, name) == 2 + 12 * Cardinality(DOMAIN ifd)

\* The number of entries, the entries, and behind 0th and 1st a pointer to the next.
EntriesLength(ifd, name) == 2 + 12 * Cardinality(DOMAIN ifd) + NextIfd(name)

\* The tags whose values are written behind the entries, and these values.
Outside(ifd) == {t \in DOMAIN ifd \ Pointers : ~InEntry(TagType[t], ifd[t])}

Values(ifd) ==
  LET tags == Ascending(Outside(ifd))
  IN [k \in DOMAIN tags |-> Piece(Size(TagType[tags[k]], ifd[tags[k]]), ifd[tags[k]].data)]

\* Long is the one type whose value of no numbers is not filled up to four bytes.
NoValue(type, v) == type = "Long" /\ v.n = 0

\* The entry of a tag; the values begin at the start.
EntryOf(ifd, t, start) ==
  Piece(IF NoValue(TagType[t], ifd[t]) THEN 8 ELSE 12,
            [tag |-> t, type |-> TagType[t], count |-> Count(TagType[t], ifd[t]),
             value |-> IF t \in Outside(ifd)
                       THEN start + Offsets(Values(ifd))[Cardinality({u \in Outside(ifd) : u <= t})]
                       ELSE ifd[t].data])

\* _dict_to_bytes: the entries, without those that dump appends itself, and the
\* values that did not fit into them.
DictToBytes(ifd, name, offset) ==
  LET tags == Ascending(DOMAIN ifd \ Pointers)
      start == TiffHeaderLength + offset + EntriesLength(ifd, name)
  IN [entries |-> <<Piece(2, Cardinality(DOMAIN ifd))>> \o [n \in DOMAIN tags |-> EntryOf(ifd, tags[n], start)],
      values |-> Values(ifd)]

Pointer(tag, to) == Piece(12, [tag |-> tag, type |-> "Long", count |-> 1, value |-> to])

\* _get_thumbnail drops the APPn segments of the thumbnail.
GetThumbnail(t) == Piece(t.len - t.apps, t.picture)

\* A directory of the file: whether it is written, the pointers dump appends to its
\* entries, and its IFD with them and without those of the file it came from.
Directory(name, is, ifd, pointers) ==
  LET tags == {pointers[n] : n \in DOMAIN pointers}
  IN [name |-> name, is |-> is, pointers |-> pointers,
      ifd |-> [t \in (DOMAIN ifd \ Pointers) \cup tags |-> IF t \in tags THEN Missing ELSE ifd[t]]]

\* The five directories in the order of the file.  A 1st without a thumbnail is not
\* written.
Directories(d) ==
  LET interopIs == DOMAIN d.interop # {}
      exifIs == DOMAIN d.exif # {} \/ interopIs
      gpsIs == DOMAIN d.gps # {}
      tag(t, is) == IF is THEN <<t>> ELSE <<>>
  IN <<Directory("0th", TRUE, d.zeroth, tag(ExifTag, exifIs) \o tag(GPSTag, gpsIs)),
       Directory("Exif", exifIs, d.exif, tag(InteroperabilityTag, interopIs)),
       Directory("GPS", gpsIs, d.gps, <<>>),
       Directory("Interop", interopIs, d.interop, <<>>),
       Directory("1st", d.thumbnail # Missing, d.first, <<Thumbnail, ThumbnailLength>>)>>

\* The length of a directory, which is the same wherever it begins.
DirLength(dir) ==
  LET set == DictToBytes(dir.ifd, dir.name, 0)
  IN IF ~dir.is THEN 0
     ELSE Length(set.entries) + 12 * Len(dir.pointers) + NextIfd(dir.name) + Length(set.values)

\* Where each directory begins, and last where the file ends without a thumbnail.
Begins(dirs) == Offsets([n \in DOMAIN dirs |-> Piece(DirLength(dirs[n]), dirs[n].name)])

\* The pointers lead to the directories behind, those of 1st to the thumbnail.
Target(at, tag, thumbnail) ==
  CASE tag = ExifTag -> TiffHeaderLength + at[2]
    [] tag = GPSTag -> TiffHeaderLength + at[3]
    [] tag = InteroperabilityTag -> TiffHeaderLength + at[4]
    [] tag = Thumbnail -> TiffHeaderLength + at[6]
    [] tag = ThumbnailLength -> thumbnail.len

Appended(dirs, at, n, thumbnail) ==
  LET tags == dirs[n].pointers
      next == IF n = 1 /\ dirs[5].is THEN TiffHeaderLength + at[5] ELSE 0
  IN [k \in DOMAIN tags |-> Pointer(tags[k], Target(at, tags[k], thumbnail))]
       \o (IF NextIfd(dirs[n].name) > 0 THEN <<Piece(4, next)>> ELSE <<>>)

Bytes(dirs, at, n, thumbnail) ==
  LET set == DictToBytes(dirs[n].ifd, dirs[n].name, at[n])
  IN IF dirs[n].is THEN set.entries \o Appended(dirs, at, n, thumbnail) \o set.values ELSE <<>>

Written(dirs, at, thumbnail) ==
  LET bytes(n) == Bytes(dirs, at, n, thumbnail)
  IN <<Piece(TiffHeaderLength, TiffHeaderLength)>>
       \o bytes(1) \o bytes(2) \o bytes(3) \o bytes(4) \o bytes(5)
       \o (IF dirs[5].is THEN <<thumbnail>> ELSE <<>>)

Dump(d) ==
  LET dirs == Directories(d)
  IN Written(dirs, Begins(dirs), IF d.thumbnail = Missing THEN Piece(0, Missing) ELSE GetThumbnail(d.thumbnail))

\* dump and insert throw: a value that is no array where the type wants numbers, a
\* number out of the range of the type (pack), a thumbnail that is no JPEG or over 64000
\* bytes, and data too long for the length of a JPEG segment.
ExifThrows(d) ==
  \/ \E ifd \in Ifds : \E t \in DOMAIN d[ifd] \ Pointers :
       \/ Kind(TagType[t]) = "numbers" /\ d[ifd][t].kind = "string"
       \/ d[ifd][t].wide
  \/ d.thumbnail # Missing /\ (~d.thumbnail.jpeg \/ GetThumbnail(d.thumbnail).len > MaxThumbnail)
  \/ Length(Dump(d)) + 6 + 2 > MaxShort

-----------------------------------------------------------------------------
(* Reading *)

\* convert_value
ConvertValue(tiff, e) ==
  LET v == [kind |-> Kind(e.type), n |-> e.count - (IF e.type = "Ascii" THEN 1 ELSE 0), data |-> Missing,
        wide |-> FALSE]
  IN [v EXCEPT !.data = IF InEntry(e.type, v) THEN e.value ELSE Slice(tiff, e.value, Size(e.type, v))]

\* Twelve bytes that are no entry say nothing.
EntriesAt(tiff, pointer) ==
  LET at(x) == pointer + 2 + 12 * x
  IN {Slice(tiff, at(x), 12) : x \in {y \in 0 .. Slice(tiff, pointer, 2) - 1 : Found(tiff, at(y), 12) # {}}}

\* get_ifd
GetIfd(tiff, pointer) ==
  LET all == EntriesAt(tiff, pointer)
      entry(t) == CHOOSE e \in all : e.tag = t
  IN [t \in {e.tag : e \in all} |->
        IF t \in Pointers THEN entry(t).value ELSE ConvertValue(tiff, entry(t))]

Empty == [t \in {} |-> Missing]

\* load follows the pointers from IFD to IFD.
ExifLoad(bytes) ==
  LET tiff == File(bytes)
      zeroth == GetIfd(tiff, Slice(tiff, 0, 8))
      behind == TiffHeaderLength + 2 + 12 * Cardinality(DOMAIN zeroth)
      firstAt == Slice(tiff, behind, 4)
      at(ifd, tag) == IF tag \in DOMAIN ifd THEN GetIfd(tiff, ifd[tag]) ELSE Empty
      exifIfd == at(zeroth, ExifTag)
      first == IF firstAt = 0 \/ Found(tiff, behind, 4) = {} THEN Empty ELSE GetIfd(tiff, firstAt)
  IN [zeroth |-> zeroth, exif |-> exifIfd, gps |-> at(zeroth, GPSTag),
      interop |-> at(exifIfd, InteroperabilityTag), first |-> first,
      thumbnail |-> IF {Thumbnail, ThumbnailLength} \subseteq DOMAIN first
                    THEN [len |-> first[ThumbnailLength], apps |-> 0, jpeg |-> TRUE,
                          picture |-> Slice(tiff, first[Thumbnail], first[ThumbnailLength])]
                    ELSE Missing]

\* What a dictionary says, without the pointers of the file it came from.
Said(d) ==
  <<[ifd \in Ifds |->
       LET tags == IF ifd = "first" /\ d.thumbnail = Missing THEN {} ELSE DOMAIN d[ifd] \ Pointers
       IN [t \in tags |-> d[ifd][t]]],
    IF d.thumbnail = Missing THEN Missing ELSE d.thumbnail.picture>>

\* The entry of such a value is too short: those behind it are not found any more, and the
\* offsets of all values of its directory are wrong.
Shortened(d) == \E ifd \in Ifds : \E t \in DOMAIN d[ifd] \ Pointers : NoValue(TagType[t], d[ifd][t])

-----------------------------------------------------------------------------
(* JPEG segments; a picture is a sequence of [kind, exif] *)

IsExif(s) == s.kind = "exif"

GetExifSeg(jpeg) ==
  LET at == {n \in DOMAIN jpeg : IsExif(jpeg[n])}
  IN IF at = {} THEN Missing ELSE jpeg[CHOOSE n \in at : \A m \in at : n <= m].exif

\* insert and mergeSegments: APP0 is given up, Exif data in second place replaced;
\* the third place is looked at only behind an APP0.
Insert(bytes, jpeg) ==
  LET new == [kind |-> "exif", exif |-> bytes]
      rest(n) == SubSeq(jpeg, n, Len(jpeg))
  IN CASE jpeg[2].kind = "app0" /\ IsExif(jpeg[3]) -> <<jpeg[1], new>> \o rest(4)
       [] jpeg[2].kind = "app0" /\ ~IsExif(jpeg[3]) -> <<jpeg[1], new>> \o rest(3)
       [] IsExif(jpeg[2]) -> <<jpeg[1], new>> \o rest(3)
       [] OTHER -> <<jpeg[1], new>> \o rest(2)

=============================================================================
