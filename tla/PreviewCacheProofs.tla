------------------------- MODULE PreviewCacheProofs -------------------------
(***************************************************************************)
(* The copies of the list of stored files agree, however many files there  *)
(* are and however uploads, deletions, drags and clearings interleave.     *)
(***************************************************************************)
EXTENDS PreviewCache, SelectionProofs, TLAPS

Entries == Items \cup {None}

\* No entry comes twice, but for the undefined ones.
Single(s) == \A i, j \in DOMAIN s : s[i] = s[j] /\ s[i] # None => i = j

-----------------------------------------------------------------------------
(* The operators of the model. *)

LEMMA TurnedProperties ==
  ASSUME NEW T, NEW s \in Seq(T), reverse \in BOOLEAN
  PROVE  /\ Turned(s) \in Seq(T) /\ Len(Turned(s)) = Len(s) /\ DOMAIN Turned(s) = DOMAIN s
         /\ \A i \in DOMAIN s : Turned(s)[i] = IF reverse THEN s[Len(s) + 1 - i] ELSE s[i]
         /\ Members(Turned(s)) = Members(s)
         /\ Distinct(s) => Distinct(Turned(s))
         /\ Single(s) => Single(Turned(s))
<1>1. /\ Seqs!Reverse(s) \in Seq(T) /\ Len(Seqs!Reverse(s)) = Len(s)
      /\ DOMAIN Seqs!Reverse(s) = 1 .. Len(s)
      /\ \A i \in 1 .. Len(s) : Seqs!Reverse(s)[i] = s[Len(s) - i + 1]
  BY ReverseProperties
<1>2. Members(Seqs!Reverse(s)) = Members(s) /\ (Distinct(s) => Distinct(Seqs!Reverse(s)))
  BY ReverseOrder
<1>3. DOMAIN s = 1 .. Len(s) /\ Len(s) \in Nat
  OBVIOUS
<1>4. \A i \in 1 .. Len(s) : Len(s) - i + 1 = Len(s) + 1 - i /\ Len(s) - i + 1 \in 1 .. Len(s)
  BY <1>3
<1>5. \A i, j \in 1 .. Len(s) : Len(s) - i + 1 = Len(s) - j + 1 => i = j
  BY <1>3
<1> DEFINE r == Seqs!Reverse(s)
<1> HIDE DEF r
<1>6. Single(s) => Single(r)
  BY <1>1, <1>3, <1>4, <1>5, ZenonT(40) DEF Single, r
<1>7. \A i \in DOMAIN s : r[i] = s[Len(s) + 1 - i]
  BY <1>1, <1>3, <1>4 DEF r
<1> QED
  BY <1>1, <1>2, <1>3, <1>6, <1>7 DEF Turned, r

\* A copy ends with the last entry that is defined.
LEMMA CopyProperties ==
  ASSUME NEW s \in Seq(Entries)
  PROVE  /\ Copy(s) \in Seq(Entries) /\ Len(Copy(s)) <= Len(s)
         /\ \A i \in 1 .. Len(Copy(s)) : Copy(s)[i] = s[i]
         /\ None \notin Members(s) => Copy(s) = s
<1> DEFINE Last(n) == /\ \A m \in n + 1 .. Len(s) : s[m] = None
                      /\ n > 0 => s[n] # None
           ends == {n \in 0 .. Len(s) : \A m \in n + 1 .. Len(s) : s[m] = None}
           last == CHOOSE n \in 0 .. Len(s) : Last(n)
<1>1. Len(s) \in Nat /\ DOMAIN s = 1 .. Len(s)
  OBVIOUS
<1>2. \E n \in 0 .. Len(s) : Last(n)
  <2>1. ends \subseteq Nat /\ Len(s) \in ends
    BY <1>1
  <2>2. PICK n \in ends : \A m \in ends : n <= m
    BY <2>1, LeastNumber
  <2>3. ASSUME n > 0, s[n] = None PROVE FALSE
    <3>1. n - 1 \in 0 .. Len(s)
      BY <1>1, <2>3
    <3>2. ASSUME NEW m \in (n - 1) + 1 .. Len(s) PROVE s[m] = None
      <4>1. m = n \/ m \in n + 1 .. Len(s)
        BY <1>1, <2>3
      <4> QED
        BY <2>3, <4>1
    <3>3. n - 1 \in ends
      BY <3>1, <3>2
    <3> HIDE DEF ends
    <3>4. n <= n - 1 /\ n \in Nat
      BY <2>1, <2>2, <3>3
    <3> QED
      BY <3>4
  <2> QED
    BY <2>3
<1> HIDE DEF Last
<1>3. last \in 0 .. Len(s) /\ Last(last)
  BY <1>2
<1>4. Copy(s) = SubSeq(s, 1, last)
  BY DEF Copy, Last
<1> HIDE DEF last
<1>5. /\ SubSeq(s, 1, last) \in Seq(Entries) /\ Len(SubSeq(s, 1, last)) = last
      /\ \A i \in 1 .. last : SubSeq(s, 1, last)[i] = s[i]
  BY <1>1, <1>3
<1>6. ASSUME None \notin Members(s) PROVE last = Len(s)
  <2>1. SUFFICES ASSUME last # Len(s) PROVE FALSE
    OBVIOUS
  <2>3. last \in 0 .. Len(s) /\ Len(s) \in Nat
    BY <1>1, <1>3
  <2>4. last \in Nat /\ Len(s) \in Nat /\ last < Len(s)
    BY <2>1, <2>3
  <2>5. last + 1 \in last + 1 .. Len(s) /\ last + 1 \in 1 .. Len(s)
    BY <2>4
  <2>2. last + 1 \in last + 1 .. Len(s) /\ last + 1 \in DOMAIN s
    BY <1>1, <2>5
  <2>6. s[last + 1] = None
    BY <1>3, <2>2 DEF Last
  <2> QED
    BY <1>6, <2>2, <2>6 DEF Members
<1>7. SubSeq(s, 1, Len(s)) = s
  BY SubSeqFull
<1>8. last <= Len(s)
  BY <1>1, <1>3
<1>9. None \notin Members(s) => SubSeq(s, 1, last) = s
  BY <1>6, <1>7
<1> QED
  BY <1>4, <1>5, <1>8, <1>9

LEMMA RemoveMembers ==
  ASSUME NEW T, NEW s \in Seq(T), NEW n \in 1 .. Len(s)
  PROVE  /\ Seqs!RemoveAt(s, n) \in Seq(T)
         /\ Members(Seqs!RemoveAt(s, n)) \subseteq Members(s)
         /\ Single(s) => Single(Seqs!RemoveAt(s, n))
         /\ Single(s) /\ s[n] # None => s[n] \notin Members(Seqs!RemoveAt(s, n))
         /\ \A i \in 1 .. Len(s) : i # n => s[i] \in Members(Seqs!RemoveAt(s, n))
<1> DEFINE r == Seqs!RemoveAt(s, n)
           skip(i) == IF i < n THEN i ELSE i + 1
<1>1. r \in Seq(T) /\ Len(r) = Len(s) - 1 /\ \A i \in 1 .. Len(s) - 1 : r[i] = IF i < n THEN s[i] ELSE s[i + 1]
  BY RemoveAtProperties
<1>2. DOMAIN s = 1 .. Len(s) /\ Len(s) \in Nat /\ n \in Nat
  OBVIOUS
<1> HIDE DEF r
<1>3. DOMAIN r = 1 .. Len(s) - 1 /\ \A i \in DOMAIN r : r[i] = s[skip(i)]
  BY <1>1
<1>4. /\ \A i \in 1 .. Len(s) - 1 : skip(i) \in 1 .. Len(s) /\ skip(i) # n
      /\ \A i, j \in 1 .. Len(s) - 1 : skip(i) = skip(j) => i = j
  BY <1>2
<1>5. ASSUME NEW i \in 1 .. Len(s), i # n PROVE \E j \in 1 .. Len(s) - 1 : skip(j) = i
  <2>1. CASE i < n
    <3>1. i \in 1 .. Len(s) - 1 /\ skip(i) = i
      BY <1>2, <2>1
    <3> QED
      BY <3>1
  <2>2. CASE ~(i < n)
    <3>1. i - 1 \in 1 .. Len(s) - 1 /\ skip(i - 1) = i
      BY <1>2, <1>5, <2>2
    <3> QED
      BY <3>1
  <2> QED
    BY <2>1, <2>2
<1> HIDE DEF skip
<1>6. Members(r) \subseteq Members(s)
  BY <1>2, <1>3, <1>4 DEF Members
<1>7. Single(s) => Single(r)
  BY <1>2, <1>3, <1>4 DEF Single
<1>8. Single(s) /\ s[n] # None => s[n] \notin Members(r)
  BY <1>2, <1>3, <1>4 DEF Single, Members
<1>9. \A i \in 1 .. Len(s) : i # n => s[i] \in Members(r)
  BY <1>3, <1>5 DEF Members
<1> QED
  BY <1>1, <1>6, <1>7, <1>8, <1>9 DEF r

LEMMA InsertSingle ==
  ASSUME NEW T, NEW s \in Seq(T), NEW n \in 1 .. Len(s) + 1, NEW e \in T,
         Single(s), e = None \/ e \notin Members(s)
  PROVE  Single(Seqs!InsertAt(s, n, e))
<1> DEFINE r == Seqs!InsertAt(s, n, e)
<1>1. /\ DOMAIN r = 1 .. Len(s) + 1 /\ DOMAIN s = 1 .. Len(s) /\ Len(s) \in Nat /\ n \in Nat
      /\ \A i \in 1 .. Len(s) + 1 : r[i] = IF i < n THEN s[i] ELSE IF i = n THEN e ELSE s[i - 1]
  BY InsertAtProperties
<1> HIDE DEF r
<1>2. SUFFICES ASSUME NEW i \in DOMAIN r, NEW j \in DOMAIN r, r[i] = r[j], r[i] # None PROVE i = j
  BY DEF Single, r
<1> DEFINE back(k) == IF k < n THEN k ELSE k - 1
<1>3. ASSUME NEW k \in DOMAIN r, k # n PROVE back(k) \in DOMAIN s /\ r[k] = s[back(k)] /\ s[back(k)] \in Members(s)
  <2>1. back(k) \in DOMAIN s /\ r[k] = s[back(k)]
    BY <1>1, <1>3
  <2> QED
    BY <2>1 DEF Members
<1>4. \A k, l \in DOMAIN r : k # n /\ l # n /\ back(k) = back(l) => k = l
  BY <1>1
<1>5. r[n] = e
  BY <1>1
<1> HIDE DEF back
<1>6. CASE i = n \/ j = n
  BY <1>2, <1>3, <1>5, <1>6
<1>7. CASE i # n /\ j # n
  <2>1. back(i) = back(j)
    BY <1>2, <1>3, <1>7 DEF Single
  <2> QED
    BY <1>4, <1>7, <2>1
<1> QED
  BY <1>6, <1>7

LEMMA CopyMembers ==
  ASSUME NEW s \in Seq(Entries)
  PROVE  Copy(s) \in Seq(Entries) /\ Members(Copy(s)) \subseteq Members(s) /\ (Single(s) => Single(Copy(s)))
<1> DEFINE c == Copy(s)
<1>1. c \in Seq(Entries) /\ Len(c) <= Len(s) /\ \A i \in 1 .. Len(c) : c[i] = s[i]
  BY CopyProperties
<1> HIDE DEF c
<1>2. DOMAIN c = 1 .. Len(c) /\ DOMAIN s = 1 .. Len(s) /\ Len(c) \in Nat /\ Len(s) \in Nat
  BY <1>1
<1>3. \A i \in DOMAIN c : i \in DOMAIN s /\ c[i] = s[i]
  BY <1>1, <1>2
<1> QED
  BY <1>1, <1>3 DEF Members, Single, c

LEMMA SpliceProperties ==
  ASSUME NEW s \in Seq(Entries), NEW i \in Int, reverse \in BOOLEAN
  PROVE  /\ Splice(s, i) \in Seq(Entries) /\ Members(Splice(s, i)) \subseteq Members(s)
         /\ Single(s) => Single(Splice(s, i))
         /\ None \notin Members(s) /\ i \in DOMAIN s /\ (reverse => 2 * i = Len(s) + 1) =>
              Splice(s, i) = Seqs!RemoveAt(s, i)
<1> DEFINE c == Copy(s)
           at == IF reverse THEN Len(c) + 1 - i ELSE i
<1>1. c \in Seq(Entries) /\ Members(c) \subseteq Members(s) /\ (Single(s) => Single(c))
  BY CopyMembers
<1>2. Splice(s, i) = IF at \in DOMAIN c THEN Seqs!RemoveAt(c, at) ELSE c
  BY DEF Splice
<1>3. ASSUME None \notin Members(s), i \in DOMAIN s, reverse => 2 * i = Len(s) + 1
      PROVE  c = s /\ at = i
  <2>1. c = s
    BY <1>3, CopyProperties
  <2>2. Len(s) \in Nat
    OBVIOUS
  <2>3. reverse => Len(s) + 1 - i = i
    BY <1>3, <2>2
  <2> QED
    BY <2>1, <2>3
<1> HIDE DEF c, at
<1>4. CASE at \in DOMAIN c
  <2>1. at \in 1 .. Len(c)
    BY <1>1, <1>4
  <2>2. /\ Seqs!RemoveAt(c, at) \in Seq(Entries) /\ Members(Seqs!RemoveAt(c, at)) \subseteq Members(c)
        /\ Single(c) => Single(Seqs!RemoveAt(c, at))
    BY <1>1, <2>1, RemoveMembers
  <2> QED
    BY <1>1, <1>2, <1>3, <1>4, <2>2
<1>5. CASE at \notin DOMAIN c
  BY <1>1, <1>2, <1>3, <1>5
<1> QED
  BY <1>4, <1>5

LEMMA OnlySingle ==
  ASSUME NEW T, NEW s \in Seq(T), NEW S, Single(s)
  PROVE  Single(Only(s, S))
<1> DEFINE o == Only(s, S)
<1>1. PICK place \in [DOMAIN o -> Places(s, S)] :
         /\ \A n \in DOMAIN o : o[n] = s[place[n]]
         /\ \A k, n \in DOMAIN o : k < n => place[k] < place[n]
         /\ \A i \in Places(s, S) : \E n \in DOMAIN o : place[n] = i
  BY OnlyOrdered
<1>2. DOMAIN o = 1 .. Len(o) /\ Len(o) \in Nat
  <2>1. o \in Seq(T \cap S)
    BY OnlyProperties
  <2> QED
    BY <2>1
<1> HIDE DEF o
<1>3. \A n \in DOMAIN o : place[n] \in DOMAIN s /\ place[n] \in Nat /\ n \in Nat
  BY <1>1, <1>2 DEF Places
<1>4. ASSUME NEW k \in DOMAIN o, NEW n \in DOMAIN o, o[k] = o[n], o[k] # None PROVE k = n
  <2>1. place[k] = place[n]
    BY <1>1, <1>3, <1>4 DEF Single
  <2>2. ~(k < n) /\ ~(n < k)
    BY <1>1, <1>3, <2>1
  <2> QED
    BY <1>3, <2>2
<1> QED
  BY <1>4 DEF Single, o

LEMMA JoinProperties ==
  ASSUME NEW o \in Seq(Entries), NEW more \in Seq(Entries)
  PROVE  /\ o \o more \in Seq(Entries) /\ Members(o \o more) = Members(o) \cup Members(more)
         /\ Single(o) /\ Distinct(more) /\ Members(o) \cap Members(more) = {} => Single(o \o more)
<1> DEFINE m == o \o more
<1>1. /\ m \in Seq(Entries) /\ Len(m) = Len(o) + Len(more)
      /\ \A i \in 1 .. Len(o) + Len(more) : m[i] = IF i <= Len(o) THEN o[i] ELSE more[i - Len(o)]
  BY ConcatProperties
<1>2. DOMAIN o = 1 .. Len(o) /\ DOMAIN more = 1 .. Len(more) /\ Len(o) \in Nat /\ Len(more) \in Nat
  OBVIOUS
<1> HIDE DEF m
<1>3. DOMAIN m = 1 .. Len(o) + Len(more)
  BY <1>1, <1>2
<1>4. \A i \in DOMAIN m : \/ i <= Len(o) /\ i \in DOMAIN o /\ m[i] = o[i]
                          \/ ~(i <= Len(o)) /\ i - Len(o) \in DOMAIN more /\ m[i] = more[i - Len(o)]
  BY <1>1, <1>2, <1>3
<1>5. Members(m) = Members(o) \cup Members(more)
  <2>1. \A i \in DOMAIN m : m[i] \in Members(o) \cup Members(more)
    BY <1>4 DEF Members
  <2>2. ASSUME NEW i \in DOMAIN o PROVE o[i] \in Members(m)
    <3>1. i \in DOMAIN m /\ m[i] = o[i]
      BY <1>1, <1>2, <1>3
    <3> QED
      BY <3>1 DEF Members
  <2>3. ASSUME NEW i \in DOMAIN more PROVE more[i] \in Members(m)
    <3>1. i + Len(o) \in DOMAIN m /\ ~(i + Len(o) <= Len(o)) /\ (i + Len(o)) - Len(o) = i
      BY <1>2, <1>3
    <3>2. m[i + Len(o)] = more[i]
      BY <1>1, <1>3, <3>1
    <3> QED
      BY <3>1, <3>2 DEF Members
  <2> QED
    BY <2>1, <2>2, <2>3 DEF Members
<1>6. ASSUME Single(o), Distinct(more), Members(o) \cap Members(more) = {} PROVE Single(m)
  <2>1. SUFFICES ASSUME NEW i \in DOMAIN m, NEW j \in DOMAIN m, m[i] = m[j], m[i] # None PROVE i = j
    BY DEF Single
  <2>2. CASE i <= Len(o) /\ j <= Len(o)
    BY <1>4, <1>6, <2>1, <2>2 DEF Single
  <2>3. CASE ~(i <= Len(o)) /\ ~(j <= Len(o))
    <3>1. i - Len(o) = j - Len(o)
      BY <1>4, <1>6, <2>1, <2>3 DEF Distinct
    <3> QED
      BY <1>2, <1>3, <3>1
  <2>4. CASE i <= Len(o) /\ ~(j <= Len(o))
    <3>1. m[i] \in Members(o) /\ m[j] \in Members(more)
      BY <1>4, <2>4 DEF Members
    <3> QED
      BY <1>6, <2>1, <3>1
  <2>5. CASE ~(i <= Len(o)) /\ j <= Len(o)
    <3>1. m[j] \in Members(o) /\ m[i] \in Members(more)
      BY <1>4, <2>5 DEF Members
    <3> QED
      BY <1>6, <2>1, <3>1
  <2> QED
    BY <2>2, <2>3, <2>4, <2>5
<1> QED
  BY <1>1, <1>5, <1>6 DEF m

LEMMA MergeProperties ==
  ASSUME NEW s \in Seq(Entries), NEW more \in Seq(Items), None \notin Items
  PROVE  /\ Merge(s, more) \in Seq(Entries) /\ Members(Merge(s, more)) = (Members(s) \cap Items) \cup Members(more)
         /\ Single(s) /\ Distinct(more) /\ Members(s) \cap Members(more) = {} => Single(Merge(s, more))
         /\ None \notin Members(s) => Merge(s, more) = s \o more
<1> DEFINE o == Only(s, Items)
<1>1. o \in Seq(Entries) /\ more \in Seq(Entries)
  <2>1. o \in Seq(Entries \cap Items)
    BY OnlyProperties
  <2> QED
    BY <2>1, SeqOfLarger, Entries \cap Items \subseteq Entries, Items \subseteq Entries DEF Entries
<1>2. Members(o) = Members(s) \cap Items
  BY OnlyOrder
<1>3. Single(s) => Single(o)
  BY OnlySingle
<1>4. None \notin Members(s) => o = s
  <2>1. Members(s) \subseteq Entries
    BY ElementOfSeq DEF Members
  <2>2. None \notin Members(s) => Members(s) \subseteq Items
    BY <2>1 DEF Entries
  <2> QED
    BY <2>2, OnlyAll
<1> HIDE DEF o
<1>5. /\ o \o more \in Seq(Entries) /\ Members(o \o more) = Members(o) \cup Members(more)
      /\ Single(o) /\ Distinct(more) /\ Members(o) \cap Members(more) = {} => Single(o \o more)
  BY <1>1, JoinProperties
<1>6. Merge(s, more) = o \o more
  BY DEF Merge, o
<1>7. Members(s) \cap Members(more) = {} => Members(o) \cap Members(more) = {}
  BY <1>2
<1> QED
  BY <1>2, <1>3, <1>4, <1>5, <1>6, <1>7

LEMMA MoveProperties ==
  ASSUME NEW s \in Seq(Entries), NEW a \in Int, NEW b \in Nat \ {0}, reverse \in BOOLEAN
  PROVE  /\ Move(s, a, b) \in Seq(Entries) /\ Members(Move(s, a, b)) \subseteq Members(s) \cup {None}
         /\ Single(s) => Single(Move(s, a, b))
         /\ None \notin Members(s) /\ b <= Len(s) =>
              Move(s, a, b) = LET c == Turned(s)
                                  rest == IF a \in DOMAIN c THEN Seqs!RemoveAt(c, a) ELSE c
                              IN Turned(Seqs!InsertAt(rest, b, IF a \in DOMAIN c THEN c[a] ELSE None))
<1> DEFINE c == Turned(Copy(s))
           pad == [n \in 1 .. b - Len(c) |-> None]
           padded == c \o pad
           e == IF a \in DOMAIN padded THEN padded[a] ELSE None
           rest == IF a \in DOMAIN padded THEN Seqs!RemoveAt(padded, a) ELSE padded
           moved == Seqs!InsertAt(rest, b, e)
<1>1. c \in Seq(Entries) /\ Members(c) \subseteq Members(s) /\ (Single(s) => Single(c))
  BY CopyMembers, TurnedProperties
<1>2. Move(s, a, b) = Turned(moved)
  BY DEF Move
<1>3. ASSUME None \notin Members(s) PROVE c = Turned(s) /\ Len(c) = Len(s)
  BY <1>3, CopyProperties, TurnedProperties
<1> HIDE DEF c
<1>4. Len(c) \in Nat /\ DOMAIN c = 1 .. Len(c)
  BY <1>1
<1>5. /\ pad \in Seq(Entries) /\ \A n \in 1 .. Len(pad) : pad[n] = None
      /\ Len(pad) = IF Len(c) < b THEN b - Len(c) ELSE 0
  <2>1. CASE Len(c) < b
    <3>1. b - Len(c) \in Nat
      BY <1>4, <2>1
    <3>2. pad \in [1 .. b - Len(c) -> Entries]
      BY DEF Entries
    <3>3. \A n \in 1 .. b - Len(c) : pad[n] = None
      OBVIOUS
    <3> HIDE DEF pad
    <3>4. pad \in Seq(Entries) /\ Len(pad) = b - Len(c)
      BY <3>1, <3>2
    <3> QED
      BY <2>1, <3>3, <3>4
  <2>2. CASE ~(Len(c) < b)
    <3>1. 1 .. b - Len(c) = 1 .. 0
      BY <1>4, <2>2
    <3>2. pad = [n \in 1 .. 0 |-> None]
      BY <3>1
    <3>3. [n \in 1 .. 0 |-> None] \in [1 .. 0 -> Entries]
      OBVIOUS
    <3>4. [n \in 1 .. 0 |-> None] \in Seq(Entries) /\ Len([n \in 1 .. 0 |-> None]) = 0
      BY <3>3
    <3> HIDE DEF pad
    <3>5. pad \in Seq(Entries) /\ Len(pad) = 0
      BY <3>2, <3>4
    <3> QED
      BY <2>2, <3>5
  <2> QED
    BY <2>1, <2>2
<1> HIDE DEF pad
<1>6. /\ padded \in Seq(Entries) /\ Len(padded) = Len(c) + Len(pad)
      /\ \A i \in 1 .. Len(c) + Len(pad) : padded[i] = IF i <= Len(c) THEN c[i] ELSE pad[i - Len(c)]
  BY <1>1, <1>5, ConcatProperties
<1>7. ASSUME None \notin Members(s), b <= Len(s) PROVE padded = Turned(s)
  <2>1. Len(pad) = 0
    <3>1. Len(s) \in Nat /\ Len(c) = Len(s)
      BY <1>3, <1>7
    <3>2. ~(Len(c) < b)
      BY <1>7, <3>1
    <3> QED
      BY <1>5, <3>2
  <2>2. pad = <<>>
    BY <1>5, <2>1, EmptySeq
  <2> QED
    BY <1>1, <1>3, <1>7, <2>2, ConcatEmptySeq
<1> HIDE DEF padded
<1>8. /\ b <= Len(padded) /\ Len(padded) \in Nat /\ DOMAIN padded = 1 .. Len(padded)
      /\ \A i \in DOMAIN padded : (i \in DOMAIN c /\ padded[i] = c[i]) \/ padded[i] = None
  <2>1. Len(pad) \in Nat
    BY <1>5
  <2>2. b <= Len(padded) /\ Len(padded) \in Nat
    BY <1>4, <1>5, <1>6, <2>1
  <2>3. DOMAIN padded = 1 .. Len(c) + Len(pad)
    BY <1>4, <1>6, <2>1
  <2>4. ASSUME NEW i \in DOMAIN padded PROVE (i \in DOMAIN c /\ padded[i] = c[i]) \/ padded[i] = None
    <3>1. CASE i <= Len(c)
      BY <1>4, <1>6, <2>3, <3>1
    <3>2. CASE ~(i <= Len(c))
      <4>1. i - Len(c) \in 1 .. Len(pad)
        BY <1>4, <2>1, <2>3, <3>2
      <4> QED
        BY <1>5, <1>6, <2>3, <3>2, <4>1
    <3> QED
      BY <3>1, <3>2
  <2> QED
    BY <1>6, <2>2, <2>3, <2>4
<1>9. Members(padded) \subseteq Members(c) \cup {None} /\ (Single(c) => Single(padded))
  BY <1>8 DEF Members, Single
<1>10. e \in Entries /\ e \in Members(padded) \cup {None}
  BY <1>6, <1>8 DEF Entries, Members
<1>11. /\ rest \in Seq(Entries) /\ Members(rest) \subseteq Members(padded) /\ b \in 1 .. Len(rest) + 1
       /\ Single(padded) => Single(rest) /\ (e = None \/ e \notin Members(rest))
  <2>1. CASE a \in DOMAIN padded
    <3>1. a \in 1 .. Len(padded) /\ e = padded[a] /\ rest = Seqs!RemoveAt(padded, a)
      BY <1>8, <2>1
    <3>2. Len(rest) = Len(padded) - 1
      BY <1>6, <3>1, RemoveAtProperties
    <3> HIDE DEF rest, e
    <3>3. /\ rest \in Seq(Entries) /\ Members(rest) \subseteq Members(padded)
          /\ Single(padded) => Single(rest) /\ (e = None \/ e \notin Members(rest))
      BY <1>6, <3>1, RemoveMembers
    <3>4. b \in 1 .. Len(rest) + 1
      BY <1>8, <3>2
    <3> QED
      BY <3>3, <3>4
  <2>2. CASE a \notin DOMAIN padded
    BY <1>6, <1>8, <2>2
  <2> QED
    BY <2>1, <2>2
<1> HIDE DEF rest, e
<1>12. moved \in Seq(Entries) /\ Members(moved) = Members(rest) \cup {e} /\ (Single(padded) => Single(moved))
  BY <1>10, <1>11, InsertAtProperties, InsertOrder, InsertSingle
<1> HIDE DEF moved
<1>13. /\ Turned(moved) \in Seq(Entries) /\ Members(Turned(moved)) = Members(moved)
       /\ Single(moved) => Single(Turned(moved))
  BY <1>12, TurnedProperties
<1>14. Move(s, a, b) \in Seq(Entries) /\ Members(Move(s, a, b)) \subseteq Members(s) \cup {None}
  BY <1>1, <1>2, <1>9, <1>10, <1>11, <1>12, <1>13
<1>15. Single(s) => Single(Move(s, a, b))
  BY <1>1, <1>2, <1>9, <1>12, <1>13
<1>16. None \notin Members(s) /\ b <= Len(s) =>
         Move(s, a, b) = Turned(Seqs!InsertAt(IF a \in DOMAIN Turned(s) THEN Seqs!RemoveAt(Turned(s), a) ELSE Turned(s),
                                              b, IF a \in DOMAIN Turned(s) THEN Turned(s)[a] ELSE None))
  BY <1>2, <1>7 DEF moved, rest, e
<1> QED
  BY <1>14, <1>15, <1>16

-----------------------------------------------------------------------------
(* What holds whatever has happened. *)

InitialElements == {f \in Elements : Initial(f)}

\* An upload that is under way was clicked, and will build one more page.
GenInv == gen > 0 /\ gen + (IF sending = None THEN 0 ELSE 1) <= clicks + 1

\* No thumbnail is on the page twice, and those of stored files, with the one that is
\* dragged, are of the present page.
PageInv ==
  /\ Distinct(page)
  /\ \A f \in InitialElements : f.gen = gen /\ f.item \in stored
  /\ \A f \in fading : f.item \in stored
  /\ \A f \in leaving : Initial(f)
  /\ \A f \in Frames : asked[f] > 0 => Initial(f) /\ f.item \in stored
  /\ drag # None => drag.frame.gen = gen /\ drag.frame.item \in stored

\* A list of stored files.
Lists(s) == Single(s) /\ Members(s) \subseteq stored \cup {None}

ListInv == Lists(initialPreview) /\ (content # None => Lists(content)) /\ deleted \subseteq stored

\* What is sent is not stored yet, each file once, and a file that is sent alone
\* has its thumbnail; nothing is sent after an exception.
SendingInv ==
  /\ sending # None =>
       /\ Distinct(sending.files) /\ sending.files # <<>> /\ Members(sending.files) \cap stored = {}
       /\ sending.one => Len(sending.files) = 1 /\ [item |-> sending.files[1], gen |-> 0] \in Elements \ fading
       /\ "threw" \notin events
  /\ "threw" \notin events => \A f \in Elements \ fading : ~Initial(f) => f.item \notin stored

BaseInv == TypeOK /\ GenInv /\ PageInv /\ ListInv /\ SendingInv

LEMMA Constants ==
  /\ None \notin Items /\ None \notin Seq(Entries) /\ Items \subseteq Nat
  /\ Loaded \in Seq(Items) /\ Distinct(Loaded) /\ Members(Loaded) = Items \ New /\ MaxClicks \in Nat
<1>1. /\ Loaded \in Seq(Nat) /\ Seqs!IsInjective(Loaded) /\ New \subseteq Nat /\ None \notin Nat
      /\ New \cap {Loaded[n] : n \in DOMAIN Loaded} = {} /\ None \notin Seq(Nat \cup {None})
  BY ItemsAssumption
<1>2. \A n \in DOMAIN Loaded : Loaded[n] \in Nat
  BY <1>1
<1>3. Items \subseteq Nat /\ None \notin Items
  BY <1>1, <1>2 DEF Items
<1>4. Entries \subseteq Nat \cup {None}
  BY <1>3 DEF Entries
<1>5. None \notin Seq(Entries)
  BY <1>1, <1>4, SeqOfLarger
<1>6. Loaded \in Seq(Items)
  <2>1. \A n \in 1 .. Len(Loaded) : Loaded[n] \in Items
    BY <1>1 DEF Items
  <2> QED
    BY <1>1, <2>1
<1>7. Distinct(Loaded)
  BY <1>1 DEF Seqs!IsInjective, Distinct
<1>8. Members(Loaded) = Items \ New
  BY <1>1 DEF Members, Items
<1> QED
  BY <1>3, <1>5, <1>6, <1>7, <1>8, MaxClicksAssumption

LEMMA FrameFields ==
  /\ \A f \in Frames : f.item \in Items /\ f.gen \in Nat /\ f.gen <= MaxClicks + 1
                       /\ f = [item |-> f.item, gen |-> f.gen]
  /\ \A x \in Items, k \in 0 .. MaxClicks + 1 : [item |-> x, gen |-> k] \in Frames
BY Constants DEF Frames

LEMMA PageFacts ==
  ASSUME BaseInv
  PROVE  /\ page \in Seq(Frames) /\ Elements = Members(page) /\ Elements \subseteq Frames
         /\ InitialElements \subseteq Frames /\ gen \in Nat /\ gen > 0 /\ gen <= MaxClicks + 1
<1>1. page \in Seq(Frames) /\ gen \in 0 .. MaxClicks + 1 /\ gen > 0
  BY DEF BaseInv, TypeOK, GenInv
<1>2. Elements = Members(page)
  BY DEF Elements, Members
<1>3. Elements \subseteq Frames
  BY <1>1 DEF Elements
<1> QED
  BY <1>1, <1>2, <1>3 DEF InitialElements

\* The place of a thumbnail among those that can be dragged.
LEMMA IndexProperties ==
  ASSUME BaseInv, NEW x \in Elements
  PROVE  /\ Index(x) \in Nat \ {0}
         /\ boxed = {} /\ Initial(x) =>
              Index(x) \in DOMAIN Only(page, InitialElements) /\ Only(page, InitialElements)[Index(x)] = x
<1> DEFINE place == CHOOSE m \in DOMAIN page : page[m] = x
           front == {n \in DOMAIN page : Draggable(page[n]) /\ n < place}
<1>1. page \in Seq(Frames) /\ DOMAIN page = 1 .. Len(page) /\ Len(page) \in Nat
  BY PageFacts
<1>2. place \in DOMAIN page /\ page[place] = x
  BY DEF Elements
<1>3. IsFiniteSet(front) /\ Cardinality(front) \in Nat
  <2>1. front \subseteq 1 .. Len(page)
    BY <1>1
  <2> HIDE DEF front
  <2>2. IsFiniteSet(1 .. Len(page))
    BY <1>1, UpToSize
  <2> QED
    BY <2>1, <2>2, FS_Subset, FS_CardinalityType
<1>4. Index(x) = 1 + Cardinality(front)
  BY DEF Index
<1>5. ASSUME boxed = {}, Initial(x)
      PROVE  Index(x) \in DOMAIN Only(page, InitialElements) /\ Only(page, InitialElements)[Index(x)] = x
  <2>1. x \in InitialElements
    BY <1>5 DEF InitialElements
  <2>2. \A n \in DOMAIN page : Draggable(page[n]) <=> page[n] \in InitialElements
    BY <1>5 DEF Draggable, InitialElements, Initial, Elements
  <2> HIDE DEF place
  <2>3. front = {n \in DOMAIN page : page[n] \in InitialElements /\ n < place}
    BY <2>2
  <2>4. LET n == 1 + Cardinality({j \in DOMAIN page : page[j] \in InitialElements /\ j < place})
        IN  n \in DOMAIN Only(page, InitialElements) /\ Only(page, InitialElements)[n] = page[place]
    BY <1>1, <1>2, <2>1, OnlyRank, ZenonT(40)
  <2> QED
    BY <1>2, <1>4, <2>3, <2>4
<1> HIDE DEF front
<1> QED
  BY <1>3, <1>4, <1>5

LEMMA InitBase == Init => BaseInv
<1> SUFFICES ASSUME Init PROVE BaseInv
  OBVIOUS
<1> DEFINE list == [n \in DOMAIN Loaded |-> [item |-> Loaded[n], gen |-> 1]]
<1>1. /\ reverse \in BOOLEAN /\ initialPreview = Loaded /\ content = Loaded /\ gen = 1 /\ page = Turned(list)
      /\ boxed = {} /\ drag = None /\ sending = None /\ asked = [f \in Frames |-> 0] /\ fading = {}
      /\ fileIds = {Loaded[n] : n \in DOMAIN Loaded} /\ stored = fileIds /\ deleted = {} /\ events = {} /\ clicks = 0
      /\ local = FALSE /\ leaving = {} /\ hidden = {}
  BY DEF Init
<1>2. DOMAIN Loaded = 1 .. Len(Loaded) /\ Len(Loaded) \in Nat /\ \A n \in DOMAIN Loaded : Loaded[n] \in Items
  BY Constants
<1>3. \A n \in DOMAIN Loaded : list[n] \in Frames
  BY <1>2, FrameFields, Constants
<1>4. list \in Seq(Frames) /\ Len(list) = Len(Loaded) /\ DOMAIN list = DOMAIN Loaded
  BY <1>2, <1>3
<1>5. Distinct(list)
  BY Constants DEF Distinct
<1>6. Members(list) \subseteq {[item |-> x, gen |-> 1] : x \in Members(Loaded)}
  BY DEF Members
<1> HIDE DEF list
<1>7. page \in Seq(Frames) /\ Distinct(page) /\ Elements \subseteq {[item |-> x, gen |-> 1] : x \in Members(Loaded)}
  <2>1. Elements = Members(page)
    BY DEF Elements, Members
  <2> QED
    BY <1>1, <1>4, <1>5, <1>6, <2>1, TurnedProperties
<1>8. index \in [Frames -> Int]
  <2>1. \A f \in Frames : (\E n \in DOMAIN Loaded : Loaded[n] = f.item) =>
          (CHOOSE n \in DOMAIN Loaded : Loaded[n] = f.item) \in Int
    BY <1>2
  <2>2. index = [f \in Frames |-> IF f.gen = 1 /\ \E n \in DOMAIN Loaded : Loaded[n] = f.item
                               THEN CHOOSE n \in DOMAIN Loaded : Loaded[n] = f.item ELSE 0]
    BY DEF Init
  <2> QED
    BY <2>1, <2>2
<1>9. Loaded \in Seq(Entries) /\ Members(Loaded) \subseteq Items /\ stored = Members(Loaded) /\ Single(Loaded)
  <2>1. Loaded \in Seq(Entries)
    BY Constants, SeqOfLarger, Items \subseteq Entries DEF Entries
  <2> QED
    BY <1>1, <2>1, Constants DEF Members, Single, Distinct
<1>10. TypeOK
  <2>1. /\ initialPreview \in Seq(Items \cup {None}) /\ content \in Seq(Items \cup {None})
        /\ gen \in 0 .. MaxClicks + 1 /\ clicks \in 0 .. MaxClicks
    BY <1>1, <1>9, Constants DEF Entries
  <2>2. asked \in [Frames -> Nat] /\ fileIds \subseteq Items /\ stored \subseteq Items /\ fading \subseteq Frames
    BY <1>1, <1>9 DEF Members
  <2> QED
    BY <1>1, <1>7, <1>8, <2>1, <2>2 DEF TypeOK
<1>11. GenInv /\ ListInv
  BY <1>1, <1>9 DEF GenInv, ListInv, Lists
<1>12. \A f \in Elements : f.gen = 1 /\ f.item \in stored
  BY <1>7, <1>9
<1>13. PageInv /\ SendingInv
  BY <1>1, <1>7, <1>12 DEF PageInv, SendingInv, InitialElements, Initial
<1> QED
  BY <1>10, <1>11, <1>13 DEF BaseInv

-----------------------------------------------------------------------------
(* Every step keeps it. *)

\* A page built anew has a thumbnail for each defined entry, in the order of the list.
LEMMA BuiltProperties ==
  ASSUME BaseInv, NEW c \in Seq(Entries), Single(c), gen + 1 <= MaxClicks + 1
  PROVE  /\ Built(c) \in Seq(Frames) /\ Distinct(Built(c))
         /\ Members(Built(c)) = {[item |-> x, gen |-> gen + 1] : x \in Members(c) \cap Items}
         /\ None \notin Members(c) =>
              /\ DOMAIN Built(c) = DOMAIN c
              /\ \A n \in DOMAIN c : Built(c)[n] = [item |-> IF reverse THEN c[Len(c) + 1 - n] ELSE c[n], gen |-> gen + 1]
<1> DEFINE entries == Only(c, Items)
           list == [n \in DOMAIN entries |-> [item |-> entries[n], gen |-> gen + 1]]
<1>1. gen + 1 \in 0 .. MaxClicks + 1 /\ reverse \in BOOLEAN
  BY PageFacts, Constants DEF BaseInv, TypeOK
<1>2. entries \in Seq(Entries \cap Items) /\ Members(entries) = Members(c) \cap Items /\ Single(entries)
  BY OnlyProperties, OnlyOrder, OnlySingle
<1>3. None \notin Members(c) => entries = c
  <2>1. Members(c) \subseteq Entries
    BY ElementOfSeq DEF Members
  <2>2. None \notin Members(c) => Members(c) \subseteq Items
    BY <2>1 DEF Entries
  <2> QED
    BY <2>2, OnlyAll
<1> HIDE DEF entries
<1>4. DOMAIN entries = 1 .. Len(entries) /\ Len(entries) \in Nat /\ \A n \in DOMAIN entries : entries[n] \in Items
  BY <1>2
<1>5. \A n \in DOMAIN entries : list[n] \in Frames
  BY <1>1, <1>4, FrameFields
<1>6. list \in Seq(Frames) /\ DOMAIN list = DOMAIN entries /\ Len(list) = Len(entries)
  BY <1>4, <1>5
<1>7. Distinct(list)
  <2>1. SUFFICES ASSUME NEW i \in DOMAIN entries, NEW j \in DOMAIN entries, list[i] = list[j] PROVE i = j
    BY DEF Distinct
  <2>2. entries[i] = list[i].item /\ entries[j] = list[j].item
    OBVIOUS
  <2>3. entries[i] = entries[j]
    BY <2>1, <2>2
  <2>4. entries[i] # None
    BY <1>4, Constants
  <2> QED
    BY <1>2, <2>3, <2>4 DEF Single
<1>8. Members(list) = {[item |-> x, gen |-> gen + 1] : x \in Members(entries)}
  BY DEF Members
<1>9. \A n \in DOMAIN entries : list[n] = [item |-> entries[n], gen |-> gen + 1]
  OBVIOUS
<1>10. Built(c) = Turned(list)
  BY DEF Built, entries
<1> HIDE DEF list
<1>11. /\ Turned(list) \in Seq(Frames) /\ Distinct(Turned(list)) /\ Members(Turned(list)) = Members(list)
       /\ DOMAIN Turned(list) = DOMAIN list
       /\ \A n \in DOMAIN list : Turned(list)[n] = IF reverse THEN list[Len(list) + 1 - n] ELSE list[n]
  BY <1>1, <1>6, <1>7, TurnedProperties
<1>12. \A n \in DOMAIN entries : Len(entries) + 1 - n \in DOMAIN entries
  BY <1>4
<1> QED
  BY <1>2, <1>3, <1>6, <1>8, <1>9, <1>10, <1>11, <1>12

\* What a page that is built anew leaves true.
LEMMA RebuildBase ==
  ASSUME BaseInv, NEW c \in Seq(Entries), Rebuild(c), gen + 1 <= MaxClicks + 1,
         Single(c), Members(c) \subseteq stored' \cup {None}, stored \subseteq stored',
         drag = None \/ Members(c) \cap Items # {}, asked' = asked, fading' = fading, leaving' = leaving
  PROVE  /\ page' \in Seq(Frames) /\ Elements' = Members(Built(c)) /\ boxed' = {} /\ drag' = None
         /\ index' \in [Frames -> Int] /\ gen' = gen + 1 /\ gen' \in 0 .. MaxClicks + 1 /\ gen' > 0
         /\ PageInv' /\ \A f \in Elements' : Initial(f)
         /\ local' = FALSE /\ hidden' = {}
<1>1. page' = Built(c) /\ boxed' = {} /\ gen' = gen + 1 /\ drag' = IF Built(c) = <<>> THEN drag ELSE None
  BY DEF Rebuild
<1>2. /\ Built(c) \in Seq(Frames) /\ Distinct(Built(c))
      /\ Members(Built(c)) = {[item |-> x, gen |-> gen + 1] : x \in Members(c) \cap Items}
  BY BuiltProperties
<1>3. gen \in Nat /\ gen > 0 /\ MaxClicks \in Nat
  BY PageFacts, Constants
<1>4. gen' \in 0 .. MaxClicks + 1 /\ gen' > 0
  BY <1>1, <1>3
<1>5. Elements' = Members(Built(c))
  BY <1>1 DEF Elements, Members
<1>6. drag' = None
  <2>1. ASSUME Members(c) \cap Items # {} PROVE Built(c) # <<>>
    <3>1. Members(Built(c)) # {}
      BY <1>2, <2>1
    <3>2. Members(<<>>) = {}
      BY DEF Members
    <3> QED
      BY <3>1, <3>2
  <2> QED
    BY <1>1, <2>1
<1>7. index' \in [Frames -> Int]
  <2>1. DOMAIN c = 1 .. Len(c) /\ index \in [Frames -> Int]
    BY DEF BaseInv, TypeOK
  <2>2. \A f \in Frames : (\E n \in DOMAIN c : c[n] = f.item) => (CHOOSE n \in DOMAIN c : c[n] = f.item) \in Int
    BY <2>1
  <2>3. index' = [f \in Frames |->
                 IF f.gen = gen + 1 /\ \E n \in DOMAIN c : c[n] = f.item
                 THEN CHOOSE n \in DOMAIN c : c[n] = f.item ELSE index[f]]
    BY DEF Rebuild
  <2>4. \A f \in Frames : (IF f.gen = gen + 1 /\ \E n \in DOMAIN c : c[n] = f.item
                 THEN CHOOSE n \in DOMAIN c : c[n] = f.item ELSE index[f]) \in Int
    BY <2>1, <2>2
  <2> HIDE DEF Rebuild
  <2> QED
    BY <2>3, <2>4
<1>8. \A f \in Elements' : f.gen = gen' /\ f.item \in stored' /\ Initial(f)
  <2>1. SUFFICES ASSUME NEW f \in Elements' PROVE f.gen = gen' /\ f.item \in stored' /\ Initial(f)
    OBVIOUS
  <2>2. PICK x \in Members(c) \cap Items : f = [item |-> x, gen |-> gen + 1]
    BY <1>2, <1>5
  <2>3. f.gen = gen' /\ f.item = x /\ x \in stored'
    BY <1>1, <2>2, Constants
  <2> QED
    BY <1>4, <2>3 DEF Initial
<1>9. PageInv'
  <2>1. Distinct(page')
    BY <1>1, <1>2
  <2>2. \A f \in InitialElements' : f.gen = gen' /\ f.item \in stored'
    BY <1>8 DEF InitialElements
  <2>3. /\ \A f \in fading' : f.item \in stored'
        /\ \A f \in leaving' : Initial(f)
        /\ \A f \in Frames : asked'[f] > 0 => Initial(f) /\ f.item \in stored'
    BY DEF BaseInv, PageInv
  <2> QED
    BY <1>6, <2>1, <2>2, <2>3 DEF PageInv, Initial
<1>10. local' = FALSE /\ hidden' = {}
  BY DEF Rebuild
<1> QED
  BY <1>1, <1>2, <1>4, <1>5, <1>6, <1>7, <1>8, <1>9, <1>10

\* The thumbnails chosen.
LEMMA ChosenProperties ==
  ASSUME BaseInv
  PROVE  /\ Chosen \in Seq(Frames) /\ Distinct(Chosen) /\ Members(Chosen) = {f \in Elements : ~Initial(f)} \ fading
         /\ \A n \in DOMAIN Chosen : Chosen[n] = [item |-> Chosen[n].item, gen |-> 0] /\ Chosen[n].item \in Items
                                     /\ Chosen[n] \in Elements \ fading
<1> DEFINE S == {f \in Elements : ~Initial(f)} \ fading
<1>1. page \in Seq(Frames) /\ Elements = Members(page) /\ Distinct(page) /\ Elements \subseteq Frames
  BY PageFacts DEF BaseInv, PageInv
<1>2. Chosen = Only(page, S)
  BY DEF Chosen
<1>3. Chosen \in Seq(Frames \cap S) /\ Members(Chosen) = Members(page) \cap S /\ Distinct(Chosen)
  <2> HIDE DEF S
  <2> QED
    BY <1>1, <1>2, OnlyProperties, OnlyOrder
<1>4. Chosen \in Seq(Frames) /\ Members(Chosen) = S
  <2>1. Frames \cap S \subseteq Frames /\ Members(page) \cap S = S
    BY <1>1
  <2> HIDE DEF S
  <2> QED
    BY <1>3, <2>1, SeqOfLarger
<1>5. \A n \in DOMAIN Chosen : Chosen[n] \in S
  BY <1>4 DEF Members
<1>6. \A f \in S : f = [item |-> f.item, gen |-> 0] /\ f.item \in Items /\ f \in Elements \ fading
  <2>1. SUFFICES ASSUME NEW f \in S PROVE f = [item |-> f.item, gen |-> 0] /\ f.item \in Items
    OBVIOUS
  <2>2. f \in Frames /\ ~(f.gen > 0)
    BY <1>1 DEF Initial
  <2>3. f.item \in Items /\ f.gen \in Nat /\ f = [item |-> f.item, gen |-> f.gen]
    BY <2>2, FrameFields
  <2>4. f.gen = 0
    BY <2>2, <2>3
  <2> QED
    BY <2>3, <2>4
<1> QED
  BY <1>3, <1>4, <1>5, <1>6

LEMMA ChooseBase ==
  ASSUME BaseInv, NEW x \in New, Choose(x)
  PROVE  BaseInv'
<1> DEFINE shown == IF Count = 0 /\ Chosen = <<>> THEN Only(page, fading) ELSE page
           new == [item |-> x, gen |-> 0]
<1>1. /\ clicks < MaxClicks /\ clicks' = clicks + 1 /\ sending = None /\ x \notin stored /\ new \notin Elements
      /\ page' = IF reverse THEN <<new>> \o shown ELSE Append(shown, new)
      /\ drag' = Renewed(page', boxed)
      /\ UNCHANGED <<reverse, boxed, initialPreview, content, index, sending, asked, fading, fileIds, gen, stored, deleted>>
      /\ UNCHANGED <<leaving, hidden>> /\ local' = TRUE
      /\ "threw" \notin events
  BY DEF Choose, lists, Click
<1>2. page \in Seq(Frames) /\ Elements = Members(page) /\ Distinct(page)
  BY PageFacts DEF BaseInv, PageInv
<1>3. new \in Frames
  BY FrameFields, Constants DEF Items
<1>4. shown \in Seq(Frames) /\ Distinct(shown) /\ Members(shown) \subseteq Elements
  <2>1. Only(page, fading) \in Seq(Frames \cap fading) /\ Members(Only(page, fading)) \subseteq Members(page)
        /\ Distinct(Only(page, fading))
    BY <1>2, OnlyProperties, OnlyOrder
  <2>2. Only(page, fading) \in Seq(Frames)
    BY <2>1, SeqOfLarger, Frames \cap fading \subseteq Frames
  <2> QED
    BY <1>2, <2>1, <2>2
<1> HIDE DEF shown
<1>5. page' \in Seq(Frames) /\ Members(page') = Members(shown) \cup {new} /\ Distinct(page')
  <2> HIDE DEF new
  <2>1. new \notin Members(shown)
    BY <1>1, <1>4
  <2>2. CASE reverse
    BY <1>1, <1>3, <1>4, <2>1, <2>2, FrontOrder
  <2>3. CASE ~reverse
    BY <1>1, <1>3, <1>4, <2>1, <2>3, AppendOrder
  <2> QED
    BY <2>2, <2>3
<1>6. Elements' = Members(page') /\ Elements' \subseteq Elements \cup {new}
  BY <1>4, <1>5 DEF Elements, Members
<1>7. drag' = drag \/ drag' = None
  BY <1>1 DEF Renewed
<1>8. ~Initial(new) /\ new.item = x
  BY DEF Initial
<1> HIDE DEF new
<1>9. TypeOK'
  <2>1. clicks' \in 0 .. MaxClicks
    BY <1>1, Constants DEF BaseInv, TypeOK
  <2> QED
    BY <1>1, <1>5, <1>7, <2>1 DEF BaseInv, TypeOK
<1>10. GenInv'
  BY <1>1, Constants DEF BaseInv, GenInv, TypeOK
<1>11. PageInv'
  <2>1. InitialElements' \subseteq InitialElements
    BY <1>6, <1>8 DEF InitialElements, Initial
  <2> QED
    BY <1>1, <1>5, <1>7, <2>1 DEF BaseInv, PageInv, Initial
<1>12. ListInv'
  BY <1>1 DEF BaseInv, ListInv, Lists
<1>13. SendingInv'
  BY <1>1, <1>6, <1>8 DEF BaseInv, SendingInv, Initial
<1> QED
  BY <1>9, <1>10, <1>11, <1>12, <1>13 DEF BaseInv

\* A step that leaves the page and the lists alone.
LEMMA StillBase ==
  ASSUME BaseInv, UNCHANGED <<reverse, page, boxed, initialPreview, content, index, fileIds, gen, stored, deleted>>,
         drag' = drag \/ drag' = None, sending' = sending \/ sending' = None, clicks' = clicks, events' = events,
         fading \subseteq fading', fading' \subseteq Frames, UNCHANGED <<local, leaving, hidden>>,
         \A f \in fading' \ fading : Initial(f) /\ f.item \in stored,
         asked' \in [Frames -> Nat], \A f \in Frames : asked'[f] > 0 => Initial(f) /\ f.item \in stored
  PROVE  BaseInv'
<1>1. Elements' = Elements /\ InitialElements' = InitialElements
  BY DEF Elements, InitialElements, Initial
<1>2. TypeOK'
  BY DEF BaseInv, TypeOK
<1>3. GenInv'
  <2>1. gen \in Nat /\ clicks \in Nat
    BY Constants DEF BaseInv, TypeOK
  <2> QED
    BY <2>1 DEF BaseInv, GenInv
<1>4. PageInv'
  BY <1>1 DEF BaseInv, PageInv, Initial
<1>5. ListInv'
  BY DEF BaseInv, ListInv, Lists
<1>6. SendingInv'
  <2>1. \A f \in fading' \ fading : Initial(f)
    OBVIOUS
  <2>2. \A x : ~Initial([item |-> x, gen |-> 0])
    BY DEF Initial
  <2>3. \A f : Initial(f) <=> Initial(f)'
    BY DEF Initial
  <2>4. sending' # None =>
       /\ Distinct(sending'.files) /\ sending'.files # <<>> /\ Members(sending'.files) \cap stored' = {}
       /\ sending'.one => Len(sending'.files) = 1 /\ [item |-> sending'.files[1], gen |-> 0] \in Elements' \ fading'
       /\ "threw" \notin events'
    BY <1>1, <2>1, <2>2 DEF BaseInv, SendingInv
  <2>5. "threw" \notin events' => \A f \in Elements' \ fading' : ~Initial(f) => f.item \notin stored'
    BY <1>1 DEF BaseInv, SendingInv
  <2> QED
    BY <2>3, <2>4, <2>5 DEF SendingInv
<1> QED
  BY <1>2, <1>3, <1>4, <1>5, <1>6 DEF BaseInv

LEMMA AskDeleteBase ==
  ASSUME BaseInv, NEW f \in Frames, AskDelete(f)
  PROVE  BaseInv'
<1>1. /\ clicks < MaxClicks /\ clicks' = clicks + 1 /\ f \in Elements /\ Draggable(f)
      /\ asked' = [asked EXCEPT ![f] = @ + 1]
      /\ UNCHANGED <<reverse, page, boxed, drag, initialPreview, content, index, sending, fading, fileIds,
                     local, leaving, hidden, gen, stored, deleted, events>>
  BY DEF AskDelete, lists, buttons, Click
<1>2. Initial(f) /\ f.item \in stored
  BY <1>1 DEF BaseInv, PageInv, InitialElements, Draggable, Initial
<1>3. asked \in [Frames -> Nat] /\ clicks \in Nat /\ gen \in Nat /\ clicks' \in 0 .. MaxClicks
  BY <1>1, Constants DEF BaseInv, TypeOK
<1>4. asked' \in [Frames -> Nat] /\ \A g \in Frames : asked'[g] > 0 => Initial(g) /\ g.item \in stored
  <2>1. asked' \in [Frames -> Nat] /\ \A g \in Frames : g # f => asked'[g] = asked[g]
    BY <1>1, <1>3
  <2> QED
    BY <1>2, <2>1 DEF BaseInv, PageInv
<1>5. Elements' = Elements /\ InitialElements' = InitialElements
  BY <1>1 DEF Elements, InitialElements, Initial
<1>6. TypeOK'
  BY <1>1, <1>3, <1>4 DEF BaseInv, TypeOK
<1>7. GenInv'
  BY <1>1, <1>3 DEF BaseInv, GenInv
<1>8. PageInv'
  BY <1>1, <1>4, <1>5 DEF BaseInv, PageInv, Initial
<1>9. ListInv' /\ SendingInv'
  BY <1>1, <1>5 DEF BaseInv, ListInv, Lists, SendingInv, Initial
<1> QED
  BY <1>6, <1>7, <1>8, <1>9 DEF BaseInv

LEMMA HideBase ==
  ASSUME BaseInv, NEW f \in Frames, Hide(f)
  PROVE  BaseInv'
<1>1. /\ clicks < MaxClicks /\ clicks' = clicks + 1 /\ Draggable(f) /\ leaving' = leaving \cup {f}
      /\ UNCHANGED <<reverse, page, boxed, drag, initialPreview, content, index, sending, asked, fading, fileIds,
                     local, hidden, gen, stored, deleted, events>>
  BY DEF Hide, lists, Click
<1>2. clicks \in Nat /\ gen \in Nat /\ clicks' \in 0 .. MaxClicks
  BY <1>1, Constants DEF BaseInv, TypeOK
<1>3. Initial(f)
  BY <1>1 DEF Draggable, Initial
<1>4. Elements' = Elements /\ InitialElements' = InitialElements
  BY <1>1 DEF Elements, InitialElements, Initial
<1>5. TypeOK'
  BY <1>1, <1>2 DEF BaseInv, TypeOK
<1>6. GenInv'
  BY <1>1, <1>2 DEF BaseInv, GenInv
<1>7. PageInv'
  BY <1>1, <1>3, <1>4 DEF BaseInv, PageInv, Initial
<1>8. ListInv' /\ SendingInv'
  BY <1>1, <1>4 DEF BaseInv, ListInv, Lists, SendingInv, Initial
<1> QED
  BY <1>5, <1>6, <1>7, <1>8 DEF BaseInv

\* What is sent is among what is chosen.
LEMMA UploadBase ==
  ASSUME BaseInv, NEW files \in Seq(Items), NEW one \in BOOLEAN, Upload(files, one),
         Distinct(files), files # <<>>, one => Len(files) = 1,
         \A x \in Members(files) : [item |-> x, gen |-> 0] \in Elements \ fading
  PROVE  BaseInv'
<1>1. /\ clicks < MaxClicks /\ clicks' = clicks + 1 /\ "threw" \notin events /\ sending = None
      /\ sending' = [files |-> files, one |-> one]
      /\ UNCHANGED <<reverse, page, boxed, drag, initialPreview, content, index, asked, fading, fileIds,
                     local, leaving, hidden, gen, stored, deleted, events>>
  BY DEF Upload, lists, buttons, Click
<1>2. clicks \in Nat /\ gen \in Nat /\ clicks' \in 0 .. MaxClicks
  BY <1>1, Constants DEF BaseInv, TypeOK
<1>3. Elements' = Elements /\ InitialElements' = InitialElements
  BY <1>1 DEF Elements, InitialElements, Initial
<1>4. TypeOK'
  BY <1>1, <1>2 DEF BaseInv, TypeOK
<1>5. GenInv'
  BY <1>1, <1>2 DEF BaseInv, GenInv
<1>6. PageInv' /\ ListInv'
  BY <1>1, <1>3 DEF BaseInv, PageInv, ListInv, Lists, Initial
<1>7. \A x \in Members(files) : x \notin stored
  <2>1. \A x : ~Initial([item |-> x, gen |-> 0]) /\ [item |-> x, gen |-> 0].item = x
    BY DEF Initial
  <2> QED
    BY <1>1, <2>1 DEF BaseInv, SendingInv
<1>8. one => Len(files) = 1 /\ files[1] \in Members(files)
  <2>1. one => 1 \in DOMAIN files
    OBVIOUS
  <2> QED
    BY <2>1 DEF Members
<1>9. SendingInv'
  <2>1. \A f \in Elements \ fading : ~Initial(f) => f.item \notin stored
    BY <1>1 DEF BaseInv, SendingInv
  <2> QED
    BY <1>1, <1>3, <1>7, <1>8, <2>1 DEF SendingInv, Initial
<1> QED
  BY <1>4, <1>5, <1>6, <1>9 DEF BaseInv

LEMMA UploadsBase ==
  ASSUME BaseInv, UploadAll \/ UploadOne
  PROVE  BaseInv'
<1>1. /\ Chosen \in Seq(Frames) /\ Distinct(Chosen)
      /\ \A n \in DOMAIN Chosen : Chosen[n] = [item |-> Chosen[n].item, gen |-> 0] /\ Chosen[n].item \in Items
                                  /\ Chosen[n] \in Elements \ fading
  BY ChosenProperties
<1> HIDE DEF Chosen
<1>2. CASE UploadAll
  <2> DEFINE list == [n \in DOMAIN Chosen |-> Chosen[n].item]
  <2>1. DOMAIN Chosen = 1 .. Len(Chosen) /\ Len(Chosen) \in Nat /\ reverse \in BOOLEAN
    BY <1>1 DEF BaseInv, TypeOK
  <2>2. list \in Seq(Items) /\ Len(list) = Len(Chosen)
    BY <1>1, <2>1
  <2>3. Distinct(list)
    <3>1. \A i, j \in DOMAIN Chosen : list[i] = list[j] => Chosen[i] = Chosen[j]
      BY <1>1
    <3> QED
      BY <1>1, <3>1 DEF Distinct
  <2>4. \A x \in Members(list) : [item |-> x, gen |-> 0] \in Elements \ fading
    BY <1>1 DEF Members
  <2>5. Chosen # <<>> /\ Upload(Turned(list), FALSE)
    BY <1>2 DEF UploadAll
  <2>6. Len(list) # 0
    BY <1>1, <2>2, <2>5, EmptySeq
  <2> HIDE DEF list
  <2>7. Turned(list) \in Seq(Items) /\ Len(Turned(list)) = Len(list) /\ Distinct(Turned(list))
        /\ Members(Turned(list)) = Members(list)
    BY <2>1, <2>2, <2>3, TurnedProperties
  <2>8. Turned(list) # <<>>
    BY <2>6, <2>7
  <2> QED
    BY <2>4, <2>5, <2>7, <2>8, UploadBase
<1>3. CASE UploadOne
  <2>1. PICK n \in DOMAIN Chosen : Upload(<<Chosen[n].item>>, TRUE)
    BY <1>3 DEF UploadOne
  <2> DEFINE y == Chosen[n].item
  <2>2. y \in Items /\ [item |-> y, gen |-> 0] \in Elements \ fading
    BY <1>1
  <2> HIDE DEF y
  <2>3. <<y>> \in Seq(Items) /\ Distinct(<<y>>) /\ <<y>> # <<>> /\ Len(<<y>>) = 1 /\ Members(<<y>>) = {y}
    BY <2>2 DEF Distinct, Members
  <2>4. Upload(<<y>>, TRUE)
    BY <2>1 DEF y
  <2> QED
    BY <2>2, <2>3, <2>4, UploadBase
<1> QED
  BY <1>2, <1>3

LEMMA ClearBase ==
  ASSUME BaseInv, Clear
  PROVE  BaseInv'
<1>1. /\ clicks < MaxClicks /\ clicks' = clicks + 1 /\ sending = None /\ drag = None /\ "threw" \notin events
      /\ UNCHANGED <<reverse, initialPreview, sending, asked, fading, leaving, fileIds, stored, deleted>>
  BY DEF Clear, Click
<1>2. clicks \in Nat /\ gen \in Nat /\ clicks' \in 0 .. MaxClicks /\ gen <= clicks + 1 /\ MaxClicks \in Nat
  <2>1. clicks \in 0 .. MaxClicks /\ MaxClicks \in Nat /\ gen \in 0 .. MaxClicks + 1
    BY Constants DEF BaseInv, TypeOK
  <2>2. clicks' \in 0 .. MaxClicks
    BY <1>1, <2>1
  <2> QED
    BY <1>1, <2>1, <2>2 DEF BaseInv, GenInv
<1>3. gen + 1 <= MaxClicks + 1
  BY <1>1, <1>2
<1>4. CASE Count > 0
  <2>1. Rebuild(content) /\ content' = content /\ events' \subseteq events \cup {"rebuilt"}
    BY <1>4 DEF Clear
  <2>2. content # None /\ content \in Seq(Entries) /\ Lists(content)
    BY <1>4 DEF Count, BaseInv, TypeOK, ListInv, Entries
  <2>3. /\ page' \in Seq(Frames) /\ boxed' = {} /\ drag' = None /\ index' \in [Frames -> Int]
        /\ gen' = gen + 1 /\ gen' \in 0 .. MaxClicks + 1 /\ gen' > 0
        /\ PageInv' /\ \A f \in Elements' : Initial(f)
        /\ local' = FALSE /\ hidden' = {}
    BY <1>1, <1>3, <2>1, <2>2, RebuildBase DEF Lists
  <2>4. TypeOK'
    BY <1>1, <1>2, <2>1, <2>3 DEF BaseInv, TypeOK
  <2>5. GenInv'
    BY <1>1, <1>2, <2>3 DEF GenInv
  <2>6. ListInv'
    BY <1>1, <2>1 DEF BaseInv, ListInv, Lists
  <2>7. SendingInv'
    BY <1>1, <2>3 DEF SendingInv, Initial
  <2> QED
    BY <2>3, <2>4, <2>5, <2>6, <2>7 DEF BaseInv
<1>5. CASE ~(Count > 0)
  <2>1. page' = <<>> /\ boxed' = {} /\ content' = None /\ UNCHANGED <<drag, index, gen, local, hidden, events>>
    BY <1>5 DEF Clear
  <2>2. Elements' = {} /\ InitialElements' = {} /\ page' \in Seq(Frames) /\ Distinct(page')
    BY <2>1 DEF Elements, InitialElements, Distinct
  <2>3. TypeOK'
    BY <1>1, <1>2, <2>1, <2>2 DEF BaseInv, TypeOK
  <2>4. GenInv'
    BY <1>1, <1>2, <2>1 DEF BaseInv, GenInv
  <2>5. PageInv'
    BY <1>1, <2>1, <2>2 DEF BaseInv, PageInv, Initial
  <2>6. ListInv'
    BY <1>1, <2>1 DEF BaseInv, ListInv, Lists
  <2>7. SendingInv'
    BY <1>1, <2>1, <2>2 DEF SendingInv
  <2> QED
    BY <2>3, <2>4, <2>5, <2>6, <2>7 DEF BaseInv
<1> QED
  BY <1>4, <1>5

\* The lists after an upload: none of what was sent was in them.
LEMMA StoredLists ==
  ASSUME BaseInv, sending # None, NEW append, Stored(append)
  PROVE  /\ stored' = stored \cup Members(sending.files) /\ stored' \subseteq Items
         /\ initialPreview' \in Seq(Entries) /\ Lists(initialPreview)' /\ deleted' \subseteq stored'
         /\ sending.files \in Seq(Items) /\ sending.files \in Seq(Entries)
         /\ Distinct(sending.files) /\ Single(sending.files) /\ sending.files # <<>>
         /\ \A c \in Seq(Entries) : Lists(c) =>
              /\ c \o sending.files \in Seq(Entries) /\ Single(c \o sending.files)
              /\ Members(c \o sending.files) = Members(c) \cup Members(sending.files)
<1> DEFINE files == sending.files
<1>1. /\ stored' = stored \cup Members(files) /\ initialPreview' = Merge(initialPreview, files)
      /\ UNCHANGED <<reverse, asked, deleted, clicks>>
  BY DEF Stored, Files, Members
<1>2. /\ files \in Seq(Items) /\ Distinct(files) /\ files # <<>> /\ Members(files) \cap stored = {}
      /\ initialPreview \in Seq(Entries) /\ stored \subseteq Items /\ Lists(initialPreview) /\ deleted \subseteq stored
  BY DEF BaseInv, TypeOK, SendingInv, ListInv, Entries
<1> HIDE DEF files
<1>3. Members(files) \subseteq Items
  BY <1>2, ElementOfSeq DEF Members
<1>4. files \in Seq(Entries) /\ None \notin Items
  BY <1>2, SeqOfLarger, Items \subseteq Entries, Constants DEF Entries
<1>5. ASSUME NEW c \in Seq(Entries), Lists(c) PROVE Members(c) \cap Members(files) = {}
  BY <1>2, <1>3, <1>4, <1>5 DEF Lists
<1>6. \A c \in Seq(Entries) : Lists(c) =>
              /\ c \o files \in Seq(Entries) /\ Single(c \o files)
              /\ Members(c \o files) = Members(c) \cup Members(files)
  BY <1>2, <1>4, <1>5, JoinProperties DEF Lists
<1>7. /\ Merge(initialPreview, files) \in Seq(Entries) /\ Single(Merge(initialPreview, files))
      /\ Members(Merge(initialPreview, files)) = (Members(initialPreview) \cap Items) \cup Members(files)
  <2>1. Single(initialPreview) /\ Members(initialPreview) \cap Members(files) = {}
    BY <1>2, <1>5 DEF Lists
  <2> QED
    BY <1>2, <1>4, <2>1, MergeProperties
<1>8. Lists(initialPreview)'
  BY <1>1, <1>2, <1>7 DEF Lists
<1>9. Single(files)
  BY <1>2 DEF Single, Distinct
<1> QED
  BY <1>1, <1>2, <1>3, <1>4, <1>6, <1>7, <1>8, <1>9 DEF files

LEMMA AcceptAllBase ==
  ASSUME BaseInv, NEW append \in BOOLEAN, AcceptAll(append)
  PROVE  BaseInv'
<1> DEFINE files == sending.files
           c == IF append /\ content # None THEN content \o files ELSE files
<1>1. /\ sending # None /\ Stored(append) /\ content' = c /\ Rebuild(c) /\ fileIds' = fileIds \cup Members(files)
      /\ sending' = None /\ UNCHANGED <<reverse, asked, fading, leaving, deleted, clicks>>
  BY DEF AcceptAll, Stored, AddFileIds, Files, Members
<1>2. /\ stored' = stored \cup Members(files) /\ stored' \subseteq Items
      /\ initialPreview' \in Seq(Entries) /\ Lists(initialPreview)' /\ deleted' \subseteq stored'
      /\ files \in Seq(Items) /\ files \in Seq(Entries)
      /\ Distinct(files) /\ Single(files) /\ files # <<>>
  BY <1>1, StoredLists
<1>3. /\ content # None => /\ content \o files \in Seq(Entries) /\ Single(content \o files)
                           /\ Members(content \o files) = Members(content) \cup Members(files)
      /\ content # None => Members(content) \subseteq stored \cup {None}
  <2>1. content # None => content \in Seq(Entries) /\ Lists(content)
    BY DEF BaseInv, TypeOK, ListInv, Entries
  <2>2. content # None => Members(content) \subseteq stored \cup {None}
    BY <2>1 DEF Lists
  <2> QED
    BY <1>1, <2>1, <2>2, StoredLists
<1> HIDE DEF files
<1>4. c \in Seq(Entries) /\ Single(c) /\ Members(files) \subseteq Members(c) /\ Members(c) \subseteq stored' \cup {None}
  BY <1>2, <1>3
<1> HIDE DEF c
<1>5. Members(files) # {} /\ Members(files) \subseteq Items
  <2>1. Len(files) # 0 /\ Len(files) \in Nat
    BY <1>2, EmptySeq
  <2>2. 1 \in DOMAIN files
    BY <1>2, <2>1
  <2>3. \A i \in DOMAIN files : files[i] \in Items
    BY <1>2
  <2> QED
    BY <2>2, <2>3 DEF Members
<1>6. gen + 1 <= MaxClicks + 1 /\ gen + 1 <= clicks + 1
  <2>1. gen \in 0 .. MaxClicks + 1 /\ clicks \in 0 .. MaxClicks /\ MaxClicks \in Nat /\ gen + 1 <= clicks + 1
    BY <1>1, Constants DEF BaseInv, TypeOK, GenInv
  <2> QED
    BY <2>1
<1>7. /\ page' \in Seq(Frames) /\ boxed' = {} /\ drag' = None /\ index' \in [Frames -> Int]
      /\ gen' = gen + 1 /\ gen' \in 0 .. MaxClicks + 1 /\ gen' > 0
      /\ PageInv' /\ \A f \in Elements' : Initial(f)
      /\ local' = FALSE /\ hidden' = {}
  <2>1. Members(c) \cap Items # {} /\ stored \subseteq stored'
    BY <1>2, <1>4, <1>5
  <2> QED
    BY <1>1, <1>4, <1>6, <2>1, RebuildBase
<1>8. TypeOK'
  BY <1>1, <1>2, <1>4, <1>5, <1>7 DEF BaseInv, TypeOK, Entries
<1>9. GenInv'
  <2>1. gen' + 0 <= clicks' + 1
    BY <1>1, <1>6, <1>7, PageFacts
  <2> QED
    BY <1>1, <1>7, <2>1 DEF GenInv
<1>10. ListInv'
  BY <1>1, <1>2, <1>4 DEF ListInv, Lists
<1>11. SendingInv'
  BY <1>1, <1>7 DEF SendingInv, Initial
<1> QED
  BY <1>7, <1>8, <1>9, <1>10, <1>11 DEF BaseInv

LEMMA AcceptOneBase ==
  ASSUME BaseInv, NEW append \in BOOLEAN, AcceptOne(append)
  PROVE  BaseInv'
<1> DEFINE files == sending.files
           x == files[1]
           thumb == [item |-> x, gen |-> 0]
           new == [item |-> x, gen |-> gen]
           c == Append(content, x)
           at == CHOOSE n \in DOMAIN page : page[n] = thumb
<1>1. /\ sending # None /\ sending.one /\ Stored(append) /\ sending' = None
      /\ UNCHANGED <<reverse, asked, deleted, clicks, drag, gen, local, leaving, hidden>>
  BY DEF AcceptOne, Stored, buttons
<1>2. /\ stored' = stored \cup Members(files) /\ stored' \subseteq Items
      /\ initialPreview' \in Seq(Entries) /\ Lists(initialPreview)' /\ deleted' \subseteq stored'
      /\ files \in Seq(Items)
  BY <1>1, StoredLists
<1>3. Len(files) = 1 /\ thumb \in Elements \ fading /\ "threw" \notin events /\ Members(files) \cap stored = {}
  BY <1>1 DEF BaseInv, SendingInv
<1> HIDE DEF files
<1>4. files = <<x>> /\ x \in Items /\ Members(files) = {x} /\ x \notin stored
  <2>1. files = <<x>> /\ x \in Items
    BY <1>2, <1>3
  <2>2. Members(<<x>>) = {x}
    BY DEF Members
  <2> QED
    BY <1>3, <2>1, <2>2
<1>5. gen \in Nat /\ gen > 0 /\ gen <= MaxClicks + 1 /\ page \in Seq(Frames) /\ Elements = Members(page)
      /\ Elements \subseteq Frames /\ Distinct(page)
  BY PageFacts DEF BaseInv, PageInv
<1> HIDE DEF x
<1>6. new.item = x /\ thumb.item = x /\ new.gen = gen /\ Initial(new) /\ ~Initial(thumb) /\ new \in Frames
  BY <1>4, <1>5, FrameFields, Constants DEF Initial
<1>7. new \notin Elements
  BY <1>4, <1>6 DEF BaseInv, PageInv, InitialElements
<1>8. GenInv'
  BY <1>1, <1>5, Constants DEF BaseInv, GenInv, TypeOK
<1>9. CASE ~(append /\ content # None)
  <2>1. /\ "threw" \in events' /\ UNCHANGED <<page, boxed, index, fading, fileIds>>
        /\ content' = IF append THEN None ELSE <<x>>
    BY <1>9 DEF AcceptOne, x, files
  <2>0. content' # None => content' \in Seq(Entries) /\ Single(content') /\ Members(content') \subseteq stored'
    <3>1. <<x>> \in Seq(Entries) /\ Single(<<x>>) /\ Members(<<x>>) = {x}
      BY <1>4 DEF Single, Members, Entries
    <3> QED
      BY <1>2, <1>4, <2>1, <3>1
  <2>2. Elements' = Elements /\ InitialElements' = InitialElements
    BY <2>1 DEF Elements, InitialElements, Initial
  <2>3. TypeOK'
    BY <1>1, <1>2, <2>0, <2>1 DEF BaseInv, TypeOK, Entries
  <2>4. PageInv'
    BY <1>1, <1>2, <2>1, <2>2 DEF BaseInv, PageInv, Initial
  <2>5. ListInv'
    BY <1>1, <1>2, <2>0 DEF ListInv, Lists
  <2>6. SendingInv'
    BY <1>1, <2>1 DEF SendingInv
  <2> QED
    BY <1>8, <2>3, <2>4, <2>5, <2>6 DEF BaseInv
<1>10. CASE append /\ content # None
  <2>1. /\ content' = c /\ page' = Seqs!InsertAt(page, at + 1, new) /\ boxed' = boxed \cup {new}
        /\ index' = [index EXCEPT ![new] = Len(content) + 1] /\ fading' = fading \cup {thumb}
        /\ fileIds' = fileIds \cup {x} /\ "threw" \notin events'
    <3>1. events' = events \cup Misled(append) \cup (IF Passed(x) THEN {"unordered"} ELSE {}) /\ "threw" \notin Misled(append)
      BY <1>10 DEF AcceptOne, Misled, x, files
    <3> QED
      BY <1>3, <1>10, <3>1 DEF AcceptOne, AddFileIds, x, files
  <2>2. at \in DOMAIN page /\ page[at] = thumb
    BY <1>3 DEF Elements
  <2>3. at + 1 \in 1 .. Len(page) + 1
    BY <1>5, <2>2
  <2> HIDE DEF at
  <2>4. page' \in Seq(Frames) /\ Members(page') = Elements \cup {new} /\ Distinct(page')
    <3> HIDE DEF new
    <3>1. new \notin Members(page)
      BY <1>5, <1>7
    <3> QED
      BY <1>5, <1>6, <2>1, <2>3, <3>1, InsertAtProperties, InsertOrder
  <2>5. Elements' = Elements \cup {new}
    BY <2>4 DEF Elements, Members
  <2>6. c \in Seq(Entries) /\ Single(c) /\ Members(c) \subseteq stored' \cup {None}
    <3>1. content \in Seq(Entries) /\ Lists(content)
      BY <1>10 DEF BaseInv, TypeOK, ListInv, Entries
    <3>2. /\ content \o files \in Seq(Entries) /\ Single(content \o files)
          /\ Members(content \o files) = Members(content) \cup Members(files)
      BY <1>1, <3>1, StoredLists DEF files
    <3>3. c = content \o files
      BY <1>4, <3>1, AppendIsConcat DEF Entries
    <3> QED
      BY <1>2, <3>1, <3>2, <3>3 DEF Lists
  <2> HIDE DEF c
  <2>7. Len(content) + 1 \in Int /\ index \in [Frames -> Int]
    BY <1>10 DEF BaseInv, TypeOK
  <2>8. TypeOK'
    <3>1. index' \in [Frames -> Int]
      BY <2>1, <2>7
    <3>2. boxed' \subseteq Frames /\ fading' \subseteq Frames /\ fileIds' \subseteq Items
      BY <1>3, <1>4, <1>5, <1>6, <2>1 DEF BaseInv, TypeOK
    <3> QED
      BY <1>1, <1>2, <2>1, <2>4, <2>6, <3>1, <3>2 DEF BaseInv, TypeOK, Entries
  <2>9. InitialElements' = InitialElements \cup {new}
    <3> HIDE DEF new
    <3> QED
      BY <1>6, <2>5 DEF InitialElements, Initial
  <2>10. PageInv'
    <3>1. \A f \in InitialElements' : f.gen = gen' /\ f.item \in stored'
      <4> HIDE DEF new
      <4> QED
        BY <1>1, <1>2, <1>4, <1>6, <2>9 DEF BaseInv, PageInv
    <3>2. \A f \in fading' : f.item \in stored'
      <4> HIDE DEF thumb
      <4> QED
        BY <1>2, <1>4, <1>6, <2>1 DEF BaseInv, PageInv
    <3>3. /\ \A f \in leaving' : Initial(f)
          /\ \A f \in Frames : asked'[f] > 0 => Initial(f) /\ f.item \in stored'
          /\ drag' # None => drag'.frame.gen = gen' /\ drag'.frame.item \in stored'
      BY <1>1, <1>2 DEF BaseInv, PageInv
    <3> QED
      BY <2>4, <3>1, <3>2, <3>3 DEF PageInv, Initial
  <2>11. ListInv'
    BY <1>2, <2>1, <2>6 DEF ListInv, Lists
  <2>12. SendingInv'
    <3>1. ASSUME NEW f \in Elements' \ fading', ~Initial(f) PROVE f.item \notin stored'
      <4>1. f \in Elements \ fading /\ f # thumb
        <5> HIDE DEF new, thumb
        <5> QED
          BY <1>6, <2>1, <2>5, <3>1
      <4>2. f.item \notin stored
        BY <1>3, <3>1, <4>1 DEF BaseInv, SendingInv
      <4>3. f = [item |-> f.item, gen |-> 0]
        <5>1. f \in Frames /\ ~(f.gen > 0)
          BY <1>5, <3>1, <4>1 DEF Initial
        <5>2. f.gen \in Nat /\ f = [item |-> f.item, gen |-> f.gen]
          BY <5>1, FrameFields
        <5>3. f.gen = 0
          BY <5>1, <5>2
        <5> QED
          BY <5>2, <5>3
      <4>4. f.item # x
        BY <4>1, <4>3
      <4> QED
        BY <1>2, <1>4, <4>2, <4>4
    <3> QED
      BY <1>1, <3>1 DEF SendingInv, Initial
  <2> QED
    BY <1>8, <2>8, <2>10, <2>11, <2>12 DEF BaseInv
<1> QED
  BY <1>9, <1>10

\* The thumbnails but for one.
LEMMA WithoutProperties ==
  ASSUME BaseInv, NEW f
  PROVE  /\ Without(f) \in Seq(Frames) /\ Distinct(Without(f)) /\ Members(Without(f)) = Elements \ {f}
         /\ \A a, b : Precedes(Without(f), a, b) => Precedes(page, a, b)
<1>1. page \in Seq(Frames) /\ Elements = Members(page) /\ Distinct(page)
  BY PageFacts DEF BaseInv, PageInv
<1> DEFINE S == Elements \ {f}
<1>2. Without(f) = Only(page, S)
  BY DEF Without
<1>3. Members(page) \cap S = S
  BY <1>1
<1> HIDE DEF S
<1>4. Only(page, S) \in Seq(Frames \cap S) /\ Members(Only(page, S)) = S /\ Distinct(Only(page, S))
      /\ \A a, b : Precedes(Only(page, S), a, b) => Precedes(page, a, b)
  BY <1>1, <1>3, OnlyProperties, OnlyOrder
<1>5. Only(page, S) \in Seq(Frames)
  BY <1>4, SeqOfLarger, Frames \cap S \subseteq Frames
<1> QED
  BY <1>2, <1>4, <1>5 DEF S

LEMMA FadedChosenBase ==
  ASSUME BaseInv, NEW f \in Frames, FadedChosen(f)
  PROVE  BaseInv'
<1>1. /\ f \in fading /\ ~Initial(f) /\ fading' = fading \ {f} /\ page' = Without(f)
      /\ boxed' = {g \in boxed : g.item # f.item} /\ drag' = Renewed(page', boxed')
      /\ events' = events \cup Aborted /\ local' = FALSE
      /\ UNCHANGED <<reverse, initialPreview, content, index, sending, asked, leaving, hidden, fileIds, gen, stored,
                     deleted, clicks>>
  BY DEF FadedChosen, lists
<1>2. page' \in Seq(Frames) /\ Distinct(page') /\ Members(page') = Elements \ {f}
  BY <1>1, WithoutProperties
<1>3. Elements' = Elements \ {f} /\ InitialElements' \subseteq InitialElements
  BY <1>2 DEF Elements, InitialElements, Initial, Members
<1>4. drag' = drag \/ drag' = None
  BY <1>1 DEF Renewed
<1>5. "threw" \in events' <=> "threw" \in events
  BY <1>1 DEF Aborted
<1>6. TypeOK'
  BY <1>1, <1>2, <1>4 DEF BaseInv, TypeOK
<1>7. GenInv' /\ ListInv'
  BY <1>1 DEF BaseInv, GenInv, ListInv, Lists
<1>8. PageInv'
  BY <1>1, <1>2, <1>3, <1>4 DEF BaseInv, PageInv, Initial
<1>9. SendingInv'
  BY <1>1, <1>3, <1>5 DEF BaseInv, SendingInv, Initial
<1> QED
  BY <1>6, <1>7, <1>8, <1>9 DEF BaseInv

LEMMA FadedHiddenBase ==
  ASSUME BaseInv, NEW f \in Frames, FadedHidden(f)
  PROVE  BaseInv'
<1>1. /\ f \in leaving /\ leaving' = leaving \ {f} /\ page' = Without(f)
      /\ hidden' = (IF f \in Elements THEN hidden \cup {f.item} ELSE hidden)
      /\ ("threw" \in events' <=> "threw" \in events)
      /\ UNCHANGED <<reverse, boxed, drag, initialPreview, content, index, sending, asked, fading, local, fileIds,
                     gen, stored, deleted, clicks>>
  BY DEF FadedHidden, lists
<1>2. Initial(f) /\ f.item \in Items
  BY <1>1, FrameFields DEF BaseInv, PageInv
<1>3. page' \in Seq(Frames) /\ Distinct(page') /\ Members(page') = Elements \ {f}
  BY <1>1, WithoutProperties
<1>4. Elements' = Elements \ {f} /\ InitialElements' \subseteq InitialElements
  BY <1>3 DEF Elements, InitialElements, Initial, Members
<1>5. TypeOK'
  BY <1>1, <1>2, <1>3 DEF BaseInv, TypeOK
<1>6. GenInv' /\ ListInv'
  BY <1>1 DEF BaseInv, GenInv, ListInv, Lists
<1>7. PageInv'
  BY <1>1, <1>3, <1>4 DEF BaseInv, PageInv, Initial
<1>8. SendingInv'
  <2>1. \A x : [item |-> x, gen |-> 0] # f
    BY <1>2 DEF Initial
  <2> QED
    BY <1>1, <1>4, <2>1 DEF BaseInv, SendingInv, Initial
<1> QED
  BY <1>5, <1>6, <1>7, <1>8 DEF BaseInv

LEMMA WithoutTypes ==
  ASSUME BaseInv, NEW i \in Int
  PROVE  /\ CacheWithout(i) = None \/ CacheWithout(i) \in Seq(Entries)
         /\ CacheWithout(i) # None => Lists(CacheWithout(i))
         /\ MovedDown(i) \in [Frames -> Int]
         /\ \A s \in Seq(Entries) : Lists(s) => Splice(s, i) \in Seq(Entries) /\ Lists(Splice(s, i))
<1>1. reverse \in BOOLEAN /\ index \in [Frames -> Int]
      /\ (content = None \/ (content \in Seq(Entries) /\ Lists(content)))
  BY DEF BaseInv, TypeOK, ListInv, Entries
<1>2. \A s \in Seq(Entries) : Lists(s) => Splice(s, i) \in Seq(Entries) /\ Lists(Splice(s, i))
  BY <1>1, SpliceProperties DEF Lists
<1>3. <<>> \in Seq(Entries) /\ Lists(<<>>)
  BY DEF Lists, Single, Members
<1>4. \/ CacheWithout(i) = <<>>
      \/ CacheWithout(i) = content
      \/ content # None /\ CacheWithout(i) = Splice(content, i)
  BY DEF CacheWithout, Count
<1>5. MovedDown(i) \in [Frames -> Int]
  BY <1>1 DEF MovedDown
<1>6. CacheWithout(i) = None \/ (CacheWithout(i) \in Seq(Entries) /\ Lists(CacheWithout(i)))
  BY <1>1, <1>2, <1>3, <1>4
<1> QED
  BY <1>2, <1>5, <1>6

LEMMA RemovedBase ==
  ASSUME BaseInv, NEW f \in Frames, Removed(f), f.item \in stored, Initial(f),
         fading' = fading \/ fading' = fading \ {f},
         asked' \in [Frames -> Nat], \A g \in Frames : asked'[g] > 0 => asked[g] > 0
  PROVE  BaseInv'
<1> DEFINE i == index[f]
           list == IF Count = 1 THEN <<>> ELSE initialPreview
<1>1. /\ content' = CacheWithout(i) /\ initialPreview' = Splice(list, i)
      /\ index' = MovedDown(i) /\ fileIds' = fileIds \ {f.item} /\ deleted' = deleted \cup {f.item}
      /\ page' = Without(f) /\ UNCHANGED <<reverse, boxed, drag, sending, local, leaving, hidden, gen, stored, clicks>>
      /\ ("threw" \in events' <=> "threw" \in events)
  <2>1. events' = events
          \cup (IF reverse /\ 2 * i # Count + 1 THEN {"reversed"} ELSE {})
          \cup (IF f \notin Elements THEN {"again"} ELSE {})
          \cup (IF drag # None /\ (f = drag.frame \/ Before(f, drag.frame)) THEN {"dragged"} ELSE {})
    BY DEF Removed
  <2>2. "threw" \in events' <=> "threw" \in events
    BY <2>1
  <2> QED
    BY <2>2 DEF Removed, DeleteFileIds, buttons
<1>2. i \in Int /\ list \in Seq(Entries) /\ Lists(list) /\ f.item \in Items
  <2>1. <<>> \in Seq(Entries) /\ Lists(<<>>)
    BY DEF Lists, Single, Members
  <2> QED
    BY <2>1, FrameFields DEF BaseInv, TypeOK, ListInv, Entries
<1> HIDE DEF i, list
<1>3. /\ content' = None \/ content' \in Seq(Entries)
      /\ content' # None => Lists(content')
      /\ index' \in [Frames -> Int] /\ initialPreview' \in Seq(Entries) /\ Lists(initialPreview')
  BY <1>1, <1>2, WithoutTypes
<1>4. page' \in Seq(Frames) /\ Distinct(page') /\ Members(page') = Elements \ {f}
  BY <1>1, WithoutProperties
<1>5. Elements' = Elements \ {f} /\ InitialElements' \subseteq InitialElements
  BY <1>4 DEF Elements, InitialElements, Initial, Members
<1>6. TypeOK'
  BY <1>1, <1>2, <1>3, <1>4 DEF BaseInv, TypeOK, Entries
<1>7. GenInv' /\ ListInv'
  BY <1>1, <1>3 DEF BaseInv, GenInv, ListInv, Lists
<1>8. PageInv'
  BY <1>1, <1>4, <1>5 DEF BaseInv, PageInv, Initial
<1>9. SendingInv'
  <2>1. ASSUME NEW g \in Elements' \ fading', ~Initial(g) PROVE g \in Elements \ fading
    BY <1>5, <2>1
  <2>2. \A x : [item |-> x, gen |-> 0] # f
    BY DEF Initial
  <2>3. sending # None =>
       /\ Distinct(sending.files) /\ sending.files # <<>> /\ Members(sending.files) \cap stored = {}
       /\ sending.one => Len(sending.files) = 1 /\ [item |-> sending.files[1], gen |-> 0] \in Elements' \ fading'
       /\ "threw" \notin events
    BY <1>5, <2>2 DEF BaseInv, SendingInv
  <2>4. "threw" \notin events' => \A g \in Elements' \ fading' : ~Initial(g) => g.item \notin stored'
    BY <1>1, <2>1 DEF BaseInv, SendingInv
  <2> QED
    BY <1>1, <2>3, <2>4 DEF SendingInv, Initial
<1> QED
  BY <1>6, <1>7, <1>8, <1>9 DEF BaseInv

LEMMA AnsweredProperties ==
  ASSUME BaseInv, NEW f \in Frames, Answered(f)
  PROVE  /\ Initial(f) /\ f.item \in stored /\ asked' \in [Frames -> Nat]
         /\ \A g \in Frames : asked'[g] > 0 => asked[g] > 0
<1>1. asked[f] > 0 /\ asked' = [asked EXCEPT ![f] = @ - 1] /\ asked \in [Frames -> Nat]
  BY DEF Answered, BaseInv, TypeOK
<1>2. asked[f] - 1 \in Nat
  BY <1>1
<1>3. asked' \in [Frames -> Nat] /\ \A g \in Frames : g # f => asked'[g] = asked[g]
  BY <1>1, <1>2
<1> QED
  BY <1>1, <1>3 DEF BaseInv, PageInv

LEMMA DeletionBase ==
  ASSUME BaseInv, NEW f \in Frames, DeleteSucceeds(f) \/ DeleteFails(f) \/ FadedDeleted(f)
  PROVE  BaseInv'
<1>1. CASE DeleteSucceeds(f)
  <2>1. /\ Initial(f) /\ f.item \in stored /\ asked' \in [Frames -> Nat]
        /\ \A g \in Frames : asked'[g] > 0 => asked[g] > 0
    BY <1>1, AnsweredProperties DEF DeleteSucceeds
  <2>2. CASE f \in Elements
    <3>1. /\ fading' = fading \cup ({f} \ leaving) /\ events' = events
          /\ UNCHANGED <<reverse, page, boxed, drag, initialPreview, content, index, sending, local, leaving, hidden,
                         fileIds, gen, stored, deleted, clicks>>
      BY <1>1, <2>2 DEF DeleteSucceeds, lists, buttons, history
    <3>2. fading' \subseteq Frames /\ fading' \ fading \subseteq {f}
      BY <3>1 DEF BaseInv, TypeOK
    <3>3. \A g \in Frames : asked'[g] > 0 => Initial(g) /\ g.item \in stored
      BY <2>1 DEF BaseInv, PageInv
    <3> QED
      BY <2>1, <3>1, <3>2, <3>3, StillBase
  <2>3. CASE f \notin Elements
    BY <1>1, <2>1, <2>3, RemovedBase DEF DeleteSucceeds
  <2> QED
    BY <2>2, <2>3
<1>2. CASE DeleteFails(f)
  <2>1. /\ Initial(f) /\ f.item \in stored /\ asked' \in [Frames -> Nat]
        /\ \A g \in Frames : asked'[g] > 0 => asked[g] > 0
    BY <1>2, AnsweredProperties DEF DeleteFails
  <2>2. UNCHANGED <<reverse, page, boxed, drag, initialPreview, content, index, sending, fading, fileIds,
                    local, leaving, hidden, gen, stored, deleted, events, clicks>>
    BY <1>2 DEF DeleteFails, lists, buttons, history
  <2>3. \A g \in Frames : asked'[g] > 0 => Initial(g) /\ g.item \in stored
    BY <2>1 DEF BaseInv, PageInv
  <2>4. fading \subseteq Frames
    BY DEF BaseInv, TypeOK
  <2> QED
    BY <2>1, <2>2, <2>3, <2>4, StillBase
<1>3. CASE FadedDeleted(f)
  <2>1. f \in fading /\ Initial(f) /\ fading' = fading \ {f} /\ Removed(f) /\ asked' = asked
    BY <1>3 DEF FadedDeleted
  <2>2. f.item \in stored /\ asked \in [Frames -> Nat]
    BY <2>1 DEF BaseInv, PageInv, TypeOK
  <2> QED
    BY <2>1, <2>2, RemovedBase
<1> QED
  BY <1>1, <1>2, <1>3

LEMMA PlacedProperties ==
  ASSUME BaseInv, NEW x \in Frames, NEW p \in Placed(x)
  PROVE  /\ p \in Seq(Frames) /\ Distinct(p) /\ Members(p) = Elements \cup {x}
         /\ \A a, b : Precedes(p, a, b) /\ a # x /\ b # x => Precedes(page, a, b)
<1> DEFINE rest == Without(x)
           at == {n \in DOMAIN rest : Draggable(rest[n])}
<1>1. /\ rest \in Seq(Frames) /\ Distinct(rest) /\ Members(rest) = Elements \ {x}
      /\ \A a, b : Precedes(rest, a, b) => Precedes(page, a, b)
  BY WithoutProperties
<1>2. PICK n \in at \cup {m + 1 : m \in at} \cup {Len(rest) + 1} : p = Seqs!InsertAt(rest, n, x)
  BY DEF Placed
<1> HIDE DEF rest
<1>3. n \in 1 .. Len(rest) + 1
  <2>1. at \subseteq 1 .. Len(rest) /\ Len(rest) \in Nat
    BY <1>1
  <2> HIDE DEF at
  <2> QED
    BY <1>2, <2>1
<1>4. /\ Members(Seqs!InsertAt(rest, n, x)) = Members(rest) \cup {x}
      /\ Distinct(Seqs!InsertAt(rest, n, x)) /\ Seqs!InsertAt(rest, n, x) \in Seq(Frames)
      /\ \A a, b : Precedes(Seqs!InsertAt(rest, n, x), a, b) => Precedes(rest, a, b) \/ b = x \/ a = x
  BY <1>1, <1>3, InsertOrder, InsertAtProperties
<1> QED
  BY <1>1, <1>2, <1>4

LEMMA DragBase ==
  ASSUME BaseInv, StartDrag \/ Drag
  PROVE  BaseInv'
<1>1. CASE StartDrag
  <2>1. PICK f \in Elements : TapStart(f)
    BY <1>1 DEF StartDrag
  <2>2. /\ clicks < MaxClicks /\ clicks' = clicks + 1 /\ Draggable(f)
        /\ drag' = [frame |-> f, oldIndex |-> Index(f), active |-> FALSE, moved |-> FALSE]
        /\ UNCHANGED <<reverse, page, boxed, initialPreview, content, index, sending, asked, fading, fileIds,
                       local, leaving, hidden, gen, stored, deleted, events>>
    BY <1>1, <2>1 DEF StartDrag, TapStart, Click, lists, buttons, Others
  <2>3. f \in InitialElements /\ f \in Frames /\ Index(f) \in Nat \ {0}
    BY <2>1, <2>2, IndexProperties, PageFacts DEF InitialElements, Draggable, Initial
  <2>4. clicks \in Nat /\ gen \in Nat /\ clicks' \in 0 .. MaxClicks
    BY <2>2, Constants DEF BaseInv, TypeOK
  <2>5. Elements' = Elements /\ InitialElements' = InitialElements
    BY <2>2 DEF Elements, InitialElements, Initial
  <2>6. drag'.frame = f /\ drag' \in [frame : Frames, oldIndex : Nat \ {0}, active : BOOLEAN, moved : BOOLEAN]
    BY <2>2, <2>3
  <2>7. TypeOK'
    BY <2>2, <2>4, <2>6 DEF BaseInv, TypeOK
  <2>8. GenInv'
    BY <2>2, <2>4 DEF BaseInv, GenInv
  <2>9. PageInv'
    BY <2>2, <2>3, <2>5, <2>6 DEF BaseInv, PageInv, Initial
  <2>10. ListInv' /\ SendingInv'
    BY <2>2, <2>5 DEF BaseInv, ListInv, Lists, SendingInv, Initial
  <2> QED
    BY <2>7, <2>8, <2>9, <2>10 DEF BaseInv
<1>2. CASE Drag
  <2>1. /\ drag # None /\ drag'.frame = drag.frame
        /\ drag' \in [frame : Frames, oldIndex : Nat \ {0}, active : BOOLEAN, moved : BOOLEAN]
        /\ UNCHANGED <<reverse, boxed, initialPreview, content, index, sending, asked, fading, fileIds,
                       local, leaving, hidden, gen, stored, deleted, events, clicks>>
        /\ page' = page \/ page' \in Placed(drag.frame)
    <3>1. drag # None
      BY <1>2 DEF Drag, DragStarted, DragOver
    <3>2. drag \in [frame : Frames, oldIndex : Nat \ {0}, active : BOOLEAN, moved : BOOLEAN]
      BY <3>1 DEF BaseInv, TypeOK
    <3>3. drag' = [drag EXCEPT !.active = TRUE] \/ drag' = [drag EXCEPT !.moved = TRUE]
      BY <1>2 DEF Drag, DragStarted, DragOver
    <3>4. /\ drag'.frame = drag.frame
          /\ drag' \in [frame : Frames, oldIndex : Nat \ {0}, active : BOOLEAN, moved : BOOLEAN]
      BY <3>2, <3>3
    <3> QED
      BY <1>2, <3>1, <3>4 DEF Drag, DragStarted, DragOver, lists, buttons, Others
  <2>2. drag.frame \in Frames /\ drag.frame.gen = gen /\ drag.frame.item \in stored /\ gen > 0
    BY <2>1 DEF BaseInv, PageInv, TypeOK, GenInv
  <2>3. page' \in Seq(Frames) /\ Distinct(page') /\ Elements \subseteq Members(page')
        /\ Members(page') \subseteq Elements \cup {drag.frame}
    <3>1. CASE page' = page
      BY <3>1, PageFacts DEF BaseInv, PageInv
    <3>2. CASE page' \in Placed(drag.frame)
      BY <2>2, <3>2, PlacedProperties
    <3> QED
      BY <2>1, <3>1, <3>2
  <2>4. Elements' = Members(page')
    BY DEF Elements, Members
  <2>5. \A f \in InitialElements' : f \in InitialElements \/ f = drag.frame
    BY <2>3, <2>4 DEF InitialElements, Initial
  <2>6. TypeOK'
    BY <2>1, <2>3 DEF BaseInv, TypeOK
  <2>7. GenInv' /\ ListInv'
    BY <2>1 DEF BaseInv, GenInv, ListInv, Lists
  <2>8. PageInv'
    BY <2>1, <2>2, <2>3, <2>5 DEF BaseInv, PageInv, Initial
  <2>9. SendingInv'
    <3>1. \A f \in Elements' : ~Initial(f) => f \in Elements
      BY <2>2, <2>3, <2>4 DEF Initial
    <3> QED
      BY <2>1, <2>3, <2>4, <3>1 DEF BaseInv, SendingInv, Initial
  <2> QED
    BY <2>6, <2>7, <2>8, <2>9 DEF BaseInv
<1> QED
  BY <1>1, <1>2

LEMMA EndDragBase ==
  ASSUME BaseInv, EndDrag
  PROVE  BaseInv'
<1>1. /\ drag # None /\ drag' = None
      /\ UNCHANGED <<reverse, page, boxed, sending, asked, fading, local, leaving, hidden, fileIds, gen, stored,
                     deleted, clicks>>
      /\ IF Announced THEN Sorted(drag.oldIndex, Index(drag.frame))
         ELSE UNCHANGED <<initialPreview, content, index, events>>
  BY DEF EndDrag, Drop, Others, buttons, lists
<1>2. /\ initialPreview' \in Seq(Entries) /\ Lists(initialPreview)' /\ index' \in [Frames -> Int]
      /\ content' = None \/ content' \in Seq(Entries)
      /\ content' # None => Lists(content)'
      /\ "threw" \in events' <=> "threw" \in events
  <2>1. CASE Announced
    <3> DEFINE b == Index(drag.frame)
               a == drag.oldIndex
    <3>1. b \in Nat \ {0} /\ a \in Int /\ reverse \in BOOLEAN
      <4>1. drag.frame \in Elements
        BY <2>1 DEF Announced, Index
      <4> QED
        BY <1>1, <4>1, IndexProperties DEF BaseInv, TypeOK
    <3> HIDE DEF a, b
    <3>2. initialPreview \in Seq(Entries) /\ Lists(initialPreview) /\ index \in [Frames -> Int]
      BY DEF BaseInv, TypeOK, ListInv, Entries
    <3>3. /\ Move(initialPreview, a, b) \in Seq(Entries) /\ Single(Move(initialPreview, a, b))
          /\ Members(Move(initialPreview, a, b)) \subseteq stored \cup {None}
      BY <3>1, <3>2, MoveProperties DEF Lists
    <3>4. /\ initialPreview' = Move(initialPreview, a, b) /\ content' = initialPreview'
          /\ events' = events \cup (IF boxed # {} THEN {"unordered"} ELSE {}) \cup (IF hidden # {} THEN {"hidden"} ELSE {})
          /\ index' = [f \in Frames |-> IF \E n \in DOMAIN Listed : Listed[n] = f
                                THEN CHOOSE n \in DOMAIN Listed : Listed[n] = f ELSE index[f]]
      BY <1>1, <2>1 DEF Sorted, a, b
    <3>5. DOMAIN Listed = 1 .. Len(Listed)
      <4>1. Only(page, {f \in Elements : Initial(f)}) \in Seq(Frames \cap {f \in Elements : Initial(f)})
        BY PageFacts, OnlyProperties
      <4>2. Listed \in Seq(Frames \cap {f \in Elements : Initial(f)})
        BY <3>1, <4>1, TurnedProperties DEF Listed
      <4> QED
        BY <4>2
    <3>6. index' \in [Frames -> Int]
      <4> HIDE DEF Listed
      <4>1. \A f \in Frames : (\E n \in DOMAIN Listed : Listed[n] = f) =>
                (CHOOSE n \in DOMAIN Listed : Listed[n] = f) \in Int
        BY <3>5
      <4> QED
        BY <3>2, <3>4, <4>1
    <3> QED
      BY <1>1, <3>3, <3>4, <3>6 DEF Lists
  <2>2. CASE ~Announced
    BY <1>1, <2>2 DEF BaseInv, TypeOK, ListInv, Lists, Entries
  <2> QED
    BY <2>1, <2>2
<1>3. Elements' = Elements /\ InitialElements' = InitialElements
  BY <1>1 DEF Elements, InitialElements, Initial
<1>4. TypeOK'
  BY <1>1, <1>2 DEF BaseInv, TypeOK, Entries
<1>5. GenInv' /\ PageInv'
  BY <1>1, <1>3 DEF BaseInv, GenInv, PageInv, Initial
<1>6. ListInv'
  BY <1>1, <1>2 DEF BaseInv, ListInv
<1>7. SendingInv'
  <2>1. sending' # None =>
       /\ Distinct(sending'.files) /\ sending'.files # <<>> /\ Members(sending'.files) \cap stored' = {}
       /\ sending'.one => Len(sending'.files) = 1 /\ [item |-> sending'.files[1], gen |-> 0] \in Elements' \ fading'
       /\ "threw" \notin events'
    BY <1>1, <1>2, <1>3 DEF BaseInv, SendingInv
  <2>2. "threw" \notin events' => \A f \in Elements' \ fading' : ~Initial(f) => f.item \notin stored'
    BY <1>1, <1>2, <1>3 DEF BaseInv, SendingInv
  <2> QED
    BY <2>1, <2>2 DEF SendingInv, Initial
<1> QED
  BY <1>4, <1>5, <1>6, <1>7 DEF BaseInv

LEMMA BaseStep == BaseInv /\ [Next]_vars => BaseInv'
<1> SUFFICES ASSUME BaseInv, [Next]_vars PROVE BaseInv'
  OBVIOUS
<1>1. CASE User
  <2>1. ASSUME NEW x \in New, Choose(x) PROVE BaseInv'
    BY <2>1, ChooseBase
  <2>2. ASSUME NEW f \in Frames, AskDelete(f) \/ Hide(f) PROVE BaseInv'
    BY <2>2, AskDeleteBase, HideBase
  <2> QED
    BY <1>1, <2>1, <2>2, UploadsBase, ClearBase DEF User
<1>2. CASE StartDrag \/ Drag
  BY <1>2, DragBase
<1>3. CASE EndDrag
  BY <1>3, EndDragBase
<1>4. CASE UploadAnswered
  <2>1. ASSUME NEW a \in BOOLEAN, AcceptAll(a) PROVE BaseInv'
    BY <2>1, AcceptAllBase
  <2>2. ASSUME NEW a \in BOOLEAN, AcceptOne(a) PROVE BaseInv'
    BY <2>2, AcceptOneBase
  <2>3. CASE UploadFails
    <3>1. /\ sending' = None
          /\ UNCHANGED <<reverse, page, boxed, drag, initialPreview, content, index, asked, fading, fileIds,
                         local, leaving, hidden, gen, stored, deleted, events, clicks>>
      BY <2>3 DEF UploadFails, lists, buttons, history
    <3>2. /\ fading \subseteq Frames /\ asked \in [Frames -> Nat]
          /\ \A f \in Frames : asked[f] > 0 => Initial(f) /\ f.item \in stored
      BY DEF BaseInv, TypeOK, PageInv
    <3> QED
      BY <3>1, <3>2, StillBase
  <2> QED
    BY <1>4, <2>1, <2>2, <2>3 DEF UploadAnswered
<1>5. CASE \E f \in Frames : DeleteAnswered(f) \/ Faded(f)
  BY <1>5, DeletionBase, FadedChosenBase, FadedHiddenBase DEF DeleteAnswered, Faded
<1>6. CASE UNCHANGED vars
  <2>1. UNCHANGED <<reverse, page, boxed, drag, initialPreview, content, index, sending, asked, fading, fileIds,
                    local, leaving, hidden, gen, stored, deleted, events, clicks>>
    BY <1>6 DEF vars, lists, buttons, history
  <2>2. /\ fading \subseteq Frames /\ asked \in [Frames -> Nat]
        /\ \A f \in Frames : asked[f] > 0 => Initial(f) /\ f.item \in stored
    BY DEF BaseInv, TypeOK, PageInv
  <2> QED
    BY <2>1, <2>2, StillBase
<1> QED
  BY <1>1, <1>2, <1>3, <1>4, <1>5, <1>6 DEF Next

\* The types, with what is true of every page and list whatever has happened.
THEOREM BaseInvariance == Spec => []BaseInv
BY InitBase, BaseStep, PTL DEF Spec

\* The variables keep their types: a number beside a thumbnail, a list with holes
\* or a thumbnail of an older page never becomes anything else (fileinput.js).
THEOREM CacheTypes == Spec => []TypeOK
<1>1. BaseInv => TypeOK
  BY DEF BaseInv
<1> QED
  BY <1>1, BaseInvariance, PTL

-----------------------------------------------------------------------------
(* The two lists. *)

LEMMA EventsGrow == [Next]_vars => events \subseteq events'
<1> SUFFICES ASSUME [Next]_vars PROVE events \subseteq events'
  OBVIOUS
<1>1. CASE User
  BY <1>1 DEF User, Choose, AskDelete, Hide, UploadAll, UploadOne, Upload, Clear
<1>2. CASE StartDrag \/ Drag \/ EndDrag
  BY <1>2 DEF StartDrag, Drag, EndDrag, Sorted
<1>3. CASE UploadAnswered
  BY <1>3 DEF UploadAnswered, AcceptAll, AcceptOne, UploadFails, history
<1>4. CASE \E f \in Frames : DeleteAnswered(f) \/ Faded(f)
  BY <1>4 DEF DeleteAnswered, DeleteSucceeds, DeleteFails, Faded, FadedChosen, FadedDeleted, FadedHidden, Removed, history
<1>5. CASE UNCHANGED vars
  BY <1>5 DEF vars, history
<1> QED
  BY <1>1, <1>2, <1>3, <1>4, <1>5 DEF Next

\* A list without holes is extended by what was sent; it was empty if it is replaced.
LEMMA AgreedUpload ==
  ASSUME BaseInv, sending # None, NEW append \in BOOLEAN, Stored(append),
         append => content # None \/ ~sending.one,
         None \notin Members(initialPreview), ~append => Count = 0,
         IF content = None THEN initialPreview = <<>> ELSE content = initialPreview,
         content' = IF append /\ content # None THEN content \o sending.files ELSE sending.files
  PROVE  content' = initialPreview' /\ content' # None /\ initialPreview' = initialPreview \o sending.files
<1> DEFINE files == sending.files
<1>1. initialPreview' = Merge(initialPreview, files) /\ initialPreview \in Seq(Entries) /\ files \in Seq(Items)
      /\ files \in Seq(Entries)
  BY StoredLists DEF Stored, BaseInv, TypeOK, Entries
<1> HIDE DEF files
<1>2. initialPreview' = initialPreview \o files
  BY <1>1, Constants, MergeProperties
<1>3. ASSUME ~append \/ content = None PROVE initialPreview = <<>>
  <2>1. content # None => Len(content) = 0 /\ content \in Seq(Entries)
    BY <1>3 DEF Count, BaseInv, TypeOK, Entries
  <2> QED
    BY <2>1, EmptySeq
<1>4. content' = initialPreview \o files
  <2>1. <<>> \o files = files
    BY <1>1, ConcatEmptySeq
  <2> QED
    BY <1>3, <2>1 DEF files
<1>5. initialPreview \o files \in Seq(Entries)
  BY <1>1, ConcatProperties
<1> QED
  BY <1>2, <1>4, <1>5, Constants DEF files

LEMMA SpliceEmpty ==
  ASSUME NEW i \in Int
  PROVE  Splice(<<>>, i) = <<>>
<1>1. <<>> \in Seq(Entries) /\ Members(<<>>) = {}
  BY DEF Members
<1>2. Copy(<<>>) = <<>>
  BY <1>1, CopyProperties
<1> QED
  BY <1>2 DEF Splice

Agreed == IF content = None THEN initialPreview = <<>> ELSE content = initialPreview

LEMMA AgreedRemoval ==
  ASSUME BaseInv, NEW f \in Frames, Removed(f), Agreed
  PROVE  Agreed'
<1> DEFINE i == index[f]
<1>1. content' = CacheWithout(i) /\ initialPreview' = Splice(IF Count = 1 THEN <<>> ELSE initialPreview, i)
  BY DEF Removed
<1>2. i \in Int /\ reverse \in BOOLEAN /\ initialPreview \in Seq(Entries)
  BY DEF BaseInv, TypeOK, Entries
<1> HIDE DEF i
<1>3. CASE Count = 0
  <2>1. content # None => Len(content) = 0 /\ content \in Seq(Entries)
    BY <1>3 DEF Count, BaseInv, TypeOK, Entries
  <2>2. initialPreview = <<>>
    BY <2>1, EmptySeq DEF Agreed
  <2>3. content' = content /\ initialPreview' = <<>>
    BY <1>1, <1>2, <1>3, <2>2, SpliceEmpty DEF CacheWithout
  <2> QED
    BY <2>2, <2>3 DEF Agreed
<1>4. CASE Count = 1
  <2>1. content' = <<>> /\ initialPreview' = <<>>
    BY <1>1, <1>2, <1>4, SpliceEmpty DEF CacheWithout
  <2> QED
    BY <2>1 DEF Agreed
<1>5. CASE Count # 0 /\ Count # 1
  <2>1. content' = Splice(content, i) /\ initialPreview' = Splice(initialPreview, i) /\ content # None
    BY <1>1, <1>5 DEF CacheWithout, Count
  <2>2. Splice(initialPreview, i) \in Seq(Entries)
    BY <1>2, SpliceProperties
  <2> QED
    BY <2>1, <2>2, Constants DEF Agreed
<1> QED
  BY <1>3, <1>4, <1>5

LEMMA AgreedStep ==
  ASSUME BaseInv, [Next]_vars, ~Happened({"replaced", "holed", "threw"})', Agreed
  PROVE  Agreed'
<1>1. CASE UNCHANGED <<initialPreview, content>>
  BY <1>1 DEF Agreed
<1>2. CASE User
  <2>1. CASE Clear
    <3>1. initialPreview' = initialPreview /\ (content' = content \/ (~(Count > 0) /\ content' = None))
      BY <2>1 DEF Clear
    <3>2. ASSUME ~(Count > 0) PROVE initialPreview = <<>>
      <4>1. content # None => Len(content) \in Nat /\ content \in Seq(Entries)
        BY DEF BaseInv, TypeOK, Entries
      <4>2. content # None => Len(content) = 0
        BY <3>2, <4>1 DEF Count
      <4> QED
        BY <4>1, <4>2, EmptySeq DEF Agreed
    <3> QED
      BY <3>1, <3>2 DEF Agreed
  <2> QED
    BY <1>1, <1>2, <2>1 DEF User, Choose, AskDelete, Hide, UploadAll, UploadOne, Upload, lists
<1>3. CASE EndDrag
  <2>1. CASE Announced
    <3>1. content' = initialPreview'
      BY <1>3, <2>1 DEF EndDrag, Sorted
    <3>2. initialPreview' \in Seq(Entries)
      BY BaseStep DEF BaseInv, TypeOK, Entries
    <3> QED
      BY <3>1, <3>2, Constants DEF Agreed
  <2> QED
    BY <1>1, <1>3, <2>1 DEF EndDrag, lists
<1>4. CASE UploadAnswered
  <2>1. ASSUME NEW a \in BOOLEAN, Misled(a) \subseteq events'
        PROVE  None \notin Members(initialPreview) /\ (~a => Count = 0)
    <3>1. "replaced" \notin Misled(a) /\ "holed" \notin Misled(a)
      BY <2>1 DEF Happened
    <3>2. Count \in Nat
      BY DEF Count, BaseInv, TypeOK
    <3> QED
      BY <3>1, <3>2 DEF Misled, Members
  <2>2. ASSUME NEW a \in BOOLEAN, AcceptAll(a) PROVE Agreed'
    <3>1. /\ sending # None /\ ~sending.one /\ Stored(a) /\ Misled(a) \subseteq events'
          /\ content' = IF a /\ content # None THEN content \o sending.files ELSE sending.files
      BY <2>2 DEF AcceptAll
    <3> QED
      BY <2>1, <3>1, AgreedUpload DEF Agreed
  <2>3. ASSUME NEW a \in BOOLEAN, AcceptOne(a) PROVE Agreed'
    <3>1. sending # None /\ sending.one /\ Stored(a) /\ a /\ content # None
      BY <2>3 DEF AcceptOne, Happened
    <3>2. Misled(a) \subseteq events' /\ content' = Append(content, sending.files[1])
      BY <2>3, <3>1 DEF AcceptOne
    <3>3. sending.files = <<sending.files[1]>> /\ sending.files[1] \in Entries
      <4> DEFINE files == sending.files
      <4>1. files \in Seq(Items) /\ Len(files) = 1
        BY <3>1 DEF BaseInv, TypeOK, SendingInv
      <4> HIDE DEF files
      <4>2. files = <<files[1]>> /\ files[1] \in Items
        BY <4>1
      <4> QED
        BY <4>2 DEF files, Entries
    <3>4. content \in Seq(Entries) /\ Append(content, sending.files[1]) = content \o <<sending.files[1]>>
      BY <3>1, <3>3, AppendIsConcat DEF BaseInv, TypeOK, Entries
    <3>5. content' = IF a /\ content # None THEN content \o sending.files ELSE sending.files
      BY <3>1, <3>2, <3>3, <3>4
    <3> QED
      BY <2>1, <3>1, <3>2, <3>5, AgreedUpload DEF Agreed
  <2> QED
    BY <1>1, <1>4, <2>2, <2>3 DEF UploadAnswered, UploadFails, lists
<1>5. CASE \E f \in Frames : DeleteAnswered(f) \/ Faded(f)
  BY <1>1, <1>5, AgreedRemoval
     DEF DeleteAnswered, DeleteSucceeds, DeleteFails, Faded, FadedChosen, FadedDeleted, FadedHidden, lists
<1>6. CASE StartDrag \/ Drag \/ UNCHANGED vars
  BY <1>1, <1>6 DEF StartDrag, Drag, vars, lists
<1> QED
  BY <1>2, <1>3, <1>4, <1>5, <1>6 DEF Next

\* The cache and initialPreview are the same list, through every upload, deletion,
\* clearing and sort, unless an answer replaced the cache, an entry was undefined, or
\* an exception of a single upload left the cache behind (fileinput.js, previewCache.unset
\* and _deleteFileIndex, set and _mergeArray, onSort).
THEOREM CacheAgreement == Spec => []CacheAgrees
<1>1. Init => CacheAgrees
  <2>1. Loaded \in Seq(Entries)
    BY Constants, SeqOfLarger, Items \subseteq Entries DEF Entries
  <2> QED
    BY <2>1, Constants DEF Init, CacheAgrees
<1>2. BaseInv /\ CacheAgrees /\ [Next]_vars => CacheAgrees'
  <2>1. [Next]_vars => (Happened({"replaced", "holed", "threw"}) => Happened({"replaced", "holed", "threw"})')
    BY EventsGrow DEF Happened
  <2>2. CacheAgrees <=> (~Happened({"replaced", "holed", "threw"}) => Agreed)
    BY DEF CacheAgrees, Agreed
  <2>3. CacheAgrees' <=> (~Happened({"replaced", "holed", "threw"})' => Agreed')
    BY DEF CacheAgrees, Agreed, Happened
  <2> QED
    BY <2>1, <2>2, <2>3, AgreedStep
<1> QED
  BY <1>1, <1>2, BaseInvariance, PTL DEF Spec

-----------------------------------------------------------------------------
(* The numbers beside the thumbnails. *)

Disorder == {"reversed", "again", "dragged", "replaced", "unordered", "aborted", "hidden"}

\* The thumbnail that is on its way, and the number of a thumbnail from the front of the page.
Moving == IF drag # None /\ drag.moved THEN {drag.frame} ELSE {}
Number(f) == IF reverse THEN Len(initialPreview) + 1 - index[f] ELSE index[f]

\* The index beside a thumbnail is that of its own entry.
NamedInv ==
  /\ None \notin Members(initialPreview)
  /\ \A f \in InitialElements : index[f] \in DOMAIN initialPreview /\ initialPreview[index[f]] = f.item

\* But for the one that is moved, the thumbnails are in the order of their numbers.
OrderInv ==
  \A f, g \in InitialElements \ Moving : Precedes(page, f, g) => Number(f) < Number(g)

\* What is dragged is on the page, and the number noted for it is its own, if no
\* thumbnail is missing.
DragInv ==
  drag # None => /\ drag.frame \in Elements \ boxed
                 /\ boxed = {} /\ hidden = {} => drag.oldIndex = Number(drag.frame)

Shown == {f.item : f \in InitialElements}

\* What is listed is what is shown and what a button has taken away; after the
\* exception nothing is shown.
ShownInv ==
  IF "threw" \in events THEN InitialElements = {}
  ELSE /\ Agreed
       /\ Members(initialPreview) = Shown \cup hidden /\ Shown \cap hidden = {}
       /\ fileIds = Members(initialPreview) /\ fileIds = stored \ deleted

Ordered == NamedInv /\ OrderInv /\ DragInv /\ ShownInv

NumberInv == ~Happened(Disorder) => Ordered

LEMMA InitialProperties ==
  ASSUME BaseInv
  PROVE  /\ \A f \in InitialElements : f \in Elements /\ f \in Frames /\ f.gen = gen /\ f.item \in Items
         /\ \A f, g \in InitialElements : f.item = g.item => f = g
         /\ \A f : f \in InitialElements <=> f \in Elements /\ Initial(f)
         /\ drag # None => Initial(drag.frame) /\ drag.frame \in Frames
<1>1. \A f \in InitialElements : f \in Elements /\ f \in Frames /\ f.gen = gen
  BY PageFacts DEF InitialElements, BaseInv, PageInv
<1>2. \A f \in InitialElements : f.item \in Items /\ f = [item |-> f.item, gen |-> gen]
  BY <1>1, FrameFields
<1>3. \A f, g \in InitialElements : f.item = g.item => f = g
  BY <1>2
<1>4. drag # None => Initial(drag.frame) /\ drag.frame \in Frames
  BY PageFacts DEF BaseInv, PageInv, Initial, TypeOK
<1> QED
  BY <1>1, <1>2, <1>3, <1>4 DEF InitialElements

LEMMA NumberProperties ==
  ASSUME BaseInv, NamedInv
  PROVE  /\ \A f \in InitialElements : /\ index[f] \in 1 .. Len(initialPreview)
                                       /\ Number(f) \in 1 .. Len(initialPreview)
                                       /\ Turned(initialPreview)[Number(f)] = f.item
         /\ \A f, g \in InitialElements : Number(f) = Number(g) => f = g
         /\ \A f, g \in InitialElements : index[f] = index[g] => f = g
         /\ Len(initialPreview) \in Nat /\ initialPreview \in Seq(Entries)
<1>1. initialPreview \in Seq(Entries) /\ Len(initialPreview) \in Nat /\ reverse \in BOOLEAN
      /\ DOMAIN initialPreview = 1 .. Len(initialPreview)
  BY DEF BaseInv, TypeOK, Entries
<1>2. \A i \in 1 .. Len(initialPreview) :
        Turned(initialPreview)[i] = IF reverse THEN initialPreview[Len(initialPreview) + 1 - i] ELSE initialPreview[i]
  BY <1>1, TurnedProperties
<1>3. \A f, g \in InitialElements : index[f] = index[g] => f = g
  BY InitialProperties DEF NamedInv
<1>4. \A f \in InitialElements : index[f] \in 1 .. Len(initialPreview) /\ initialPreview[index[f]] = f.item
  BY <1>1 DEF NamedInv
<1>5. ASSUME NEW f \in InitialElements
      PROVE  Number(f) \in 1 .. Len(initialPreview) /\ Turned(initialPreview)[Number(f)] = f.item
  <2>1. index[f] \in 1 .. Len(initialPreview) /\ initialPreview[index[f]] = f.item
    BY <1>4
  <2>2. Number(f) \in 1 .. Len(initialPreview)
    BY <1>1, <2>1 DEF Number
  <2>3. reverse => Len(initialPreview) + 1 - Number(f) = index[f]
    BY <1>1, <2>1 DEF Number
  <2>4. ~reverse => Number(f) = index[f]
    BY DEF Number
  <2> QED
    BY <1>1, <1>2, <2>1, <2>2, <2>3, <2>4
<1>6. ASSUME NEW f \in InitialElements, NEW g \in InitialElements, Number(f) = Number(g) PROVE f = g
  <2>1. index[f] \in Nat /\ index[g] \in Nat
    BY <1>4
  <2>2. index[f] = index[g]
    BY <1>1, <1>6, <2>1 DEF Number
  <2> QED
    BY <1>3, <2>2
<1> QED
  BY <1>1, <1>3, <1>4, <1>5, <1>6

\* The numbers of the thumbnails, in the order of the page.
LEMMA Numbers ==
  ASSUME BaseInv, NamedInv, OrderInv, Members(initialPreview) = {f.item : f \in InitialElements}
  PROVE  LET P == Only(page, InitialElements)
             q == [n \in DOMAIN P |-> Number(P[n])]
         IN  /\ P \in Seq(Frames) /\ Distinct(P) /\ Members(P) = InitialElements
             /\ \A f, g \in InitialElements : Precedes(page, f, g) => Precedes(P, f, g)
             /\ q \in Seq(Nat) /\ Len(q) = Len(P) /\ DOMAIN q = DOMAIN P /\ \A n \in DOMAIN P : q[n] = Number(P[n])
             /\ Members(q) = 1 .. Len(initialPreview) /\ Distinct(q)
             /\ \A m, n \in DOMAIN q : m < n /\ P[m] \notin Moving /\ P[n] \notin Moving => q[m] < q[n]
             /\ Listed = Turned(P)
<1> DEFINE P == Only(page, InitialElements)
           q == [n \in DOMAIN P |-> Number(P[n])]
           k == Len(initialPreview)
<1>1. page \in Seq(Frames) /\ Distinct(page) /\ Elements = Members(page) /\ InitialElements \subseteq Elements
  BY PageFacts, InitialProperties DEF BaseInv, PageInv
<1>2. Listed = Turned(P)
  BY DEF Listed, InitialElements
<1>3. /\ P \in Seq(Frames \cap InitialElements) /\ Members(P) = InitialElements /\ Distinct(P)
      /\ \A a, b : Precedes(P, a, b) => Precedes(page, a, b)
  <2>1. P \in Seq(Frames \cap InitialElements)
    BY <1>1, OnlyProperties
  <2>2. /\ Members(P) = Members(page) \cap InitialElements /\ Distinct(P)
        /\ \A a, b : Precedes(P, a, b) => Precedes(page, a, b)
    BY <1>1, OnlyOrder
  <2> QED
    BY <1>1, <2>1, <2>2
<1>4. P \in Seq(Frames)
  BY <1>3, SeqOfLarger, Frames \cap InitialElements \subseteq Frames
<1>5. \A f, g \in InitialElements : Precedes(page, f, g) => Precedes(P, f, g)
  <2>1. PICK place \in [DOMAIN P -> Places(page, InitialElements)] :
         /\ \A n \in DOMAIN P : P[n] = page[place[n]]
         /\ \A m, n \in DOMAIN P : m < n => place[m] < place[n]
         /\ \A i \in Places(page, InitialElements) : \E n \in DOMAIN P : place[n] = i
    BY <1>1, OnlyOrdered
  <2> HIDE DEF P
  <2>2. DOMAIN P = 1 .. Len(P) /\ DOMAIN page = 1 .. Len(page)
    BY <1>1, <1>4
  <2>3. ASSUME NEW f \in InitialElements, NEW g \in InitialElements, Precedes(page, f, g) PROVE Precedes(P, f, g)
    <3>1. PICK i \in DOMAIN page, j \in DOMAIN page : i < j /\ page[i] = f /\ page[j] = g
      BY <2>3 DEF Precedes
    <3>2. i \in Places(page, InitialElements) /\ j \in Places(page, InitialElements)
      BY <2>3, <3>1 DEF Places
    <3>3. PICK m \in DOMAIN P : place[m] = i
      BY <2>1, <3>2
    <3>4. PICK n \in DOMAIN P : place[n] = j
      BY <2>1, <3>2
    <3>5. P[m] = f /\ P[n] = g
      BY <2>1, <3>1, <3>3, <3>4
    <3>6. ~(n < m) /\ m # n
      BY <2>1, <2>2, <3>1, <3>3, <3>4
    <3>7. m < n
      BY <2>2, <3>6
    <3> QED
      BY <3>5, <3>7 DEF Precedes
  <2> QED
    BY <2>3
<1> HIDE DEF P
<1>6. DOMAIN P = 1 .. Len(P) /\ Len(P) \in Nat /\ \A n \in DOMAIN P : P[n] \in InitialElements
  BY <1>3, <1>4 DEF Members
<1>7. \A n \in DOMAIN P : Number(P[n]) \in 1 .. k
  BY <1>6, NumberProperties
<1>8. q \in Seq(Nat) /\ Len(q) = Len(P) /\ DOMAIN q = DOMAIN P /\ \A n \in DOMAIN P : q[n] = Number(P[n])
  <2>1. \A n \in DOMAIN P : Number(P[n]) \in Nat
    BY <1>7, NumberProperties
  <2> QED
    BY <1>6, <2>1
<1> HIDE DEF q
<1>9. \A m, n \in DOMAIN q : m < n /\ P[m] \notin Moving /\ P[n] \notin Moving => q[m] < q[n]
  <2>1. ASSUME NEW m \in DOMAIN P, NEW n \in DOMAIN P, m < n, P[m] \notin Moving, P[n] \notin Moving
        PROVE  Number(P[m]) < Number(P[n])
    <3>1. Precedes(page, P[m], P[n])
      BY <1>3, <2>1 DEF Precedes
    <3> QED
      BY <1>6, <2>1, <3>1 DEF OrderInv
  <2> QED
    BY <1>8, <2>1
<1>10. Distinct(q)
  <2>1. \A m, n \in DOMAIN P : q[m] = q[n] => P[m] = P[n]
    BY <1>6, <1>8, NumberProperties
  <2> QED
    BY <1>3, <1>8, <2>1 DEF Distinct
<1>11. Members(q) = 1 .. k
  <2>1. Members(q) \subseteq 1 .. k
    BY <1>7, <1>8 DEF Members
  <2>2. ASSUME NEW i \in 1 .. k PROVE i \in Members(q)
    <3> DEFINE j == IF reverse THEN k + 1 - i ELSE i
    <3>1. k \in Nat /\ initialPreview \in Seq(Entries) /\ DOMAIN initialPreview = 1 .. k /\ reverse \in BOOLEAN
      BY NumberProperties DEF BaseInv, TypeOK
    <3> HIDE DEF k
    <3>2. j \in 1 .. k /\ (IF reverse THEN k + 1 - j ELSE j) = i
      BY <3>1
    <3> HIDE DEF j
    <3>3. initialPreview[j] \in Members(initialPreview)
      BY <3>1, <3>2 DEF Members
    <3>4. PICK f \in InitialElements : f.item = initialPreview[j]
      BY <3>3
    <3>5. index[f] \in DOMAIN initialPreview /\ initialPreview[index[f]] = f.item
      BY DEF NamedInv
    <3>6. Single(initialPreview) /\ initialPreview[j] # None
      BY <3>3 DEF BaseInv, ListInv, Lists, NamedInv
    <3>7. index[f] = j
      BY <3>1, <3>2, <3>4, <3>5, <3>6 DEF Single
    <3>8. Number(f) = i
      BY <3>2, <3>7 DEF Number, k
    <3>9. PICK n \in DOMAIN P : P[n] = f
      BY <1>3 DEF Members
    <3>10. q[n] = i /\ n \in DOMAIN q
      BY <1>8, <3>8, <3>9
    <3> QED
      BY <3>10 DEF Members
  <2> QED
    BY <2>1, <2>2
<1> QED
  BY <1>2, <1>3, <1>4, <1>5, <1>8, <1>9, <1>10, <1>11 DEF P, q

\* A step that leaves the lists and the thumbnails of stored files alone.
LEMMA StillOrdered ==
  ASSUME Ordered, UNCHANGED <<reverse, boxed, initialPreview, content, index, hidden, fileIds, stored, deleted>>,
         "threw" \in events' <=> "threw" \in events, InitialElements' = InitialElements,
         \A a, b \in InitialElements \ Moving' : Precedes(page', a, b) => Precedes(page, a, b),
         Moving \subseteq Moving',
         drag' # None => /\ drag'.frame \in Elements' \ boxed
                         /\ boxed = {} /\ hidden = {} => drag'.oldIndex = Number(drag'.frame)
  PROVE  Ordered'
<1>1. NamedInv'
  BY DEF Ordered, NamedInv
<1>2. \A f : Number(f)' = Number(f)
  BY DEF Number
<1>3. OrderInv'
  <2>1. \A f, g \in InitialElements \ Moving' : Precedes(page', f, g) => Number(f) < Number(g)
    BY DEF Ordered, OrderInv
  <2> QED
    BY <2>1 DEF OrderInv, Number
<1>4. DragInv'
  BY DEF DragInv, Number
<1>5. ShownInv'
  BY DEF Ordered, ShownInv, Shown, Agreed
<1> QED
  BY <1>1, <1>3, <1>4, <1>5 DEF Ordered

\* Where nothing was aborted a drag that ended had not moved anything.
LEMMA NotAborted ==
  ASSUME ~Happened(Disorder)', events' = events \cup Aborted, drag' = drag \/ drag' = None
  PROVE  Moving' = Moving
<1>1. "aborted" \notin Aborted
  BY DEF Happened, Disorder
<1> QED
  BY <1>1 DEF Aborted, Moving

LEMMA ChooseOrdered ==
  ASSUME BaseInv, Ordered, ~Happened(Disorder)', NEW x \in New, Choose(x)
  PROVE  Ordered'
<1> DEFINE shown == IF Count = 0 /\ Chosen = <<>> THEN Only(page, fading) ELSE page
           new == [item |-> x, gen |-> 0]
<1>1. /\ page' = IF reverse THEN <<new>> \o shown ELSE Append(shown, new)
      /\ drag' = Renewed(page', boxed) /\ events' = events \cup Aborted /\ "threw" \notin events
      /\ UNCHANGED <<reverse, boxed, initialPreview, content, index, hidden, fileIds, stored, deleted>>
  BY DEF Choose, lists, Click
<1>2. /\ page \in Seq(Frames) /\ Elements = Members(page) /\ new \in Frames
      /\ \A f : f \in InitialElements <=> f \in Elements /\ Initial(f)
  BY PageFacts, InitialProperties, FrameFields, Constants DEF Items
<1>3. \/ shown = page
      \/ shown = Only(page, fading) /\ InitialElements = {}
  <2>1. ASSUME Count = 0 PROVE InitialElements = {}
    <3>1. content # None => content \in Seq(Entries) /\ Len(content) = 0
      BY <2>1 DEF Count, BaseInv, TypeOK, Entries
    <3>2. initialPreview = <<>>
      BY <1>1, <3>1, EmptySeq DEF Ordered, ShownInv, Agreed
    <3> QED
      BY <3>2 DEF Ordered, NamedInv
  <2> QED
    BY <2>1
<1>4. shown \in Seq(Frames) /\ Members(shown) \subseteq Elements /\ InitialElements \subseteq Members(shown)
      /\ \A a, b : Precedes(shown, a, b) => Precedes(page, a, b)
  <2>1. Only(page, fading) \in Seq(Frames \cap fading) /\ Members(Only(page, fading)) \subseteq Members(page)
        /\ \A a, b : Precedes(Only(page, fading), a, b) => Precedes(page, a, b)
    BY <1>2, OnlyProperties, OnlyOrder
  <2>2. Only(page, fading) \in Seq(Frames)
    BY <2>1, SeqOfLarger, Frames \cap fading \subseteq Frames
  <2>3. InitialElements \subseteq Elements
    BY <1>2
  <2> HIDE DEF shown
  <2> QED
    BY <1>2, <1>3, <2>1, <2>2, <2>3
<1>5. ~Initial(new)
  BY DEF Initial
<1> HIDE DEF shown, new
<1>6. /\ Members(page') = Members(shown) \cup {new}
      /\ \A a, b : Precedes(page', a, b) => Precedes(shown, a, b) \/ a = new \/ b = new
  <2>1. CASE reverse
    BY <1>1, <1>2, <1>4, <2>1, FrontOrder
  <2>2. CASE ~reverse
    BY <1>1, <1>2, <1>4, <2>2, AppendOrder
  <2> QED
    BY <2>1, <2>2
<1>7. Elements' = Members(page')
  BY DEF Elements, Members
<1>8. InitialElements' = InitialElements
  <2>1. \A f : f \in InitialElements' <=> f \in Elements' /\ Initial(f)
    BY DEF InitialElements, Initial
  <2> QED
    BY <1>2, <1>4, <1>5, <1>6, <1>7, <2>1
<1>9. drag' = drag \/ drag' = None
  BY <1>1 DEF Renewed
<1>10. Moving' = Moving
  BY <1>1, <1>9, NotAborted
<1>11. \A a, b \in InitialElements : Precedes(page', a, b) => Precedes(page, a, b)
  BY <1>2, <1>4, <1>5, <1>6
<1>12. "threw" \in events' <=> "threw" \in events
  BY <1>1 DEF Aborted
<1>13. drag' # None => /\ drag'.frame \in Elements' \ boxed
                       /\ boxed = {} /\ hidden = {} => drag'.oldIndex = Number(drag'.frame)
  <2>1. drag # None => drag.frame \in InitialElements /\ drag.frame \notin boxed
    BY <1>2, InitialProperties DEF Ordered, DragInv
  <2> QED
    BY <1>4, <1>6, <1>7, <1>9, <2>1 DEF Ordered, DragInv
<1> QED
  BY <1>1, <1>8, <1>10, <1>11, <1>12, <1>13, StillOrdered

\* A page that is built anew is numbered from the front.
LEMMA RebuiltOrdered ==
  ASSUME BaseInv, NEW c \in Seq(Entries), Rebuild(c), gen + 1 <= MaxClicks + 1, Single(c),
         None \notin Members(c), initialPreview' = c, reverse' = reverse, drag' = None
  PROVE  /\ NamedInv' /\ OrderInv' /\ DragInv'
         /\ Shown' = Members(c) /\ hidden' = {}
<1> DEFINE turn(n) == IF reverse THEN Len(c) + 1 - n ELSE n
<1>1. /\ page' = Built(c) /\ gen' = gen + 1 /\ gen \in Nat /\ gen > 0
      /\ DOMAIN c = 1 .. Len(c) /\ Len(c) \in Nat
  BY PageFacts DEF Rebuild
<1>2. /\ Built(c) \in Seq(Frames) /\ DOMAIN Built(c) = DOMAIN c
      /\ \A n \in DOMAIN c : Built(c)[n] = [item |-> IF reverse THEN c[Len(c) + 1 - n] ELSE c[n], gen |-> gen + 1]
  BY BuiltProperties
<1>3. \A n \in DOMAIN c : turn(n) \in DOMAIN c /\ turn(turn(n)) = n
  BY <1>1
<1>4. \A n \in DOMAIN c : page'[n] = [item |-> c[turn(n)], gen |-> gen + 1]
  BY <1>1, <1>2
<1>5. \A n \in DOMAIN c : page'[n] \in Frames /\ page'[n].gen = gen + 1 /\ page'[n].item = c[turn(n)]
  <2>1. \A n \in DOMAIN c : Built(c)[n] \in Frames
    BY <1>2
  <2> HIDE DEF turn
  <2>2. ASSUME NEW n \in DOMAIN c
        PROVE  page'[n] \in Frames /\ page'[n].gen = gen + 1 /\ page'[n].item = c[turn(n)]
    <3>1. page'[n] \in Frames
      BY <1>1, <2>1
    <3>2. page'[n] = [item |-> c[turn(n)], gen |-> gen + 1]
      BY <1>4
    <3> QED
      BY <3>1, <3>2
  <2> QED
    BY <2>2
<1>6. \A f : f \in InitialElements' <=> \E n \in DOMAIN c : f = page'[n]
  <2>1. DOMAIN page' = DOMAIN c
    BY <1>1, <1>2
  <2>2. \A n \in DOMAIN c : page'[n].gen > 0
    <3>1. gen + 1 > 0
      BY <1>1
    <3> QED
      BY <1>5, <3>1
  <2> QED
    BY <2>1, <2>2 DEF InitialElements, Elements, Initial
<1>7. \A n \in DOMAIN c : index'[page'[n]] = turn(n)
  <2>1. SUFFICES ASSUME NEW n \in DOMAIN c PROVE index'[page'[n]] = turn(n)
    OBVIOUS
  <2> DEFINE f == page'[n]
  <2>2. f \in Frames /\ f.gen = gen + 1 /\ c[turn(n)] = f.item /\ turn(n) \in DOMAIN c
    BY <1>3, <1>5
  <2> HIDE DEF f, turn
  <2>3. index'[f] = CHOOSE m \in DOMAIN c : c[m] = f.item
    BY <2>2 DEF Rebuild
  <2>4. c[turn(n)] # None
    BY <2>2 DEF Members
  <2>5. \A m \in DOMAIN c : c[m] = f.item => m = turn(n)
    BY <2>2, <2>4 DEF Single
  <2> QED
    BY <2>2, <2>3, <2>5 DEF f
<1>8. NamedInv'
  <2>1. \A f \in InitialElements' : index'[f] \in DOMAIN c /\ c[index'[f]] = f.item
    <3> HIDE DEF turn
    <3> QED
      BY <1>3, <1>5, <1>6, <1>7
  <2> QED
    BY <2>1 DEF NamedInv
<1>9. \A n \in DOMAIN c : Number(page[n])' = n
  <2>1. \A n \in DOMAIN c : Number(page[n])' = turn(turn(n))
    BY <1>7 DEF Number
  <2> QED
    BY <1>3, <2>1
<1> HIDE DEF turn
<1>10. OrderInv'
  <2>1. ASSUME NEW f, NEW g, Precedes(page', f, g) PROVE Number(f)' < Number(g)'
    <3>1. PICK i \in DOMAIN c, j \in DOMAIN c : i < j /\ page'[i] = f /\ page'[j] = g
      BY <1>1, <1>2, <2>1 DEF Precedes
    <3>2. Number(page[i])' = Number(f)' /\ Number(page[j])' = Number(g)'
      BY <3>1 DEF Number
    <3> QED
      BY <1>9, <3>1, <3>2
  <2> QED
    BY <2>1 DEF OrderInv
<1>11. DragInv'
  BY DEF DragInv
<1>12. {f.item : f \in InitialElements'} = Members(c)
  <2>1. ASSUME NEW n \in DOMAIN c PROVE \E f \in InitialElements' : f.item = c[n]
    <3>1. turn(n) \in DOMAIN c /\ turn(turn(n)) = n
      BY <1>3
    <3> QED
      BY <1>5, <1>6, <3>1
  <2>2. \A f \in InitialElements' : f.item \in Members(c)
    BY <1>3, <1>5, <1>6 DEF Members
  <2> QED
    BY <2>1, <2>2 DEF Members
<1>13. Shown' = Members(c) /\ hidden' = {}
  BY <1>12 DEF Shown, Rebuild
<1> QED
  BY <1>8, <1>10, <1>11, <1>13

LEMMA ClearOrdered ==
  ASSUME BaseInv, Ordered, Clear
  PROVE  Ordered'
<1>1. /\ clicks < MaxClicks /\ sending = None /\ drag = None /\ "threw" \notin events
      /\ UNCHANGED <<reverse, initialPreview, fileIds, stored, deleted>>
  BY DEF Clear, Click
<1>2. CASE Count > 0
  <2>1. Rebuild(content) /\ content' = content /\ "threw" \notin events'
    BY <1>1, <1>2 DEF Clear
  <2>2. content \in Seq(Entries) /\ content # None /\ Single(content) /\ content = initialPreview
    BY <1>1, <1>2 DEF Count, BaseInv, TypeOK, ListInv, Lists, Entries, Ordered, ShownInv, Agreed
  <2>3. gen + 1 <= MaxClicks + 1
    <3>1. gen \in 0 .. MaxClicks + 1 /\ clicks \in 0 .. MaxClicks /\ MaxClicks \in Nat
          /\ gen + 0 <= clicks + 1
      BY <1>1, Constants DEF BaseInv, TypeOK, GenInv
    <3> QED
      BY <1>1, <3>1
  <2>4. drag' = None
    BY <1>1, <2>1 DEF Rebuild
  <2>5. /\ NamedInv' /\ OrderInv' /\ DragInv'
        /\ Shown' = Members(content) /\ hidden' = {}
    BY <1>1, <2>1, <2>2, <2>3, <2>4, RebuiltOrdered DEF Ordered, NamedInv
  <2>6. ShownInv'
    BY <1>1, <2>1, <2>2, <2>5 DEF Ordered, ShownInv, Agreed
  <2> QED
    BY <2>5, <2>6 DEF Ordered
<1>3. CASE ~(Count > 0)
  <2>1. page' = <<>> /\ content' = None /\ drag' = drag /\ events' = events /\ index' = index /\ hidden' = hidden
    BY <1>3 DEF Clear
  <2>2. InitialElements' = {}
    BY <2>1 DEF InitialElements, Elements
  <2>3. content # None => content \in Seq(Entries) /\ Len(content) \in Nat
    BY DEF BaseInv, TypeOK, Entries
  <2>4. content # None => Len(content) = 0
    BY <1>3, <2>3 DEF Count
  <2>5. initialPreview = <<>>
    BY <1>1, <2>3, <2>4, EmptySeq DEF Ordered, ShownInv, Agreed
  <2>6. NamedInv'
    BY <1>1, <2>2 DEF Ordered, NamedInv
  <2>7. OrderInv' /\ DragInv'
    BY <1>1, <2>1, <2>2 DEF OrderInv, DragInv
  <2>8. Members(initialPreview) = {} /\ hidden = {}
    <3>1. Members(initialPreview) = {}
      BY <2>5 DEF Members
    <3> QED
      BY <1>1, <3>1 DEF Ordered, ShownInv
  <2>10. Shown' = {}
    BY <2>2 DEF Shown
  <2>9. ShownInv'
    BY <1>1, <2>1, <2>2, <2>5, <2>8, <2>10 DEF Ordered, ShownInv, Agreed
  <2> QED
    BY <2>6, <2>7, <2>9 DEF Ordered
<1> QED
  BY <1>2, <1>3

\* An answer whose files are listed: they are listed in all three places.
LEMMA UploadShown ==
  ASSUME BaseInv, Ordered, ~Happened(Disorder)', NEW a \in BOOLEAN, sending # None, Stored(a),
         a => content # None \/ ~sending.one, Misled(a) \subseteq events', "threw" \notin events, "threw" \notin events',
         content' = IF a /\ content # None THEN content \o sending.files ELSE sending.files,
         fileIds' = fileIds \cup Members(sending.files)
  PROVE  /\ content' = initialPreview' /\ content' # None /\ initialPreview' = initialPreview \o sending.files
         /\ initialPreview' \in Seq(Entries) /\ Single(initialPreview')
         /\ Members(initialPreview') = Members(initialPreview) \cup Members(sending.files)
         /\ None \notin Members(initialPreview')
         /\ Members(initialPreview') = Shown' \cup hidden' /\ Shown' \cap hidden' = {} => ShownInv'
         /\ hidden \cap Members(sending.files) = {}
<1> DEFINE files == sending.files
<1>1. Agreed /\ None \notin Members(initialPreview) /\ fileIds = Members(initialPreview) /\ fileIds = stored \ deleted
  BY DEF Ordered, NamedInv, ShownInv
<1>2. ~a => Count = 0
  <2>1. Count \in Nat /\ "replaced" \notin Misled(a)
    BY DEF Count, BaseInv, TypeOK, Happened, Disorder
  <2> QED
    BY <2>1 DEF Misled
<1>3. content' = initialPreview' /\ content' # None /\ initialPreview' = initialPreview \o files
  BY <1>1, <1>2, AgreedUpload DEF Agreed
<1>4. initialPreview \in Seq(Entries) /\ Lists(initialPreview) /\ deleted \subseteq stored /\ Members(files) \cap stored = {}
  BY DEF BaseInv, TypeOK, ListInv, SendingInv, Entries
<1>5. /\ initialPreview \o files \in Seq(Entries) /\ Single(initialPreview \o files)
      /\ Members(initialPreview \o files) = Members(initialPreview) \cup Members(files)
      /\ stored' = stored \cup Members(files) /\ files \in Seq(Items)
  BY <1>4, StoredLists
<1>6. None \notin Members(files)
  <2> HIDE DEF files
  <2> QED
    BY <1>5, Constants DEF Members
<1>7. deleted' = deleted
  BY DEF Stored
<1> HIDE DEF files
<1>8. fileIds' = Members(initialPreview') /\ fileIds' = stored' \ deleted'
  BY <1>1, <1>3, <1>4, <1>5, <1>7 DEF files
<1>9. Members(initialPreview') = Shown' \cup hidden' /\ Shown' \cap hidden' = {} => ShownInv'
  BY <1>3, <1>8 DEF ShownInv, Agreed
<1>10. hidden \cap Members(files) = {}
  BY <1>1, <1>4 DEF Ordered, ShownInv, files
<1> QED
  BY <1>1, <1>3, <1>5, <1>6, <1>9, <1>10 DEF files

LEMMA AcceptAllOrdered ==
  ASSUME BaseInv, Ordered, ~Happened(Disorder)', NEW a \in BOOLEAN, AcceptAll(a)
  PROVE  Ordered'
<1> DEFINE c == IF a /\ content # None THEN content \o sending.files ELSE sending.files
<1>1. /\ sending # None /\ ~sending.one /\ Stored(a) /\ content' = c /\ Rebuild(c) /\ Misled(a) \subseteq events'
      /\ fileIds' = fileIds \cup Members(sending.files) /\ reverse' = reverse
      /\ "threw" \notin events /\ "threw" \notin events'
  <2>1. "threw" \notin events
    BY DEF AcceptAll, BaseInv, SendingInv
  <2>2. events' = events \cup Misled(a) \cup (IF Held THEN {"rebuilt"} ELSE {}) /\ "threw" \notin Misled(a)
    BY DEF AcceptAll, Misled
  <2> QED
    BY <2>1, <2>2 DEF AcceptAll, Stored, AddFileIds, Files, Members
<1> HIDE DEF c
<1>2. /\ content' = initialPreview' /\ content' # None
      /\ initialPreview' \in Seq(Entries) /\ Single(initialPreview')
      /\ Members(initialPreview') = Members(initialPreview) \cup Members(sending.files)
      /\ None \notin Members(initialPreview')
      /\ Members(initialPreview') = Shown' \cup hidden' /\ Shown' \cap hidden' = {} => ShownInv'
  BY <1>1, UploadShown DEF c
<1>3. c \in Seq(Entries) /\ Single(c) /\ None \notin Members(c) /\ initialPreview' = c
      /\ Members(sending.files) \subseteq Members(c)
  BY <1>1, <1>2
<1>4. gen + 1 <= MaxClicks + 1
  <2>1. gen \in 0 .. MaxClicks + 1 /\ clicks \in 0 .. MaxClicks /\ MaxClicks \in Nat /\ gen + 1 <= clicks + 1
    BY <1>1, Constants DEF BaseInv, TypeOK, GenInv
  <2> QED
    BY <2>1
<1>5. drag' = None
  <2> DEFINE files == sending.files
  <2>1. files \in Seq(Items) /\ files # <<>>
    BY <1>1, StoredLists
  <2> HIDE DEF files
  <2>2. Len(files) # 0 /\ Len(files) \in Nat
    BY <2>1, EmptySeq
  <2>3. 1 \in DOMAIN files
    BY <2>1, <2>2
  <2>4. files[1] \in Items /\ files[1] \in Members(c)
    BY <1>3, <2>1, <2>3 DEF files, Members
  <2>5. Built(c) # <<>>
    <3>1. Members(Built(c)) = {[item |-> x, gen |-> gen + 1] : x \in Members(c) \cap Items}
      BY <1>3, <1>4, BuiltProperties
    <3>2. [item |-> files[1], gen |-> gen + 1] \in Members(Built(c))
      BY <2>4, <3>1
    <3>3. Members(<<>>) = {}
      BY DEF Members
    <3> QED
      BY <3>2, <3>3
  <2> QED
    BY <1>1, <2>5 DEF Rebuild
<1>6. /\ NamedInv' /\ OrderInv' /\ DragInv'
      /\ Shown' = Members(c) /\ hidden' = {}
  BY <1>1, <1>3, <1>4, <1>5, RebuiltOrdered
<1> QED
  BY <1>2, <1>3, <1>6 DEF Ordered

LEMMA AcceptOneOrdered ==
  ASSUME BaseInv, BaseInv', Ordered, ~Happened(Disorder)', NEW a \in BOOLEAN, AcceptOne(a)
  PROVE  Ordered'
<1> DEFINE x == sending.files[1]
           thumb == [item |-> x, gen |-> 0]
           new == [item |-> x, gen |-> gen]
           k == Len(initialPreview)
           c == Append(content, x)
           at == CHOOSE n \in DOMAIN page : page[n] = thumb
<1>1. /\ sending # None /\ sending.one /\ Stored(a) /\ "threw" \notin events
      /\ UNCHANGED <<reverse, drag, gen, hidden, deleted>>
  BY DEF AcceptOne, Stored, buttons, BaseInv, SendingInv
<1>2. /\ sending.files = <<x>> /\ x \in Items /\ Members(sending.files) = {x} /\ x \notin stored
      /\ thumb \in Elements
  <2> DEFINE files == sending.files
  <2>1. files \in Seq(Items) /\ Len(files) = 1 /\ [item |-> files[1], gen |-> 0] \in Elements /\ Members(files) \cap stored = {}
    BY <1>1, StoredLists DEF BaseInv, SendingInv
  <2> HIDE DEF files
  <2>2. files = <<files[1]>> /\ files[1] \in Items
    <3>1. files \in Seq(Items) /\ Len(files) = 1
      BY <2>1
    <3> QED
      BY <3>1
  <2>3. Members(<<files[1]>>) = {files[1]}
    BY DEF Members
  <2>4. Members(files) = {files[1]}
    BY <2>2, <2>3
  <2> QED
    BY <2>1, <2>2, <2>4 DEF files
<1>3. /\ page \in Seq(Frames) /\ Elements = Members(page) /\ gen \in Nat /\ gen > 0
      /\ \A f : f \in InitialElements <=> f \in Elements /\ Initial(f)
      /\ \A f \in InitialElements : f.item \in stored
      /\ Agreed /\ None \notin Members(initialPreview) /\ initialPreview \in Seq(Entries)
      /\ Members(initialPreview) = Shown \cup hidden /\ Shown \cap hidden = {}
  BY <1>1, PageFacts, InitialProperties DEF Ordered, NamedInv, ShownInv, BaseInv, PageInv, TypeOK, Entries
<1> HIDE DEF x
<1>4. new.item = x /\ thumb.item = x /\ Initial(new) /\ ~Initial(thumb) /\ new \in Frames
  BY <1>2, <1>3, FrameFields, PageFacts DEF Initial
<1>5. CASE ~(a /\ content # None)
  <2>1. "threw" \in events' /\ Misled(a) \subseteq events' /\ UNCHANGED <<page, boxed, index, fading, fileIds>>
    BY <1>5 DEF AcceptOne
  <2>2. initialPreview = <<>> /\ InitialElements = {}
    <3>1. content = None \/ (content \in Seq(Entries) /\ Len(content) \in Nat)
      BY DEF BaseInv, TypeOK, Entries
    <3>2. content = None \/ Len(content) = 0
      <4>1. "replaced" \notin Misled(a)
        BY <2>1 DEF Happened, Disorder
      <4> QED
        BY <1>5, <3>1, <4>1 DEF Misled, Count
    <3>3. initialPreview = <<>>
      BY <1>3, <3>1, <3>2, EmptySeq DEF Agreed
    <3> QED
      BY <3>3 DEF Ordered, NamedInv
  <2>3. InitialElements' = {}
    BY <2>1, <2>2 DEF InitialElements, Elements, Initial
  <2>4. None \notin Members(initialPreview')
    <3>1. initialPreview' = Merge(initialPreview, sending.files) /\ sending.files \in Seq(Items)
      BY <1>1, StoredLists DEF Stored
    <3>2. Members(initialPreview') = (Members(initialPreview) \cap Items) \cup {x}
      BY <1>2, <1>3, <3>1, Constants, MergeProperties
    <3> QED
      BY <1>2, <3>2, Constants
  <2>5. drag = None
    BY <1>3, <2>2, InitialProperties DEF Ordered, DragInv
  <2> QED
    BY <1>1, <1>5, <2>1, <2>3, <2>4, <2>5 DEF Ordered, NamedInv, OrderInv, DragInv, ShownInv
<1>6. CASE a /\ content # None
  <2>1. /\ content' = c /\ page' = Seqs!InsertAt(page, at + 1, new) /\ boxed' = boxed \cup {new}
        /\ index' = [index EXCEPT ![new] = Len(content) + 1]
        /\ fileIds' = fileIds \cup {x} /\ Misled(a) \subseteq events' /\ "threw" \notin events' /\ ~Passed(x)
    <3>1. events' = events \cup Misled(a) \cup (IF Passed(x) THEN {"unordered"} ELSE {}) /\ "threw" \notin Misled(a)
      BY <1>6 DEF AcceptOne, Misled, x
    <3>2. ~Passed(x)
      BY <3>1 DEF Happened, Disorder
    <3> QED
      BY <1>1, <1>6, <3>1, <3>2 DEF AcceptOne, AddFileIds, x
  <2>2. at \in DOMAIN page /\ page[at] = thumb
    BY <1>2 DEF Elements
  <2> HIDE DEF at
  <2>3. at \in Nat /\ at + 1 \in 1 .. Len(page) + 1 /\ DOMAIN page = 1 .. Len(page)
    BY <1>3, <2>2
  <2>4. c = IF a /\ content # None THEN content \o sending.files ELSE sending.files
    <3>1. content \in Seq(Entries)
      BY <1>6 DEF BaseInv, TypeOK, Entries
    <3>2. x \in Entries
      BY <1>2 DEF Entries
    <3>3. Append(content, x) = content \o <<x>>
      BY <3>1, <3>2, AppendIsConcat
    <3> QED
      BY <1>2, <1>6, <3>3
  <2> HIDE DEF c
  <2>5. /\ content' = initialPreview' /\ initialPreview' = initialPreview \o <<x>>
        /\ Members(initialPreview') = Members(initialPreview) \cup {x}
        /\ None \notin Members(initialPreview') /\ x \notin hidden
        /\ Members(initialPreview') = Shown' \cup hidden' /\ Shown' \cap hidden' = {} => ShownInv'
    BY <1>1, <1>2, <1>6, <2>1, <2>4, UploadShown
  <2>6. /\ k \in Nat /\ DOMAIN initialPreview = 1 .. k /\ Len(initialPreview') = k + 1 /\ DOMAIN initialPreview' = 1 .. k + 1
        /\ \A i \in 1 .. k : initialPreview'[i] = initialPreview[i]
        /\ initialPreview'[k + 1] = x /\ Len(content) + 1 = k + 1
    <3>1. content = initialPreview
      BY <1>3, <1>6 DEF Agreed
    <3>2. initialPreview \in Seq(Entries) /\ x \in Entries
      BY <1>2, <1>3 DEF Entries
    <3> QED
      BY <2>5, <3>1, <3>2
  <2> HIDE DEF k
  <2>7. new \notin Elements
    BY <1>2, <1>3, <1>4
  <2> HIDE DEF new, thumb
  <2>8. /\ Members(page') = Elements \cup {new}
        /\ \A f, g : Precedes(page', f, g) =>
             \/ Precedes(page, f, g)
             \/ g = new /\ \E i \in 1 .. Len(page) : i < at + 1 /\ page[i] = f
             \/ f = new /\ \E i \in 1 .. Len(page) : at + 1 <= i /\ page[i] = g
    BY <1>3, <1>4, <2>1, <2>3, InsertOrder
  <2>9. Elements' = Elements \cup {new}
    BY <2>8 DEF Elements, Members
  <2>10. InitialElements' = InitialElements \cup {new}
    <3>1. \A f : f \in InitialElements' <=> f \in Elements' /\ Initial(f)
      BY DEF InitialElements, Initial
    <3> QED
      BY <1>3, <1>4, <2>9, <3>1
  <2>11. index'[new] = k + 1 /\ \A f \in InitialElements : index'[f] = index[f]
    <3>1. index \in [Frames -> Int]
      BY DEF BaseInv, TypeOK
    <3>2. \A f \in InitialElements : f \in Frames /\ f # new
      BY <1>3, <2>7, InitialProperties
    <3> QED
      BY <1>4, <2>1, <2>6, <3>1, <3>2
  <2>12. NamedInv'
    <3>1. \A f \in InitialElements : index[f] \in 1 .. k /\ initialPreview[index[f]] = f.item
      BY <2>6 DEF Ordered, NamedInv
    <3>2. \A f \in InitialElements : index'[f] \in DOMAIN initialPreview' /\ initialPreview'[index'[f]] = f.item
      BY <2>6, <2>11, <3>1
    <3>3. index'[new] \in DOMAIN initialPreview' /\ initialPreview'[index'[new]] = new.item
      BY <1>4, <2>6, <2>11
    <3> QED
      BY <2>5, <2>10, <3>2, <3>3 DEF NamedInv
  <2> DEFINE after(f) == IF reverse THEN Len(initialPreview') + 1 - index'[f] ELSE index'[f]
  <2>13. \A f \in InitialElements : /\ Number(f) \in 1 .. k
                                    /\ after(f) = IF reverse THEN Number(f) + 1 ELSE Number(f)
    <3>1. ASSUME NEW f \in InitialElements
          PROVE  Number(f) \in 1 .. k /\ after(f) = IF reverse THEN Number(f) + 1 ELSE Number(f)
      <4>1. index'[f] = index[f] /\ index[f] \in 1 .. k
        BY <2>11, NumberProperties DEF Ordered, k
      <4>2. Number(f) = IF reverse THEN k + 1 - index[f] ELSE index[f]
        BY DEF Number, k
      <4>3. after(f) = IF reverse THEN k + 1 + 1 - index[f] ELSE index[f]
        BY <2>6, <4>1
      <4> HIDE DEF after
      <4>4. Number(f) \in 1 .. k
        BY NumberProperties DEF Ordered, k
      <4> QED
        BY <2>6, <4>1, <4>2, <4>3, <4>4
    <3> QED
      BY <3>1
  <2>14. after(new) = IF reverse THEN 1 ELSE k + 1
    BY <2>6, <2>11
  <2>15. Moving' = Moving
    BY <1>1 DEF Moving
  <2>16. OrderInv'
    <3>1. SUFFICES ASSUME NEW f \in InitialElements', NEW g \in InitialElements', f \notin Moving, g \notin Moving,
                          Precedes(page', f, g)
                   PROVE  after(f) < after(g)
      <4>1. reverse' = reverse
        BY <1>1
      <4> QED
        BY <2>15, <4>1 DEF OrderInv, Number
    <3> HIDE DEF after
    <3>2. CASE f \in InitialElements /\ g \in InitialElements
      <4>1. f # new /\ g # new
        BY <1>3, <2>7, <3>2
      <4>2. Precedes(page, f, g)
        BY <2>8, <3>1, <4>1
      <4>3. Number(f) < Number(g)
        BY <3>1, <3>2, <4>2 DEF Ordered, OrderInv
      <4>4. Number(f) \in Nat /\ Number(g) \in Nat
        BY <2>6, <2>13, <3>2
      <4> QED
        BY <2>13, <3>2, <4>3, <4>4
    <3>3. CASE g = new /\ f \in InitialElements
      <4>1. ~Precedes(page, f, g) /\ f # new
        BY <1>3, <2>7, <3>3 DEF Precedes, Members
      <4>2. PICK i \in 1 .. Len(page) : i < at + 1 /\ page[i] = f
        BY <2>8, <3>1, <3>3, <4>1
      <4>3. i # at
        BY <1>3, <1>4, <2>2, <3>3, <4>2
      <4>4. i < at
        BY <2>3, <4>2, <4>3
      <4>5. f.item # x /\ Initial(f)
        BY <1>2, <1>3, <3>3
      <4>6. ~reverse
        BY <1>4, <2>1, <2>2, <2>3, <4>2, <4>4, <4>5 DEF Passed
      <4> QED
        BY <2>6, <2>13, <2>14, <3>3, <4>6
    <3>4. CASE f = new /\ g \in InitialElements
      <4>1. ~Precedes(page, f, g) /\ g # new
        BY <1>3, <2>7, <3>4 DEF Precedes, Members
      <4>2. PICK i \in 1 .. Len(page) : at + 1 <= i /\ page[i] = g
        BY <2>8, <3>1, <3>4, <4>1
      <4>3. i > at
        BY <2>3, <4>2
      <4>4. g.item # x /\ Initial(g)
        BY <1>2, <1>3, <3>4
      <4>5. reverse
        BY <1>4, <2>1, <2>2, <2>3, <4>2, <4>3, <4>4 DEF Passed
      <4> QED
        BY <2>6, <2>13, <2>14, <3>4, <4>5
    <3>5. CASE f = new /\ g = new
      <4>1. Distinct(page')
        BY DEF BaseInv, PageInv
      <4>2. ~Precedes(page', new, new)
        <5>1. page' \in Seq(Frames)
          BY DEF BaseInv, TypeOK
        <5>2. \A i \in DOMAIN page' : ~(i < i)
          BY <5>1
        <5> QED
          BY <4>1, <5>2 DEF Precedes, Distinct
      <4> QED
        BY <3>1, <3>5, <4>2
    <3> QED
      BY <2>10, <3>1, <3>2, <3>3, <3>4, <3>5
  <2>17. DragInv'
    <3>1. drag # None => drag.frame \in Elements \ boxed
      BY DEF Ordered, DragInv
    <3> QED
      BY <1>1, <2>1, <2>7, <2>9, <3>1 DEF DragInv
  <2>18. Members(initialPreview') = Shown' \cup hidden' /\ Shown' \cap hidden' = {}
    <3>1. Shown' = Shown \cup {x}
      BY <1>4, <2>10 DEF Shown
    <3> QED
      BY <1>1, <1>3, <2>5, <3>1
  <2> QED
    BY <2>5, <2>12, <2>16, <2>17, <2>18 DEF Ordered
<1> QED
  BY <1>5, <1>6

LEMMA FadedChosenOrdered ==
  ASSUME BaseInv, Ordered, ~Happened(Disorder)', NEW f \in Frames, FadedChosen(f)
  PROVE  Ordered'
<1>1. /\ ~Initial(f) /\ page' = Without(f) /\ boxed' = {g \in boxed : g.item # f.item}
      /\ drag' = Renewed(page', boxed') /\ events' = events \cup Aborted
      /\ UNCHANGED <<reverse, initialPreview, content, index, hidden, fileIds, stored, deleted>>
  BY DEF FadedChosen, lists
<1>2. /\ page' \in Seq(Frames) /\ Members(page') = Elements \ {f}
      /\ \A a, b : Precedes(page', a, b) => Precedes(page, a, b)
  BY <1>1, WithoutProperties
<1>3. Elements' = Elements \ {f}
  BY <1>2 DEF Elements, Members
<1>4. InitialElements' = InitialElements
  <2>1. \A g : g \in InitialElements' <=> g \in Elements' /\ Initial(g)
    BY DEF InitialElements, Initial
  <2> QED
    BY <1>1, <1>3, <2>1, InitialProperties
<1>5. drag' = None
  <2>1. ASSUME drag # None PROVE \E n \in DOMAIN page' : page'[n].gen > 0 /\ page'[n] \notin boxed'
    <3>1. drag.frame \in Elements /\ drag.frame \notin boxed /\ Initial(drag.frame)
      BY <2>1, InitialProperties DEF Ordered, DragInv
    <3>2. drag.frame \in Members(page') /\ drag.frame \notin boxed'
      BY <1>1, <1>2, <3>1
    <3> QED
      BY <3>1, <3>2 DEF Members, Initial
  <2> QED
    BY <1>1, <2>1 DEF Renewed
<1>6. Moving' = Moving
  BY <1>1, <1>5, NotAborted
<1>7. "threw" \in events' <=> "threw" \in events
  BY <1>1 DEF Aborted
<1>8. NamedInv' /\ ShownInv' /\ DragInv'
  BY <1>1, <1>4, <1>5, <1>7 DEF Ordered, NamedInv, ShownInv, Shown, Agreed, DragInv
<1>9. OrderInv'
  BY <1>1, <1>2, <1>4, <1>6 DEF Ordered, OrderInv, Number
<1> QED
  BY <1>8, <1>9 DEF Ordered

\* A thumbnail that leaves alone stays listed, and those left keep their order.
LEMMA FadedHiddenOrdered ==
  ASSUME BaseInv, Ordered, ~Happened(Disorder)', NEW f \in Frames, FadedHidden(f)
  PROVE  Ordered'
<1>1. /\ f \in leaving /\ page' = Without(f)
      /\ hidden' = (IF f \in Elements THEN hidden \cup {f.item} ELSE hidden)
      /\ drag # None => f # drag.frame
      /\ "threw" \in events' <=> "threw" \in events
      /\ UNCHANGED <<reverse, boxed, drag, initialPreview, content, index, fileIds, stored, deleted>>
  <2>1. events' = events \cup (IF drag # None /\ f = drag.frame THEN {"dragged"} ELSE {})
    BY DEF FadedHidden
  <2>2. drag # None => f # drag.frame
    BY <2>1 DEF Happened, Disorder
  <2> QED
    BY <2>1, <2>2 DEF FadedHidden, lists
<1>2. Initial(f)
  BY <1>1 DEF BaseInv, PageInv
<1>3. Elements' = Elements \ {f} /\ \A a, b : Precedes(page', a, b) => Precedes(page, a, b)
  BY <1>1, WithoutProperties DEF Elements, Members
<1>4. InitialElements' = InitialElements \ {f} /\ (f \in InitialElements <=> f \in Elements)
  <2>1. \A g : g \in InitialElements' <=> g \in Elements' /\ Initial(g)
    BY DEF InitialElements, Initial
  <2> QED
    BY <1>2, <1>3, <2>1, InitialProperties
<1>5. NamedInv'
  BY <1>1, <1>4 DEF Ordered, NamedInv
<1>6. OrderInv'
  <2>1. Moving' = Moving
    BY <1>1 DEF Moving
  <2> QED
    BY <1>1, <1>3, <1>4, <2>1 DEF Ordered, OrderInv, Number
<1>7. DragInv'
  <2>1. hidden' = {} => hidden = {}
    BY <1>1
  <2> QED
    BY <1>1, <1>3, <2>1 DEF Ordered, DragInv, Number
<1>8. ShownInv'
  <2>1. CASE "threw" \in events
    BY <1>1, <1>4, <2>1 DEF Ordered, ShownInv
  <2>2. CASE "threw" \notin events
    <3>1. Shown' \cup hidden' = Shown \cup hidden /\ Shown' \cap hidden' = {}
      <4>1. Shown \cap hidden = {}
        BY <2>2 DEF Ordered, ShownInv
      <4>2. CASE f \in Elements
        <5>1. \A g \in InitialElements : g.item = f.item => g = f
          BY <1>4, <4>2, InitialProperties
        <5> QED
          BY <1>1, <1>4, <4>1, <4>2, <5>1 DEF Shown
      <4>3. CASE f \notin Elements
        BY <1>1, <1>4, <4>1, <4>3 DEF Shown
      <4> QED
        BY <4>2, <4>3
    <3> QED
      BY <1>1, <2>2, <3>1 DEF Ordered, ShownInv, Agreed
  <2> QED
    BY <2>1, <2>2
<1> QED
  BY <1>5, <1>6, <1>7, <1>8 DEF Ordered

\* The list without the entry of a thumbnail whose index counts from the right end.
LEMMA RemovedList ==
  ASSUME BaseInv, Ordered, NEW f \in InitialElements, Removed(f), reverse => 2 * index[f] = Count + 1
  PROVE  /\ initialPreview' = Seqs!RemoveAt(initialPreview, index[f])
         /\ index[f] \in 1 .. Len(initialPreview) /\ "threw" \notin events
<1>1. "threw" \notin events
  BY DEF Ordered, ShownInv
<1>2. /\ initialPreview \in Seq(Entries) /\ reverse \in BOOLEAN /\ index[f] \in 1 .. Len(initialPreview)
      /\ DOMAIN initialPreview = 1 .. Len(initialPreview) /\ Len(initialPreview) \in Nat
      /\ None \notin Members(initialPreview)
  BY NumberProperties DEF Ordered, NamedInv, BaseInv, TypeOK
<1>3. initialPreview # <<>>
  BY <1>2, EmptySeq
<1>4. content = initialPreview /\ Count = Len(initialPreview)
  BY <1>1, <1>3 DEF Ordered, ShownInv, Agreed, Count
<1>5. initialPreview' = Splice(IF Count = 1 THEN <<>> ELSE initialPreview, index[f])
  BY DEF Removed
<1>6. CASE Count = 1
  <2>1. initialPreview' = <<>>
    BY <1>2, <1>5, <1>6, SpliceEmpty
  <2> DEFINE rest == Seqs!RemoveAt(initialPreview, index[f])
  <2>2. rest \in Seq(Entries) /\ Len(rest) = Len(initialPreview) - 1
    BY <1>2, RemoveAtProperties
  <2> HIDE DEF rest
  <2>3. Len(rest) = 0
    <3>1. Len(initialPreview) = 1
      BY <1>4, <1>6
    <3>2. Len(rest) = Len(initialPreview) - 1
      BY <2>2
    <3> QED
      BY <3>1, <3>2
  <2>4. rest = <<>>
    BY <2>2, <2>3, EmptySeq
  <2> QED
    BY <1>1, <1>2, <2>1, <2>4 DEF rest
<1>7. CASE Count # 1
  <2> DEFINE i == index[f]
  <2>1. initialPreview' = Splice(initialPreview, i)
    BY <1>5, <1>7
  <2>2. i \in Int /\ i \in DOMAIN initialPreview /\ (reverse => 2 * i = Len(initialPreview) + 1)
    BY <1>2, <1>4
  <2> HIDE DEF i
  <2>3. Splice(initialPreview, i) = Seqs!RemoveAt(initialPreview, i)
    BY <1>2, <2>2, SpliceProperties
  <2> QED
    BY <1>1, <1>2, <2>1, <2>3 DEF i
<1> QED
  BY <1>6, <1>7

LEMMA RemovedOrdered ==
  ASSUME BaseInv, Ordered, ~Happened(Disorder)', NEW f \in Frames, Initial(f), Removed(f)
  PROVE  Ordered'
<1> DEFINE i == index[f]
           k == Len(initialPreview)
           fell(n) == IF n > i THEN n - 1 ELSE n
<1>1. /\ page' = Without(f) /\ index' = MovedDown(i) /\ fileIds' = fileIds \ {f.item} /\ deleted' = deleted \cup {f.item}
      /\ UNCHANGED <<reverse, boxed, drag, hidden, stored>>
      /\ reverse => 2 * i = Count + 1
      /\ f \in Elements
      /\ drag # None => f # drag.frame /\ ~Before(f, drag.frame)
      /\ "threw" \in events' <=> "threw" \in events
  <2>1. events' = events
          \cup (IF reverse /\ 2 * i # Count + 1 THEN {"reversed"} ELSE {})
          \cup (IF f \notin Elements THEN {"again"} ELSE {})
          \cup (IF drag # None /\ (f = drag.frame \/ Before(f, drag.frame)) THEN {"dragged"} ELSE {})
    BY DEF Removed
  <2>2. /\ ~(reverse /\ 2 * i # Count + 1) /\ ~(f \notin Elements)
        /\ ~(drag # None /\ (f = drag.frame \/ Before(f, drag.frame)))
    <3> HIDE DEF i
    <3> QED
      BY <2>1 DEF Happened, Disorder
  <2>3. "threw" \in events' <=> "threw" \in events
    BY <2>1
  <2> QED
    BY <2>2, <2>3 DEF Removed, DeleteFileIds, buttons
<1>2. f \in InitialElements
  BY <1>1, InitialProperties
<1>3. /\ initialPreview' = Seqs!RemoveAt(initialPreview, i)
      /\ i \in 1 .. k /\ "threw" \notin events
  BY <1>1, <1>2, RemovedList
<1>4. /\ initialPreview \in Seq(Entries) /\ k \in Nat /\ Single(initialPreview)
      /\ None \notin Members(initialPreview)
      /\ Members(initialPreview) = Shown \cup hidden /\ Shown \cap hidden = {}
      /\ fileIds = Members(initialPreview) /\ fileIds = stored \ deleted /\ Agreed
      /\ DOMAIN initialPreview = 1 .. k /\ initialPreview[i] = f.item
  <2>1. initialPreview \in Seq(Entries) /\ k \in Nat /\ Single(initialPreview)
    BY NumberProperties DEF Ordered, BaseInv, ListInv, Lists
  <2>2. DOMAIN initialPreview = 1 .. k /\ initialPreview[i] = f.item
    BY <1>2, <2>1 DEF Ordered, NamedInv
  <2> QED
    BY <1>3, <2>1, <2>2 DEF Ordered, NamedInv, ShownInv
<1> HIDE DEF i
<1>5. /\ initialPreview' \in Seq(Entries) /\ Len(initialPreview') = k - 1 /\ DOMAIN initialPreview' = 1 .. k - 1
      /\ \A n \in 1 .. k - 1 : initialPreview'[n] = IF n < i THEN initialPreview[n] ELSE initialPreview[n + 1]
  <2>1. /\ initialPreview' \in Seq(Entries) /\ Len(initialPreview') = k - 1
        /\ \A n \in 1 .. k - 1 : initialPreview'[n] = IF n < i THEN initialPreview[n] ELSE initialPreview[n + 1]
    BY <1>3, <1>4, RemoveAtProperties
  <2> QED
    BY <2>1
<1>6. /\ Members(initialPreview') \subseteq Members(initialPreview) /\ f.item \notin Members(initialPreview')
      /\ \A n \in 1 .. k : n # i => initialPreview[n] \in Members(initialPreview')
  <2>1. f.item # None
    BY FrameFields, Constants
  <2> QED
    BY <1>3, <1>4, <2>1, RemoveMembers
<1> HIDE DEF k
<1>7. Members(initialPreview') = Members(initialPreview) \ {f.item}
  <2>1. ASSUME NEW n \in DOMAIN initialPreview, initialPreview[n] # f.item PROVE initialPreview[n] \in Members(initialPreview')
    <3>1. n \in 1 .. k /\ n # i
      BY <1>4, <2>1
    <3> QED
      BY <1>6, <3>1
  <2> QED
    BY <1>6, <2>1 DEF Members
<1>8. Elements' = Elements \ {f} /\ \A a, b : Precedes(page', a, b) => Precedes(page, a, b)
  BY <1>1, WithoutProperties DEF Elements, Members
<1>9. InitialElements' = InitialElements \ {f}
  <2>1. \A g : g \in InitialElements' <=> g \in Elements' /\ Initial(g)
    BY DEF InitialElements, Initial
  <2> QED
    BY <1>8, <2>1, InitialProperties
<1>10. ASSUME NEW g \in InitialElements, g # f
       PROVE  index[g] \in 1 .. k /\ index[g] # i /\ index'[g] = fell(index[g])
  <2>1. index[g] \in 1 .. k /\ index[g] # i
    BY <1>2, <1>10, NumberProperties DEF Ordered, k, i
  <2>2. g \in Frames /\ g \in Elements /\ Initial(g)
    BY InitialProperties
  <2> QED
    BY <1>1, <2>1, <2>2 DEF MovedDown
<1>11. NamedInv'
  <2>1. ASSUME NEW g \in InitialElements, g # f
        PROVE  index'[g] \in 1 .. k - 1 /\ initialPreview'[index'[g]] = g.item
    <3>1. index[g] \in 1 .. k /\ index[g] # i /\ index'[g] = fell(index[g]) /\ initialPreview[index[g]] = g.item
      BY <1>10, <2>1 DEF Ordered, NamedInv
    <3>2. CASE index[g] > i
      <4>1. index'[g] = index[g] - 1 /\ index'[g] \in 1 .. k - 1 /\ ~(index'[g] < i) /\ index'[g] + 1 = index[g]
        BY <1>3, <1>4, <3>1, <3>2
      <4> QED
        BY <1>5, <3>1, <4>1
    <3>3. CASE ~(index[g] > i)
      <4>1. index'[g] = index[g] /\ index'[g] \in 1 .. k - 1 /\ index'[g] < i
        BY <1>3, <1>4, <3>1, <3>3
      <4> QED
        BY <1>5, <3>1, <4>1
    <3> QED
      BY <3>2, <3>3
  <2> QED
    BY <1>4, <1>5, <1>7, <1>9, <2>1 DEF NamedInv
<1>12. ASSUME NEW g \in InitialElements, g # f
       PROVE  /\ Number(g) = IF reverse THEN k + 1 - index[g] ELSE index[g]
              /\ Number(g)' = IF reverse THEN k - fell(index[g]) ELSE fell(index[g])
  <2>1. Number(g) = IF reverse THEN k + 1 - index[g] ELSE index[g]
    BY DEF Number, k
  <2>2. Number(g)' = IF reverse THEN (k - 1) + 1 - fell(index[g]) ELSE fell(index[g])
    BY <1>1, <1>5, <1>10, <1>12 DEF Number
  <2>3. fell(index[g]) \in Int
    BY <1>3, <1>10, <1>12
  <2> HIDE DEF Number, fell
  <2>4. (k - 1) + 1 - fell(index[g]) = k - fell(index[g])
    BY <1>4, <2>3 DEF k
  <2> QED
    BY <2>1, <2>2, <2>4
<1>13. OrderInv'
  <2>1. SUFFICES ASSUME NEW g \in InitialElements, NEW h \in InitialElements, g # f, h # f,
                        g \notin Moving, h \notin Moving, Precedes(page', g, h)
                 PROVE  Number(g)' < Number(h)'
    <3>1. Moving' = Moving
      BY <1>1 DEF Moving
    <3> QED
      BY <1>9, <3>1 DEF OrderInv
  <2>2. Number(g) < Number(h)
    BY <1>8, <2>1 DEF Ordered, OrderInv
  <2>3. /\ Number(g) = IF reverse THEN k + 1 - index[g] ELSE index[g]
        /\ Number(g)' = IF reverse THEN k - fell(index[g]) ELSE fell(index[g])
        /\ Number(h) = IF reverse THEN k + 1 - index[h] ELSE index[h]
        /\ Number(h)' = IF reverse THEN k - fell(index[h]) ELSE fell(index[h])
        /\ index[g] \in Nat /\ index[g] # i /\ index[h] \in Nat /\ index[h] # i
    BY <1>10, <1>12, <2>1
  <2>4. k \in Nat /\ i \in Nat
    BY <1>3, <1>4 DEF k
  <2> HIDE DEF Number
  <2>5. CASE reverse
    <3>1. index[h] < index[g]
      BY <2>2, <2>3, <2>4, <2>5
    <3>2. fell(index[h]) < fell(index[g])
      BY <2>3, <2>4, <3>1
    <3> QED
      BY <2>3, <2>4, <2>5, <3>2
  <2>6. CASE ~reverse
    <3>1. index[g] < index[h]
      BY <2>2, <2>3, <2>6
    <3>2. fell(index[g]) < fell(index[h])
      BY <2>3, <2>4, <3>1
    <3> QED
      BY <2>3, <2>6, <3>2
  <2> QED
    BY <2>5, <2>6
<1>14. DragInv'
  <2>1. ASSUME drag # None
        PROVE  /\ drag.frame \in Elements' \ boxed
               /\ boxed = {} /\ hidden = {} => drag.oldIndex = Number(drag.frame)'
    <3> DEFINE g == drag.frame
    <3>1. g \in Elements \ boxed /\ g # f /\ (boxed = {} /\ hidden = {} => drag.oldIndex = Number(g)) /\ ~Before(f, g)
      BY <1>1, <2>1 DEF Ordered, DragInv
    <3>2. g \in InitialElements
      BY <2>1, <3>1, InitialProperties
    <3>3. drag' = drag
      BY <1>1
    <3>4. PICK y : y = g
      OBVIOUS
    <3>5. Number(drag.frame)' = Number(y)'
      BY <3>3, <3>4 DEF Number
    <3> HIDE DEF g
    <3>6. /\ Number(y) = IF reverse THEN k + 1 - index[y] ELSE index[y]
          /\ Number(y)' = IF reverse THEN k - fell(index[y]) ELSE fell(index[y])
          /\ index[y] \in Nat /\ index[y] # i
      BY <1>10, <1>12, <3>1, <3>2, <3>4
    <3>7. k \in Nat /\ i \in Nat
      BY <1>3, <1>4 DEF k
    <3>8. IF reverse THEN ~(i > index[y]) ELSE ~(i < index[y])
      BY <3>1, <3>4 DEF Before, i
    <3>9. Number(y)' = Number(y)
      <4> HIDE DEF Number
      <4>1. CASE reverse
        <5>1. fell(index[y]) = index[y] - 1
          BY <3>6, <3>7, <3>8, <4>1
        <5>2. k - (index[y] - 1) = k + 1 - index[y]
          BY <3>6, <3>7
        <5> QED
          BY <3>6, <4>1, <5>1, <5>2
      <4>2. CASE ~reverse
        BY <3>6, <3>7, <3>8, <4>2
      <4> QED
        BY <4>1, <4>2
    <3> QED
      BY <1>8, <3>1, <3>4, <3>5, <3>9 DEF g
  <2>2. drag' = drag /\ boxed' = boxed /\ hidden' = hidden
    BY <1>1
  <2> QED
    BY <2>1, <2>2 DEF DragInv
<1>15. ShownInv'
  <2>1. Members(initialPreview') = Shown' \cup hidden' /\ Shown' \cap hidden' = {}
    <3>1. \A g \in InitialElements : g.item = f.item => g = f
      BY <1>2, InitialProperties
    <3>2. Shown' = Shown \ {f.item} /\ f.item \in Shown
      BY <1>2, <1>9, <3>1 DEF Shown
    <3> QED
      BY <1>1, <1>4, <1>7, <3>2
  <2>2. Agreed'
    BY <1>4, AgreedRemoval
  <2> QED
    BY <1>1, <1>3, <1>4, <1>7, <2>1, <2>2 DEF ShownInv
<1> QED
  BY <1>11, <1>13, <1>14, <1>15 DEF Ordered

LEMMA DragOrdered ==
  ASSUME BaseInv, Ordered, Drag
  PROVE  Ordered'
<1>1. /\ drag # None /\ drag \in [frame : Frames, oldIndex : Nat \ {0}, active : BOOLEAN, moved : BOOLEAN]
      /\ \/ drag' = [drag EXCEPT !.active = TRUE] /\ page' = page
         \/ drag' = [drag EXCEPT !.moved = TRUE] /\ page' \in Placed(drag.frame)
      /\ UNCHANGED <<reverse, boxed, initialPreview, content, index, hidden, fileIds, stored, deleted, events>>
  BY DEF Drag, DragStarted, DragOver, lists, buttons, Others, BaseInv, TypeOK
<1>2. drag'.frame = drag.frame /\ drag'.oldIndex = drag.oldIndex /\ (drag.moved => drag'.moved) /\ drag' # None
      /\ (page' = page \/ drag'.moved)
  <2>1. /\ drag'.frame = drag.frame /\ drag'.oldIndex = drag.oldIndex /\ (drag.moved => drag'.moved)
        /\ (page' = page \/ drag'.moved)
    BY <1>1
  <2>2. drag' # None
    <3>1. drag' \in [frame : Frames, oldIndex : Nat \ {0}, active : BOOLEAN, moved : BOOLEAN]
      BY <1>1
    <3> QED
      BY <3>1, NoneAssumption
  <2> QED
    BY <2>1, <2>2
<1>3. Moving \subseteq Moving' /\ (page' # page => Moving' = {drag.frame})
  BY <1>1, <1>2 DEF Moving
<1>4. /\ drag.frame \in Elements \ boxed /\ drag.frame \in Frames
      /\ boxed = {} /\ hidden = {} => drag.oldIndex = Number(drag.frame)
  BY <1>1 DEF Ordered, DragInv
<1>5. \/ page' = page
      \/ /\ Members(page') = Elements
         /\ \A a, b : Precedes(page', a, b) /\ a # drag.frame /\ b # drag.frame => Precedes(page, a, b)
  <2>1. CASE page' \in Placed(drag.frame)
    <3>1. /\ Members(page') = Elements \cup {drag.frame}
          /\ \A a, b : Precedes(page', a, b) /\ a # drag.frame /\ b # drag.frame => Precedes(page, a, b)
      BY <1>4, <2>1, PlacedProperties
    <3>2. Elements \cup {drag.frame} = Elements
      BY <1>4
    <3> QED
      BY <3>1, <3>2
  <2> QED
    BY <1>1, <2>1
<1>6. Elements' = Elements
  BY <1>5, PageFacts DEF Elements, Members
<1>7. InitialElements' = InitialElements
  BY <1>6 DEF InitialElements, Initial
<1>8. \A a, b \in InitialElements \ Moving' : Precedes(page', a, b) => Precedes(page, a, b)
  BY <1>3, <1>5
<1> QED
  BY <1>1, <1>2, <1>3, <1>4, <1>6, <1>7, <1>8, StillOrdered

\* The place of a thumbnail that is picked up is its number.
LEMMA StartDragOrdered ==
  ASSUME BaseInv, Ordered, StartDrag
  PROVE  Ordered'
<1>1. PICK x \in Elements : TapStart(x)
  BY DEF StartDrag
<1>2. /\ drag = None /\ Draggable(x) /\ "threw" \notin events
      /\ drag' = [frame |-> x, oldIndex |-> Index(x), active |-> FALSE, moved |-> FALSE]
      /\ UNCHANGED <<reverse, page, boxed, initialPreview, content, index, hidden, fileIds, stored, deleted, events>>
  BY <1>1 DEF StartDrag, TapStart, Click, lists, buttons, Others
<1>3. x \in InitialElements /\ x \notin boxed /\ Initial(x)
  BY <1>2 DEF InitialElements, Initial, Draggable
<1>4. ASSUME boxed = {}, hidden = {} PROVE Index(x) = Number(x)
  <2> DEFINE P == Only(page, InitialElements)
             q == [n \in DOMAIN P |-> Number(P[n])]
             k == Len(initialPreview)
  <2>1. Members(initialPreview) = {f.item : f \in InitialElements}
    BY <1>2, <1>4 DEF Ordered, ShownInv, Shown
  <2>2. /\ P \in Seq(Frames) /\ q \in Seq(Nat) /\ Len(q) = Len(P) /\ DOMAIN q = DOMAIN P
        /\ \A n \in DOMAIN P : q[n] = Number(P[n])
        /\ Members(q) = 1 .. k /\ \A m, n \in DOMAIN q : m < n /\ P[m] \notin Moving /\ P[n] \notin Moving => q[m] < q[n]
    BY <2>1, Numbers DEF Ordered
  <2>3. Moving = {} /\ k \in Nat
    BY <1>2, NumberProperties DEF Moving, Ordered
  <2>4. Index(x) \in DOMAIN P /\ P[Index(x)] = x
    BY <1>3, <1>4, IndexProperties
  <2> HIDE DEF P, q, k
  <2>5. \A m, n \in DOMAIN q : m < n => q[m] < q[n]
    BY <2>2, <2>3
  <2>6. Len(q) = k /\ \A n \in 1 .. k : q[n] = n
    BY <2>2, <2>3, <2>5, Counting
  <2>7. DOMAIN P = 1 .. k
    BY <2>2, <2>6
  <2>8. q[Index(x)] = Index(x)
    BY <2>4, <2>6, <2>7
  <2> QED
    BY <2>2, <2>4, <2>8
<1>5. drag'.frame = x /\ drag'.oldIndex = Index(x) /\ ~drag'.moved
  BY <1>2
<1>6. Elements' = Elements /\ InitialElements' = InitialElements
  BY <1>2 DEF Elements, InitialElements, Initial
<1>7. Moving' = {} /\ Moving = {}
  BY <1>2, <1>5 DEF Moving
<1> QED
  BY <1>2, <1>3, <1>4, <1>5, <1>6, <1>7, StillOrdered

\* The arithmetic of a move: the entry that was at a is now at b.
LEMMA MovedEntry ==
  ASSUME NEW c \in Seq(Entries), NEW a \in 1 .. Len(c), NEW b \in 1 .. Len(c)
  PROVE  /\ Seqs!InsertAt(Seqs!RemoveAt(c, a), b, c[a]) \in Seq(Entries)
         /\ Len(Seqs!InsertAt(Seqs!RemoveAt(c, a), b, c[a])) = Len(c)
         /\ \A n \in 1 .. Len(c) : Seqs!InsertAt(Seqs!RemoveAt(c, a), b, c[a])[n] =
              IF n = b THEN c[a]
              ELSE IF n < b THEN c[IF n < a THEN n ELSE n + 1]
              ELSE c[IF n - 1 < a THEN n - 1 ELSE n]
<1> DEFINE rest == Seqs!RemoveAt(c, a)
           e == c[a]
           moved == Seqs!InsertAt(rest, b, e)
           k == Len(c)
<1>0. k \in Nat /\ a \in 1 .. k /\ b \in 1 .. k
  OBVIOUS
<1>1. /\ rest \in Seq(Entries) /\ Len(rest) = k - 1 /\ e \in Entries
      /\ \A i \in 1 .. k - 1 : rest[i] = IF i < a THEN c[i] ELSE c[i + 1]
  <2>1. a \in 1 .. Len(c) /\ e \in Entries
    OBVIOUS
  <2>2. /\ rest \in Seq(Entries) /\ Len(rest) = Len(c) - 1
        /\ \A i \in 1 .. Len(c) - 1 : rest[i] = IF i < a THEN c[i] ELSE c[i + 1]
    BY <2>1, RemoveAtProperties
  <2> QED
    BY <2>1, <2>2
<1> HIDE DEF rest, e, k
<1>2. b \in 1 .. Len(rest) + 1 /\ Len(rest) + 1 = k
  BY <1>0, <1>1
<1>3. /\ moved \in Seq(Entries) /\ Len(moved) = k
      /\ \A i \in 1 .. k : moved[i] = IF i < b THEN rest[i] ELSE IF i = b THEN e ELSE rest[i - 1]
  <2>1. /\ moved \in Seq(Entries) /\ Len(moved) = Len(rest) + 1
        /\ \A i \in 1 .. Len(rest) + 1 : moved[i] = IF i < b THEN rest[i] ELSE IF i = b THEN e ELSE rest[i - 1]
    <3>1. rest \in Seq(Entries) /\ e \in Entries /\ b \in 1 .. Len(rest) + 1
      BY <1>1, <1>2
    <3> QED
      BY <3>1, InsertAtProperties
  <2> HIDE DEF moved
  <2> QED
    BY <1>2, <2>1
<1> HIDE DEF moved
<1>4. ASSUME NEW n \in 1 .. k
      PROVE  moved[n] = IF n = b THEN e
                        ELSE IF n < b THEN c[IF n < a THEN n ELSE n + 1]
                        ELSE c[IF n - 1 < a THEN n - 1 ELSE n]
  <2>1. CASE n = b
    BY <1>3, <2>1
  <2>2. CASE n < b
    <3>1. n \in 1 .. k - 1 /\ n # b
      BY <1>0, <2>2
    <3> QED
      BY <1>1, <1>3, <2>2, <3>1
  <2>3. CASE b < n
    <3>1. n - 1 \in 1 .. k - 1 /\ (n - 1) + 1 = n /\ n # b /\ ~(n < b)
      BY <1>0, <2>3
    <3> QED
      BY <1>1, <1>3, <2>3, <3>1
  <2> QED
    BY <1>0, <2>1, <2>2, <2>3
<1> QED
  BY <1>3, <1>4 DEF moved, rest, e, k

\* After a sort the list is in the order of the page.
LEMMA SortedOrdered ==
  ASSUME BaseInv, Ordered, EndDrag, Announced, boxed = {}, hidden = {}
  PROVE  Ordered'
<1> DEFINE P == Only(page, InitialElements)
           q == [n \in DOMAIN P |-> Number(P[n])]
           k == Len(initialPreview)
           c == Turned(initialPreview)
           a == drag.oldIndex
           b == Index(drag.frame)
           moved == Seqs!InsertAt(Seqs!RemoveAt(c, a), b, c[a])
<1>1. /\ drag # None /\ drag' = None /\ initialPreview' = Move(initialPreview, a, b) /\ content' = initialPreview'
      /\ events' = events
      /\ index' = [f \in Frames |-> IF \E n \in DOMAIN Listed : Listed[n] = f
                                    THEN CHOOSE n \in DOMAIN Listed : Listed[n] = f ELSE index[f]]
      /\ UNCHANGED <<reverse, page, boxed, hidden, fileIds, stored, deleted>>
  BY DEF EndDrag, Drop, Sorted, Others, buttons
<1>2. drag.frame \in InitialElements /\ a = Number(drag.frame) /\ "threw" \notin events
  BY <1>1, InitialProperties DEF Ordered, DragInv, ShownInv
<1>3. Members(initialPreview) = {f.item : f \in InitialElements} /\ None \notin Members(initialPreview)
  BY <1>2 DEF Ordered, ShownInv, Shown, NamedInv
<1>4. /\ P \in Seq(Frames) /\ Distinct(P) /\ Members(P) = InitialElements
      /\ \A f, g \in InitialElements : Precedes(page, f, g) => Precedes(P, f, g)
      /\ q \in Seq(Nat) /\ Len(q) = Len(P) /\ DOMAIN q = DOMAIN P
      /\ \A n \in DOMAIN P : q[n] = Number(P[n])
      /\ Members(q) = 1 .. k /\ Distinct(q)
      /\ \A m, n \in DOMAIN q : m < n /\ P[m] \notin Moving /\ P[n] \notin Moving => q[m] < q[n]
      /\ Listed = Turned(P)
  BY <1>3, Numbers DEF Ordered
<1>5. /\ k \in Nat /\ initialPreview \in Seq(Entries) /\ DOMAIN initialPreview = 1 .. k /\ reverse \in BOOLEAN
      /\ \A f \in InitialElements : Number(f) \in 1 .. k /\ c[Number(f)] = f.item
  BY NumberProperties DEF Ordered, BaseInv, TypeOK
<1>6. b \in DOMAIN P /\ P[b] = drag.frame
  BY <1>2, InitialProperties, IndexProperties
<1>7. Moving \subseteq {drag.frame}
  BY DEF Moving
<1>8. c \in Seq(Entries) /\ Len(c) = k /\ DOMAIN c = 1 .. k
  BY <1>5, TurnedProperties
<1> HIDE DEF P, q, c, b, a
<1>9. a \in 1 .. k
  BY <1>2, <1>5
<1>10. b \in 1 .. Len(q) /\ q[b] = a
  BY <1>2, <1>4, <1>6
<1>11. \A m, n \in DOMAIN q : m < n /\ m # b /\ n # b => q[m] < q[n]
  BY <1>4, <1>6, <1>7 DEF Distinct
<1> HIDE DEF k
<1>12. /\ Len(q) = k
       /\ \A n \in 1 .. k : n < b => q[n] = IF n < q[b] THEN n ELSE n + 1
       /\ \A n \in 1 .. k : b < n => q[n] = IF n - 1 < q[b] THEN n - 1 ELSE n
  BY <1>4, <1>5, <1>10, <1>11, CountingBut
<1>13. b \in 1 .. k /\ DOMAIN P = 1 .. k /\ Len(P) = k
  BY <1>4, <1>10, <1>12
<1>14. /\ moved \in Seq(Entries) /\ Len(moved) = k
       /\ \A n \in 1 .. k : moved[n] =
              IF n = b THEN c[a]
              ELSE IF n < b THEN c[IF n < a THEN n ELSE n + 1]
              ELSE c[IF n - 1 < a THEN n - 1 ELSE n]
  <2>1. c \in Seq(Entries) /\ a \in 1 .. Len(c) /\ b \in 1 .. Len(c)
    BY <1>8, <1>9, <1>13
  <2>2. /\ moved \in Seq(Entries) /\ Len(moved) = Len(c)
        /\ \A n \in 1 .. Len(c) : moved[n] =
              IF n = b THEN c[a]
              ELSE IF n < b THEN c[IF n < a THEN n ELSE n + 1]
              ELSE c[IF n - 1 < a THEN n - 1 ELSE n]
    BY <2>1, MovedEntry
  <2> HIDE DEF moved
  <2> QED
    BY <1>8, <2>2
<1> HIDE DEF moved
<1>15. \A n \in 1 .. k : moved[n] = P[n].item
  <2>1. SUFFICES ASSUME NEW n \in 1 .. k PROVE moved[n] = c[q[n]] /\ c[q[n]] = P[n].item
    OBVIOUS
  <2>2. c[q[n]] = P[n].item
    <3>1. n \in DOMAIN P /\ P[n] \in InitialElements
      BY <1>4, <1>13 DEF Members
    <3> QED
      BY <1>4, <1>5, <3>1
  <2>3. moved[n] = c[q[n]]
    <3>1. CASE n = b
      BY <1>10, <1>14, <3>1
    <3>2. CASE n < b
      <4>1. n # b
        BY <1>13, <3>2
      <4> QED
        BY <1>10, <1>12, <1>14, <3>2, <4>1
    <3>3. CASE b < n
      <4>1. n # b /\ ~(n < b)
        BY <1>13, <3>3
      <4> QED
        BY <1>10, <1>12, <1>14, <3>3, <4>1
    <3> QED
      BY <1>13, <3>1, <3>2, <3>3
  <2> QED
    BY <2>2, <2>3
<1>16. initialPreview' = Turned(moved)
  <2>1. a \in Int /\ b \in Nat \ {0} /\ b <= Len(initialPreview)
    BY <1>5, <1>9, <1>13 DEF k
  <2>2. Move(initialPreview, a, b) = Turned(Seqs!InsertAt(IF a \in DOMAIN c THEN Seqs!RemoveAt(c, a) ELSE c,
                                              b, IF a \in DOMAIN c THEN c[a] ELSE None))
    BY <1>3, <1>5, <2>1, MoveProperties DEF c
  <2>3. a \in DOMAIN c
    BY <1>8, <1>9
  <2> QED
    BY <1>1, <2>2, <2>3 DEF moved
<1> DEFINE turn(n) == IF reverse THEN k + 1 - n ELSE n
<1>17. \A n \in 1 .. k : turn(n) \in 1 .. k /\ turn(turn(n)) = n
  BY <1>5
<1>18. /\ initialPreview' \in Seq(Entries) /\ Len(initialPreview') = k /\ DOMAIN initialPreview' = 1 .. k
       /\ \A n \in 1 .. k : initialPreview'[n] = moved[turn(n)]
       /\ Members(initialPreview') = Members(moved)
  <2>1. DOMAIN moved = 1 .. k
    BY <1>5, <1>14
  <2>2. /\ Turned(moved) \in Seq(Entries) /\ Len(Turned(moved)) = Len(moved) /\ DOMAIN Turned(moved) = DOMAIN moved
        /\ \A i \in DOMAIN moved : Turned(moved)[i] = IF reverse THEN moved[Len(moved) + 1 - i] ELSE moved[i]
        /\ Members(Turned(moved)) = Members(moved)
    BY <1>5, <1>14, TurnedProperties
  <2> QED
    BY <1>14, <1>16, <2>1, <2>2
<1>19. /\ DOMAIN Listed = 1 .. k /\ Distinct(Listed)
       /\ \A n \in 1 .. k : Listed[n] = P[turn(n)]
  <2>1. /\ DOMAIN Turned(P) = DOMAIN P /\ Distinct(Turned(P))
        /\ \A i \in DOMAIN P : Turned(P)[i] = IF reverse THEN P[Len(P) + 1 - i] ELSE P[i]
    BY <1>4, <1>5, TurnedProperties
  <2> QED
    BY <1>4, <1>13, <2>1
<1>20. \A n \in 1 .. k : index'[P[n]] = turn(n) /\ P[n] \in InitialElements
  <2>1. SUFFICES ASSUME NEW n \in 1 .. k PROVE index'[P[n]] = turn(n) /\ P[n] \in InitialElements
    OBVIOUS
  <2> DEFINE f == P[n]
  <2>2. P[n] \in Frames /\ P[n] \in InitialElements
    <3>1. P[n] \in Members(P)
      BY <1>13 DEF Members
    <3> QED
      BY <1>4, <1>13, <3>1, SMTT(30)
  <2>3. turn(n) \in DOMAIN Listed /\ Listed[turn(n)] = f
    <3>1. turn(n) \in 1 .. k /\ turn(turn(n)) = n
      BY <1>17
    <3> HIDE DEF turn
    <3> QED
      BY <1>19, <3>1
  <2> HIDE DEF turn, f
  <2>4. \A m \in DOMAIN Listed : Listed[m] = f => m = turn(n)
    BY <1>19, <2>3 DEF Distinct
  <2>5. index'[f] = CHOOSE m \in DOMAIN Listed : Listed[m] = f
    BY <1>1, <2>2, <2>3 DEF f
  <2>6. index'[f] = turn(n)
    BY <2>3, <2>4, <2>5
  <2> QED
    BY <2>2, <2>6 DEF f
<1> HIDE DEF turn
<1>21. Elements' = Elements /\ InitialElements' = InitialElements
  BY <1>1 DEF Elements, InitialElements, Initial
<1>22. \A f \in InitialElements : \E n \in 1 .. k : P[n] = f
  BY <1>4, <1>13 DEF Members
<1>23. Members(initialPreview') = {f.item : f \in InitialElements}
  <2>1. DOMAIN moved = 1 .. k
    BY <1>5, <1>14
  <2>2. Members(moved) = {P[n].item : n \in 1 .. k}
    BY <1>15, <2>1 DEF Members
  <2>3. {P[n].item : n \in 1 .. k} = {f.item : f \in InitialElements}
    BY <1>20, <1>22
  <2> QED
    BY <1>18, <2>2, <2>3
<1>24. NamedInv'
  <2>1. ASSUME NEW f \in InitialElements PROVE index'[f] \in DOMAIN initialPreview' /\ initialPreview'[index'[f]] = f.item
    <3>1. PICK n \in 1 .. k : P[n] = f
      BY <1>22
    <3>2. index'[f] = turn(n) /\ turn(n) \in 1 .. k /\ turn(turn(n)) = n
      BY <1>17, <1>20, <3>1
    <3> QED
      BY <1>15, <1>18, <3>1, <3>2
  <2> QED
    BY <1>3, <1>21, <1>23, <2>1 DEF NamedInv
<1>25. OrderInv'
  <2>1. SUFFICES ASSUME NEW f \in InitialElements, NEW g \in InitialElements, Precedes(page, f, g)
                 PROVE  Number(f)' < Number(g)'
    BY <1>1, <1>21 DEF OrderInv
  <2>2. PICK m \in DOMAIN P, n \in DOMAIN P : m < n /\ P[m] = f /\ P[n] = g
    BY <1>4, <2>1 DEF Precedes
  <2>3. ASSUME NEW h, NEW i \in 1 .. k, P[i] = h PROVE Number(h)' = i
    <3>1. index'[h] = turn(i) /\ turn(turn(i)) = i
      BY <1>17, <1>20, <2>3
    <3> QED
      BY <1>1, <1>18, <3>1 DEF Number, turn
  <2> QED
    BY <1>13, <2>2, <2>3
<1>26. DragInv'
  BY <1>1 DEF DragInv
<1>27. ShownInv'
  <2>1. content' # None
    BY <1>1, <1>18, Constants
  <2>2. fileIds = Members(initialPreview) /\ fileIds = stored \ deleted
    BY <1>2 DEF Ordered, ShownInv
  <2> QED
    BY <1>1, <1>2, <1>3, <1>21, <1>23, <2>1, <2>2 DEF ShownInv, Shown, Agreed
<1> QED
  BY <1>24, <1>25, <1>26, <1>27 DEF Ordered

LEMMA EndDragOrdered ==
  ASSUME BaseInv, Ordered, ~Happened(Disorder)', EndDrag
  PROVE  Ordered'
<1>1. CASE Announced
  <2>1. events' = events \cup (IF boxed # {} THEN {"unordered"} ELSE {}) \cup (IF hidden # {} THEN {"hidden"} ELSE {})
    BY <1>1 DEF EndDrag, Sorted
  <2>2. boxed = {} /\ hidden = {}
    BY <2>1 DEF Happened, Disorder
  <2> QED
    BY <1>1, <2>2, SortedOrdered
<1>2. CASE ~Announced
  <2>1. /\ drag # None /\ drag' = None
        /\ UNCHANGED <<reverse, page, boxed, initialPreview, content, index, hidden, fileIds, stored, deleted, events>>
    BY <1>2 DEF EndDrag, Drop, Others, buttons, lists
  <2>2. ~drag.moved
    <3>1. drag.frame \in Elements
      BY <2>1 DEF Ordered, DragInv
    <3>2. Index(drag.frame) > 0
      BY <3>1, IndexProperties
    <3> QED
      BY <1>2, <3>2 DEF Announced
  <2>3. Moving = {} /\ Moving' = {} /\ InitialElements' = InitialElements
    BY <2>1, <2>2 DEF Moving, InitialElements, Elements, Initial
  <2> QED
    BY <2>1, <2>3, StillOrdered
<1> QED
  BY <1>1, <1>2

\* The thumbnails, read in the order of the list, are in the order of their indices.
LEMMA ListedProperties ==
  ASSUME BaseInv, Ordered, drag = None
  PROVE  /\ DOMAIN Listed = 1 .. Len(Listed) /\ Len(Listed) \in Nat /\ Members(Listed) = InitialElements
         /\ \A m, n \in DOMAIN Listed : m < n => index[Listed[m]] < index[Listed[n]]
<1> DEFINE P == Only(page, InitialElements)
<1>1. /\ page \in Seq(Frames) /\ Elements = Members(page) /\ InitialElements \subseteq Elements
      /\ reverse \in BOOLEAN
  BY PageFacts, InitialProperties DEF BaseInv, TypeOK
<1>2. Listed = Turned(P)
  BY DEF Listed, InitialElements
<1>3. /\ P \in Seq(Frames \cap InitialElements) /\ Members(P) = InitialElements
      /\ \A a, b : Precedes(P, a, b) => Precedes(page, a, b)
  <2>1. P \in Seq(Frames \cap InitialElements)
    BY <1>1, OnlyProperties
  <2>2. Members(P) = Members(page) \cap InitialElements /\ \A a, b : Precedes(P, a, b) => Precedes(page, a, b)
    BY <1>1, OnlyOrder
  <2> QED
    BY <1>1, <2>1, <2>2
<1> HIDE DEF P
<1>4. /\ Listed \in Seq(Frames \cap InitialElements) /\ Len(Listed) = Len(P) /\ DOMAIN Listed = DOMAIN P
      /\ \A i \in DOMAIN P : Listed[i] = IF reverse THEN P[Len(P) + 1 - i] ELSE P[i]
      /\ Members(Listed) = Members(P)
  BY <1>1, <1>2, <1>3, TurnedProperties
<1> HIDE DEF Listed
<1>5. DOMAIN P = 1 .. Len(P) /\ Len(P) \in Nat /\ \A n \in DOMAIN P : P[n] \in InitialElements
  BY <1>3
<1>6. ASSUME NEW m \in DOMAIN P, NEW n \in DOMAIN P, m < n PROVE Number(P[m]) < Number(P[n])
  <2>0. Precedes(P, P[m], P[n])
    BY <1>6 DEF Precedes
  <2>1. Precedes(page, P[m], P[n])
    BY <1>3, <2>0
  <2>2. Moving = {}
    BY DEF Moving
  <2> QED
    BY <1>5, <2>1, <2>2 DEF Ordered, OrderInv
<1>7. Len(initialPreview) \in Nat /\ \A f \in InitialElements : index[f] \in Nat
  <2>1. \A f \in InitialElements : index[f] \in 1 .. Len(initialPreview)
    BY NumberProperties DEF Ordered
  <2>2. Len(initialPreview) \in Nat
    BY NumberProperties DEF Ordered
  <2> QED
    BY <2>1, <2>2
<1>8. ASSUME NEW m \in DOMAIN P, NEW n \in DOMAIN P, m < n PROVE index[Listed[m]] < index[Listed[n]]
  <2>1. CASE reverse
    <3> DEFINE u == Len(P) + 1 - m
               v == Len(P) + 1 - n
    <3>1. u \in DOMAIN P /\ v \in DOMAIN P /\ v < u
      BY <1>5, <1>8
    <3>2. Listed[m] = P[u] /\ Listed[n] = P[v]
      BY <1>4, <2>1
    <3> HIDE DEF u, v
    <3>3. Number(P[v]) < Number(P[u]) /\ P[u] \in InitialElements /\ P[v] \in InitialElements
      BY <1>5, <1>6, <3>1
    <3> QED
      BY <1>7, <2>1, <3>2, <3>3 DEF Number
  <2>2. CASE ~reverse
    <3>1. Listed[m] = P[m] /\ Listed[n] = P[n]
      BY <1>4, <2>2
    <3> QED
      BY <1>6, <1>8, <2>2, <3>1 DEF Number
  <2> QED
    BY <1>1, <2>1, <2>2
<1> QED
  BY <1>3, <1>4, <1>5, <1>8

LEMMA InitOrdered == Init => Ordered
<1> SUFFICES ASSUME Init PROVE Ordered
  OBVIOUS
<1> DEFINE list == [n \in DOMAIN Loaded |-> [item |-> Loaded[n], gen |-> 1]]
           turn(n) == IF reverse THEN Len(Loaded) + 1 - n ELSE n
<1>1. /\ reverse \in BOOLEAN /\ initialPreview = Loaded /\ content = Loaded /\ gen = 1 /\ page = Turned(list)
      /\ boxed = {} /\ drag = None /\ hidden = {} /\ deleted = {} /\ events = {}
      /\ fileIds = Members(Loaded) /\ stored = fileIds
      /\ index = [f \in Frames |-> IF f.gen = 1 /\ \E n \in DOMAIN Loaded : Loaded[n] = f.item
                               THEN CHOOSE n \in DOMAIN Loaded : Loaded[n] = f.item ELSE 0]
  BY DEF Init, Members
<1>2. /\ DOMAIN Loaded = 1 .. Len(Loaded) /\ Len(Loaded) \in Nat /\ \A n \in DOMAIN Loaded : Loaded[n] \in Items
      /\ Distinct(Loaded)
  BY Constants
<1>3. \A n \in DOMAIN Loaded : list[n] \in Frames
  BY <1>2, FrameFields, Constants
<1>4. list \in Seq(Frames) /\ Len(list) = Len(Loaded) /\ DOMAIN list = DOMAIN Loaded
      /\ \A n \in DOMAIN Loaded : list[n] = [item |-> Loaded[n], gen |-> 1]
  BY <1>2, <1>3
<1> HIDE DEF list
<1>5. \A n \in DOMAIN Loaded : turn(n) \in DOMAIN Loaded /\ turn(turn(n)) = n
  BY <1>2
<1>6. DOMAIN page = DOMAIN Loaded /\ \A n \in DOMAIN Loaded : page[n] = [item |-> Loaded[turn(n)], gen |-> 1]
  <2>1. /\ DOMAIN Turned(list) = DOMAIN list
        /\ \A i \in DOMAIN list : Turned(list)[i] = IF reverse THEN list[Len(list) + 1 - i] ELSE list[i]
    BY <1>1, <1>4, TurnedProperties
  <2>2. \A i \in DOMAIN list : Turned(list)[i] = list[turn(i)]
    BY <1>4, <2>1
  <2> HIDE DEF turn
  <2> QED
    BY <1>1, <1>4, <1>5, <2>1, <2>2
<1> HIDE DEF turn
<1>7. \A n \in DOMAIN Loaded : page[n] \in Frames /\ page[n].gen = 1 /\ page[n].item = Loaded[turn(n)] /\ Initial(page[n])
  <2>1. SUFFICES ASSUME NEW n \in DOMAIN Loaded
                 PROVE  page[n] \in Frames /\ page[n].gen = 1 /\ page[n].item = Loaded[turn(n)]
    BY DEF Initial
  <2>2. page[n] = [item |-> Loaded[turn(n)], gen |-> 1] /\ page[n] = list[turn(n)]
    BY <1>4, <1>5, <1>6
  <2> QED
    BY <1>3, <1>5, <2>2
<1>8. \A f : f \in InitialElements <=> \E n \in DOMAIN Loaded : f = page[n]
  BY <1>6, <1>7 DEF InitialElements, Elements
<1>9. \A n \in DOMAIN Loaded : index[page[n]] = turn(n)
  <2>1. SUFFICES ASSUME NEW n \in DOMAIN Loaded PROVE index[page[n]] = turn(n)
    OBVIOUS
  <2>2. PICK f : f = page[n]
    OBVIOUS
  <2>3. f \in Frames /\ f.gen = 1 /\ Loaded[turn(n)] = f.item /\ turn(n) \in DOMAIN Loaded
    BY <1>5, <1>7, <2>2
  <2>4. index[f] = CHOOSE m \in DOMAIN Loaded : Loaded[m] = f.item
    BY <1>1, <2>3
  <2>5. \A m \in DOMAIN Loaded : Loaded[m] = f.item => m = turn(n)
    BY <1>2, <2>3 DEF Distinct
  <2> QED
    BY <2>2, <2>3, <2>4, <2>5
<1>10. NamedInv
  <2>1. None \notin Members(Loaded)
    BY <1>2, Constants DEF Members
  <2> QED
    BY <1>1, <1>5, <1>7, <1>8, <1>9, <2>1 DEF NamedInv
<1>11. OrderInv
  <2>1. \A n \in DOMAIN Loaded : Number(page[n]) = n
    <3>1. SUFFICES ASSUME NEW n \in DOMAIN Loaded PROVE Number(page[n]) = turn(turn(n))
      BY <1>5
    <3>2. index[page[n]] = turn(n) /\ initialPreview = Loaded
      BY <1>1, <1>9
    <3>3. Number(page[n]) = IF reverse THEN Len(Loaded) + 1 - turn(n) ELSE turn(n)
      BY <3>2 DEF Number
    <3> QED
      BY <3>3 DEF turn
  <2> QED
    BY <1>6, <2>1 DEF OrderInv, Precedes
<1>12. Members(Loaded) = {f.item : f \in InitialElements}
  <2>1. \A n \in DOMAIN Loaded : \E f \in InitialElements : f.item = Loaded[n]
    BY <1>5, <1>7, <1>8
  <2>2. \A f \in InitialElements : f.item \in Members(Loaded)
    BY <1>5, <1>7, <1>8 DEF Members
  <2> QED
    BY <2>1, <2>2 DEF Members
<1>13. Loaded # None
  <2>1. Loaded \in Seq(Entries)
    BY Constants, SeqOfLarger, Items \subseteq Entries DEF Entries
  <2> QED
    BY <2>1, Constants
<1> QED
  BY <1>1, <1>10, <1>11, <1>12, <1>13 DEF Ordered, DragInv, ShownInv, Shown, Agreed

LEMMA StillPage ==
  ASSUME Ordered, events' = events,
         UNCHANGED <<reverse, page, boxed, drag, initialPreview, content, index, hidden, fileIds, stored, deleted>>
  PROVE  Ordered'
<1>1. InitialElements' = InitialElements /\ Moving' = Moving /\ Elements' = Elements
  BY DEF InitialElements, Elements, Initial, Moving
<1> QED
  BY <1>1, StillOrdered DEF Ordered, DragInv

LEMMA OrderedStep ==
  ASSUME BaseInv, BaseInv', Ordered, [Next]_vars, ~Happened(Disorder)'
  PROVE  Ordered'
<1>1. CASE User
  <2>1. ASSUME NEW x \in New, Choose(x) PROVE Ordered'
    BY <2>1, ChooseOrdered
  <2>2. CASE (\E f \in Frames : AskDelete(f) \/ Hide(f)) \/ UploadAll \/ UploadOne
    BY <2>2, StillPage DEF AskDelete, Hide, UploadAll, UploadOne, Upload, lists, buttons
  <2> QED
    BY <1>1, <2>1, <2>2, ClearOrdered DEF User
<1>2. CASE StartDrag \/ Drag \/ EndDrag
  BY <1>2, StartDragOrdered, DragOrdered, EndDragOrdered
<1>3. CASE UploadAnswered
  <2>1. ASSUME NEW a \in BOOLEAN, AcceptAll(a) PROVE Ordered'
    BY <2>1, AcceptAllOrdered
  <2>2. ASSUME NEW a \in BOOLEAN, AcceptOne(a) PROVE Ordered'
    BY <2>2, AcceptOneOrdered
  <2>3. CASE UploadFails
    BY <2>3, StillPage DEF UploadFails, lists, buttons, history
  <2> QED
    BY <1>3, <2>1, <2>2, <2>3 DEF UploadAnswered
<1>4. ASSUME NEW f \in Frames, DeleteAnswered(f) PROVE Ordered'
  <2>1. CASE DeleteSucceeds(f) /\ f \notin Elements
    BY <2>1, AnsweredProperties, RemovedOrdered DEF DeleteSucceeds
  <2>2. CASE (DeleteSucceeds(f) /\ f \in Elements) \/ DeleteFails(f)
    BY <2>2, StillPage DEF DeleteSucceeds, DeleteFails, lists, buttons, history
  <2> QED
    BY <1>4, <2>1, <2>2 DEF DeleteAnswered
<1>5. ASSUME NEW f \in Frames, Faded(f) PROVE Ordered'
  BY <1>5, FadedChosenOrdered, RemovedOrdered, FadedHiddenOrdered DEF Faded, FadedDeleted
<1>6. CASE UNCHANGED vars
  BY <1>6, StillPage DEF vars, lists, buttons, history
<1> QED
  BY <1>1, <1>2, <1>3, <1>4, <1>5, <1>6 DEF Next

\* The inductive invariant: until something goes wrong the page, counted from the
\* front, is numbered as the list is, but for the thumbnail that is moved.
THEOREM NumberInvariance == Spec => []NumberInv
<1>1. Init => NumberInv
  BY InitOrdered DEF NumberInv
<1>2. BaseInv /\ BaseInv' /\ NumberInv /\ [Next]_vars => NumberInv'
  <2>1. [Next]_vars => (Happened(Disorder) => Happened(Disorder)')
    BY EventsGrow DEF Happened
  <2>2. NumberInv' <=> (~Happened(Disorder)' => Ordered')
    BY DEF NumberInv
  <2> QED
    BY <2>1, <2>2, OrderedStep DEF NumberInv
<1> QED
  BY <1>1, <1>2, BaseInvariance, PTL DEF Spec

\* The index beside a thumbnail, with which its file will be deleted, names its own
\* entry of the list (data-fileindex; set by _initSortable, out and onSort, moved by
\* _deleteFileIndex).
THEOREM FramesNameItems == Spec => []FrameNamesItem
<1>1. NumberInv => FrameNamesItem
  BY DEF NumberInv, Ordered, NamedInv, FrameNamesItem, InitialElements, Disorder
<1> QED
  BY <1>1, NumberInvariance, PTL

\* The ids of the form are those of the list, and those stored and not deleted
\* (base-file.js, addFileIds and deleteFileIds).
THEOREM IdsAgreement == Spec => []IdsAgree
<1>1. NumberInv => IdsAgree
  <2>1. ~Happened(Disorder \cup {"threw"}) => ~Happened(Disorder) /\ "threw" \notin events
    BY DEF Happened
  <2> QED
    BY <2>1 DEF NumberInv, Ordered, ShownInv, IdsAgree, Disorder, Members
<1> QED
  BY <1>1, NumberInvariance, PTL

\* With no drag and no box the page shows the list in its order, from the end if
\* the order is reversed, but for what a button has taken away, whatever was uploaded,
\* deleted and sorted before (onSort).
THEOREM PagesInOrder == Spec => []PageInOrder
<1>1. BaseInv /\ NumberInv => PageInOrder
  <2> SUFFICES ASSUME BaseInv, Ordered, "threw" \notin events, drag = None
               PROVE  [n \in DOMAIN Listed |-> Listed[n].item] = Only(initialPreview, Items \ hidden)
    <3>1. ~Happened(Disorder \cup {"threw"}) => ~Happened(Disorder) /\ "threw" \notin events
      BY DEF Happened
    <3> QED
      BY <3>1 DEF NumberInv, PageInOrder, Disorder
  <2> DEFINE shown == [n \in DOMAIN Listed |-> Listed[n].item]
             S == Items \ hidden
             listed == Only(initialPreview, S)
             at(x) == CHOOSE i \in DOMAIN initialPreview : initialPreview[i] = x
             number == [x \in Items |-> IF x \in Members(initialPreview) THEN at(x) ELSE 0]
  <2>1. /\ DOMAIN Listed = 1 .. Len(Listed) /\ Len(Listed) \in Nat /\ Members(Listed) = InitialElements
        /\ \A m, n \in DOMAIN Listed : m < n => index[Listed[m]] < index[Listed[n]]
    BY ListedProperties
  <2>2. /\ initialPreview \in Seq(Entries) /\ DOMAIN initialPreview \subseteq Nat /\ Single(initialPreview)
        /\ None \notin Members(initialPreview)
        /\ Members(initialPreview) = Shown \cup hidden /\ Shown \cap hidden = {}
        /\ \A f \in InitialElements : f.item \in Items /\ index[f] \in DOMAIN initialPreview /\ initialPreview[index[f]] = f.item
    BY InitialProperties DEF Ordered, NamedInv, ShownInv, BaseInv, TypeOK, ListInv, Lists, Entries
  <2>3. \A i \in DOMAIN initialPreview : initialPreview[i] \in Members(initialPreview) /\ initialPreview[i] # None
    BY <2>2 DEF Members
  <2>4. \A i \in DOMAIN initialPreview : at(initialPreview[i]) = i
    BY <2>2, <2>3 DEF Single
  <2>5. number \in [Items -> Nat] /\ \A i \in DOMAIN initialPreview : initialPreview[i] \in Items => number[initialPreview[i]] = i
    <3>1. \A x \in Members(initialPreview) : at(x) \in Nat
      BY <2>2, <2>4 DEF Members
    <3> HIDE DEF at
    <3> QED
      BY <2>3, <2>4, <3>1
  <2> HIDE DEF number, at
  <2>6. /\ shown \in Seq(Items) /\ Len(shown) = Len(Listed) /\ DOMAIN shown = DOMAIN Listed
        /\ \A n \in DOMAIN shown : shown[n] = Listed[n].item /\ Listed[n] \in InitialElements
    <3>1. \A n \in DOMAIN Listed : Listed[n] \in InitialElements
      BY <2>1 DEF Members
    <3> HIDE DEF Listed
    <3> QED
      BY <2>1, <2>2, <3>1
  <2>17. \A x : x \in S <=> x \in Items /\ x \notin hidden
    OBVIOUS
  <2> HIDE DEF S
  <2>7. PICK place \in [DOMAIN listed -> Places(initialPreview, S)] :
          /\ \A n \in DOMAIN listed : listed[n] = initialPreview[place[n]]
          /\ \A m, n \in DOMAIN listed : m < n => place[m] < place[n]
          /\ \A i \in Places(initialPreview, S) : \E n \in DOMAIN listed : place[n] = i
    BY <2>2, OnlyOrdered
  <2>8. listed \in Seq(Items)
    <3>1. listed \in Seq(Entries \cap S) /\ Entries \cap S \subseteq Items
      BY <2>2, <2>17, OnlyProperties
    <3> HIDE DEF listed
    <3> QED
      BY <3>1, SeqOfLarger
  <2> HIDE DEF shown, listed
  <2>9. \A n \in DOMAIN shown : number[shown[n]] = index[Listed[n]]
    BY <2>2, <2>5, <2>6
  <2>10. \A n \in DOMAIN listed : number[listed[n]] = place[n]
    <3>1. \A n \in DOMAIN listed : place[n] \in DOMAIN initialPreview /\ initialPreview[place[n]] \in Items
      BY <2>7, <2>17 DEF Places
    <3> QED
      BY <2>5, <2>7, <3>1
  <2>11. \A n \in DOMAIN shown : \E m \in DOMAIN listed : listed[m] = shown[n]
    <3>1. ASSUME NEW n \in DOMAIN shown PROVE \E m \in DOMAIN listed : listed[m] = shown[n]
      <4>1. PICK f \in InitialElements : f = Listed[n] /\ shown[n] = f.item
        BY <2>6
      <4>2. f.item \in Shown /\ f.item \in Items /\ index[f] \in DOMAIN initialPreview /\ initialPreview[index[f]] = f.item
        BY <2>2 DEF Shown
      <4>3. index[f] \in Places(initialPreview, S)
        BY <2>2, <2>17, <4>2 DEF Places
      <4> QED
        BY <2>7, <4>1, <4>2, <4>3
    <3> QED
      BY <3>1
  <2>12. \A m \in DOMAIN listed : \E n \in DOMAIN shown : shown[n] = listed[m]
    <3>1. ASSUME NEW m \in DOMAIN listed PROVE \E n \in DOMAIN shown : shown[n] = listed[m]
      <4>1. listed[m] \in Members(initialPreview) /\ listed[m] \notin hidden
        BY <2>3, <2>7, <2>17 DEF Places
      <4>2. PICK f \in InitialElements : f.item = listed[m]
        BY <2>2, <4>1 DEF Shown
      <4>3. PICK n \in DOMAIN Listed : Listed[n] = f
        BY <2>1 DEF Members
      <4> QED
        BY <2>6, <4>2, <4>3
    <3> QED
      BY <3>1
  <2>13. \A m, n \in DOMAIN shown : m < n => number[shown[m]] < number[shown[n]]
    BY <2>1, <2>6, <2>9
  <2>14. \A m, n \in DOMAIN listed : m < n => number[listed[m]] < number[listed[n]]
    BY <2>7, <2>10
  <2>18. shown \in Seq(Items) /\ listed \in Seq(Items) /\ number \in [Items -> Nat]
    BY <2>5, <2>6, <2>8
  <2>15. /\ \A n \in DOMAIN shown : n \in DOMAIN listed /\ listed[n] = shown[n]
         /\ \A n \in DOMAIN listed : n \in DOMAIN shown /\ shown[n] = listed[n]
    <3>1. \A n \in DOMAIN shown : n \in DOMAIN listed /\ listed[n] = shown[n]
      BY <2>11, <2>12, <2>13, <2>14, <2>18, SameOrder
    <3>2. \A n \in DOMAIN listed : n \in DOMAIN shown /\ shown[n] = listed[n]
      BY <2>11, <2>12, <2>13, <2>14, <2>18, SameOrder
    <3> QED
      BY <3>1, <3>2
  <2>16. shown = listed
    BY <2>6, <2>8, <2>15
  <2> QED
    BY <2>16 DEF shown, listed, S
<1> QED
  BY <1>1, BaseInvariance, NumberInvariance, PTL
=============================================================================
