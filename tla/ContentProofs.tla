---------------------------- MODULE ContentProofs ----------------------------
(***************************************************************************)
(* What becomes of the content of a file: of html in sanitize, of the Exif *)
(* data of a picture in load and dump; for every document, every list of   *)
(* tags and attributes and every dictionary.  What is recursive, the loop  *)
(* over the attributes of an element, the content of elements that go and  *)
(* the offsets of a file, is reasoned about by the least step at which the *)
(* claim would fail (LeastNumber).                                         *)
(*                                                                         *)
(*   SanitizedAttributes   the backward loop over the live list leaves     *)
(*                         the attributes that are permitted               *)
(*   UnwrapThins           an element that goes leaves who lies in whom as *)
(*   RemoveThins           it was, and every depth the number of elements  *)
(*                         a node lies in                                  *)
(*   SanitizeKeeps         Traced: the document is the parsed one without  *)
(*                         some nodes that should not stay, and what the   *)
(*                         iterator has passed has its attributes cleaned  *)
(*   TreatedAll            so in the end it is what it should be           *)
(*   DirectoryWritten      where dump puts what is in a directory          *)
(*   IfdRead               get_ifd finds in it what was to be written      *)
(*   FileWritten           every directory begins where the pointer to it  *)
(*                         says                                            *)
(*   ReadBack              so load finds what dump was given               *)
(***************************************************************************)
EXTENDS Purify, Exif, SelectionProofs

-----------------------------------------------------------------------------
(* Attributes *)

LEMMA RangeIsMembers == \A s : Seqs!Range(s) = Members(s)
  BY DEF Seqs!Range, Members

\* A list in which no name comes twice.
AttrsApart(s) == \A i, j \in DOMAIN s : s[i].name = s[j].name => i = j

\* What the removal of a name leaves.
LEMMA OffProperties ==
  ASSUME NEW s \in Seq(Attribute), NEW name
  PROVE  /\ Off(s, name) \in Seq(Attribute)
         /\ Members(Off(s, name)) = {a \in Members(s) : a.name # name}
         /\ AttrsApart(s) => AttrsApart(Off(s, name))
         /\ \A k \in DOMAIN s : (\A j \in 1 .. k : s[j].name # name) => k \in DOMAIN Off(s, name) /\ Off(s, name)[k] = s[k]
<1> DEFINE S == {a \in Members(s) : a.name # name}
<1>1. Off(s, name) = Only(s, S)
  BY RangeIsMembers DEF Off
<1>2. Only(s, S) \in Seq(Attribute \cap S)
  BY OnlyProperties
<1>3. Off(s, name) \in Seq(Attribute)
  BY <1>1, <1>2, SeqOfLarger
<1>4. Members(Off(s, name)) = Members(s) \cap S
  BY <1>1, OnlyOrder
<1>5. ASSUME AttrsApart(s) PROVE AttrsApart(Off(s, name))
  <2> HIDE DEF S
  <2>1. PICK place \in [DOMAIN Only(s, S) -> Places(s, S)] :
         /\ \A n \in DOMAIN Only(s, S) : Only(s, S)[n] = s[place[n]]
         /\ \A m, n \in DOMAIN Only(s, S) : m < n => place[m] < place[n]
         /\ \A i \in Places(s, S) : \E n \in DOMAIN Only(s, S) : place[n] = i
    BY OnlyOrdered
  <2> SUFFICES ASSUME NEW i \in DOMAIN Only(s, S), NEW j \in DOMAIN Only(s, S),
                      Only(s, S)[i].name = Only(s, S)[j].name
               PROVE  i = j
    BY <1>1 DEF AttrsApart
  <2>2. place[i] \in DOMAIN s /\ place[j] \in DOMAIN s
    BY DEF Places
  <2>3. place[i] = place[j]
    BY <1>5, <2>1, <2>2 DEF AttrsApart
  <2>4. DOMAIN Only(s, S) = 1 .. Len(Only(s, S)) /\ Len(Only(s, S)) \in Nat /\ DOMAIN s = 1 .. Len(s) /\ Len(s) \in Nat
    BY <1>2
  <2>5. ~(i < j) /\ ~(j < i)
    BY <2>1, <2>2, <2>3, <2>4, SmallerIsOther
  <2> QED
    BY <2>4, <2>5
<1>6. ASSUME NEW k \in DOMAIN s, \A j \in 1 .. k : s[j].name # name
      PROVE  k \in DOMAIN Off(s, name) /\ Off(s, name)[k] = s[k]
  <2>1. k \in Nat /\ k >= 1 /\ DOMAIN s = 1 .. Len(s) /\ Len(s) \in Nat
    OBVIOUS
  <2>2. \A j \in 1 .. k : j \in DOMAIN s /\ s[j] \in S
    BY <1>6, <2>1 DEF Members
  <2> HIDE DEF S
  <2>3. {j \in DOMAIN s : s[j] \in S /\ j < k} = 1 .. k - 1
    BY <2>1, <2>2
  <2>4. k - 1 \in Nat /\ 1 + (k - 1) = k
    BY <2>1
  <2>5. 1 + Cardinality({j \in DOMAIN s : s[j] \in S /\ j < k}) = k
    BY <2>3, <2>4, UpToSize
  <2>6. s[k] \in S
    BY <2>1, <2>2
  <2> QED
    BY <1>1, <2>5, <2>6, OnlyRank
<1> QED
  BY <1>3, <1>4, <1>5, <1>6

AttributeLists == [live : Seq(Attribute), attributes : Seq(Attribute), copied : BOOLEAN]

\* Those before l are where they were.
ToVisit(list, attrs, l) == \A k \in 1 .. l - 1 : k \in DOMAIN list /\ list[k] = attrs[k]

\* Those that do not stand before l.
Visitable(attrs, l) == {a \in Members(attrs) : \A k \in 1 .. l - 1 : attrs[k] # a}

\* The list of attributes when all from l on have been visited: of those what is
\* permitted is there, and nothing else of them; those before l are to come.
Cleaned(s, tag, attrs, l) ==
  /\ s \in AttributeLists /\ Members(s.live) \subseteq Members(attrs)
  /\ \A a \in Visitable(attrs, l) : a \in Members(s.live) <=> Permitted(tag, a)
  /\ ToVisit(s.attributes, attrs, l)
  /\ ~s.copied => s.attributes = s.live /\ AttrsApart(s.live)

\* What the removal of an attribute leaves.
LEMMA RemovedProperties ==
  ASSUME NEW tag, NEW attrs \in Seq(Attribute), AttrsApart(attrs), NEW l \in 1 .. Len(attrs), NEW s,
         Cleaned(s, tag, attrs, l + 1)
  PROVE  /\ Removed(s, l, tag) \in AttributeLists /\ Members(Removed(s, l, tag).live) \subseteq Members(attrs)
         /\ \A a \in Visitable(attrs, l) : a \in Members(Removed(s, l, tag).live) <=> a \in Members(s.live) /\ a # attrs[l]
         /\ Removed(s, l, tag).copied => ToVisit(Removed(s, l, tag).attributes, attrs, l)
         /\ ~Removed(s, l, tag).copied =>
              /\ AttrsApart(Removed(s, l, tag).live) /\ \A k \in DOMAIN Removed(s, l, tag).live : Removed(s, l, tag).live[k].name # attrs[l].name
              /\ ToVisit(Removed(s, l, tag).live, attrs, l)
<1> DEFINE x == attrs[l]
           all == s.attributes
           rest == Visitable(attrs, l)
           plain == Off(s.live, x.name)
<1>1. /\ l \in Nat /\ l + 1 - 1 = l /\ Len(attrs) \in Nat /\ DOMAIN attrs = 1 .. Len(attrs) /\ 1 .. l - 1 \subseteq DOMAIN attrs
      /\ l \in 1 .. l /\ 1 .. l - 1 \subseteq 1 .. l /\ l \notin 1 .. l - 1
  OBVIOUS
<1>2. /\ s.live \in Seq(Attribute) /\ all \in Seq(Attribute) /\ Members(s.live) \subseteq Members(attrs)
      /\ \A k \in 1 .. l : k \in DOMAIN all /\ all[k] = attrs[k]
      /\ s.copied \in BOOLEAN /\ (~s.copied => all = s.live /\ AttrsApart(s.live))
  BY <1>1 DEF Cleaned, ToVisit, AttributeLists
<1>3. all[l] = x
  BY <1>1, <1>2
<1>4. \A a, b \in Members(attrs) : a.name = b.name => a = b
  BY DEF AttrsApart, Members
<1>5. x \in Members(attrs) /\ \A k \in 1 .. l - 1 : attrs[k] \in Members(attrs) /\ attrs[k].name # x.name
  BY <1>1 DEF Members, AttrsApart
<1>6. CASE all[l].name = "name" /\ tag = "img" /\ ~s.copied /\ "id" \in Names(all)
  <2> DEFINE p == Place(all, "id")
             both == Off(plain, "id")
             gone == Removed(s, l, tag)
  <2>1. all = s.live /\ AttrsApart(s.live)
    BY <1>2, <1>6
  <2>2. p \in DOMAIN all /\ all[p].name = "id"
    BY <1>6 DEF Place, Names
  <2>3. x.name = "name"
    BY <1>3, <1>6
  <2>4. /\ gone.live = both \o (IF p > l THEN <<all[p]>> ELSE << >>)
        /\ gone.attributes = all /\ gone.copied = TRUE
    BY <1>6, <2>3 DEF Removed
  <2>5. plain \in Seq(Attribute) /\ Members(plain) = {a \in Members(s.live) : a.name # x.name}
    BY <1>2, OffProperties
  <2>6. both \in Seq(Attribute) /\ Members(both) = {a \in Members(plain) : a.name # "id"}
    BY <2>5, OffProperties
  <2> HIDE DEF plain, both, p, gone
  <2>7. all[p] \in Attribute /\ all[p] \in Members(s.live) /\ DOMAIN all = 1 .. Len(all) /\ Len(all) \in Nat
    BY <1>2, <2>1, <2>2 DEF Members
  <2>8. /\ gone.live \in Seq(Attribute)
        /\ Members(gone.live) = Members(both) \cup (IF p > l THEN {all[p]} ELSE {})
    <3>1. CASE p > l
      <4>1. gone.live = Append(both, all[p])
        BY <2>4, <2>6, <2>7, <3>1
      <4> QED
        BY <2>6, <2>7, <3>1, <4>1, AppendOrder
    <3>2. CASE ~(p > l)
      <4>1. gone.live = both
        BY <2>4, <2>6, <3>2
      <4> QED
        BY <2>6, <3>2, <4>1
    <3> QED
      BY <3>1, <3>2
  <2>9. ASSUME NEW a \in rest PROVE a \in Members(gone.live) <=> a \in Members(s.live) /\ a # x
    <3>1. a.name = x.name <=> a = x
      BY <1>4, <1>5 DEF Visitable
    <3>2. CASE a = all[p]
      <4>1. p > l
        <5>1. p # l
          BY <1>3, <2>2, <2>3
        <5>2. ~(p \in 1 .. l - 1)
          BY <1>1, <1>2, <3>2 DEF Visitable
        <5> QED
          BY <1>1, <2>2, <2>7, <5>1, <5>2
      <4>2. a # x
        BY <2>2, <2>3, <3>2
      <4> QED
        BY <2>7, <2>8, <3>2, <4>1, <4>2
    <3>3. CASE a # all[p]
      <4>1. all[p] \in Members(attrs)
        BY <1>2, <2>7
      <4>2. a.name # "id"
        BY <1>4, <2>2, <3>3, <4>1 DEF Visitable
      <4> QED
        BY <2>5, <2>6, <2>8, <3>1, <3>3, <4>2
    <3> QED
      BY <3>2, <3>3
  <2>10. Members(gone.live) \subseteq Members(attrs)
    BY <1>2, <2>5, <2>6, <2>7, <2>8
  <2>11. gone \in AttributeLists
    BY <1>2, <1>6, <2>4, <2>8 DEF gone, Removed, AttributeLists
  <2>12. ToVisit(gone.attributes, attrs, l)
    BY <1>1, <1>2, <2>4 DEF ToVisit
  <2> HIDE DEF rest, all
  <2> QED
    BY <2>4, <2>9, <2>10, <2>11, <2>12 DEF gone, rest
<1>7. CASE ~(all[l].name = "name" /\ tag = "img" /\ ~s.copied /\ "id" \in Names(all))
  <2> DEFINE gone == Removed(s, l, tag)
  <2>1. gone = [s EXCEPT !.live = plain]
    BY <1>3, <1>7 DEF Removed
  <2>2. /\ plain \in Seq(Attribute) /\ Members(plain) = {a \in Members(s.live) : a.name # x.name}
        /\ (AttrsApart(s.live) => AttrsApart(plain))
        /\ \A k \in DOMAIN s.live : (\A j \in 1 .. k : s.live[j].name # x.name) => k \in DOMAIN plain /\ plain[k] = s.live[k]
    BY <1>2, OffProperties, ZenonT(60)
  <2> HIDE DEF plain
  <2>3. s \in AttributeLists
    BY DEF Cleaned
  <2>4. /\ gone \in AttributeLists
        /\ gone.live = plain /\ gone.attributes = all /\ gone.copied = s.copied
    BY <2>1, <2>2, <2>3 DEF AttributeLists
  <2> HIDE DEF gone
  <2>5. Members(plain) \subseteq Members(attrs)
    BY <1>2, <2>2
  <2>6. \A a \in rest : a \in Members(plain) <=> a \in Members(s.live) /\ a # x
    BY <1>4, <1>5, <2>2 DEF Visitable
  <2>7. ASSUME ~gone.copied
        PROVE  /\ AttrsApart(plain) /\ \A k \in DOMAIN plain : plain[k].name # x.name
               /\ ToVisit(plain, attrs, l)
    <3>1. all = s.live /\ AttrsApart(s.live)
      BY <1>2, <2>4, <2>7
    <3>2. ASSUME NEW k \in DOMAIN plain PROVE plain[k].name # x.name
      <4>1. plain[k] \in Members(plain)
        BY DEF Members
      <4> QED
        BY <2>2, <4>1
    <3>3. ASSUME NEW k \in 1 .. l - 1 PROVE k \in DOMAIN plain /\ plain[k] = attrs[k]
      <4>1. \A j \in 1 .. k : j \in 1 .. l - 1
        BY <1>1
      <4>2. \A j \in 1 .. k : s.live[j] = attrs[j]
        BY <1>1, <1>2, <3>1, <4>1
      <4>3. \A j \in 1 .. k : s.live[j].name # x.name
        BY <1>5, <4>1, <4>2
      <4>4. k \in DOMAIN s.live /\ s.live[k] = attrs[k]
        BY <1>1, <1>2, <3>1
      <4> QED
        BY <2>2, <4>3, <4>4
    <3> QED
      BY <2>2, <3>1, <3>2, <3>3 DEF ToVisit
  <2>8. ToVisit(all, attrs, l)
    BY <1>1, <1>2 DEF ToVisit
  <2> HIDE DEF rest, all
  <2> QED
    BY <2>4, <2>5, <2>6, <2>7, <2>8 DEF gone, rest
<1> QED
  BY <1>6, <1>7

\* A visit of an attribute.
LEMMA VisitedProperties ==
  ASSUME NEW tag, NEW attrs \in Seq(Attribute), AttrsApart(attrs), NEW l \in 1 .. Len(attrs), NEW s,
         Cleaned(s, tag, attrs, l + 1)
  PROVE  Cleaned(Visited(s, l, tag), tag, attrs, l)
<1> DEFINE x == attrs[l]
           gone == Removed(s, l, tag)
           rest == Visitable(attrs, l)
           live == IF Permitted(tag, x) THEN Append(gone.live, x) ELSE gone.live
           new == [gone EXCEPT !.live = live, !.attributes = IF gone.copied THEN gone.attributes ELSE live]
<1>1. /\ gone \in AttributeLists /\ Members(gone.live) \subseteq Members(attrs)
      /\ \A a \in rest : a \in Members(gone.live) <=> a \in Members(s.live) /\ a # x
      /\ gone.copied => ToVisit(gone.attributes, attrs, l)
      /\ ~gone.copied => /\ AttrsApart(gone.live) /\ \A k \in DOMAIN gone.live : gone.live[k].name # x.name
                         /\ ToVisit(gone.live, attrs, l)
  BY RemovedProperties
<1>2. /\ l \in Nat /\ l + 1 - 1 = l /\ Len(attrs) \in Nat /\ DOMAIN attrs = 1 .. Len(attrs)
      /\ l \in 1 .. l /\ l \in DOMAIN attrs /\ \A k \in 1 .. l : k = l \/ k \in 1 .. l - 1
  OBVIOUS
<1>3. s.attributes[l] = x
  BY <1>2 DEF Cleaned, ToVisit
<1>4. Visited(s, l, tag) = new
  BY <1>3 DEF Visited
<1>5. x \in Attribute /\ x \in Members(attrs)
  BY <1>2 DEF Members
<1>6. \A k \in 1 .. l - 1 : attrs[k] # x
  BY <1>2 DEF AttrsApart
<1>7. ASSUME NEW a \in rest, a # x PROVE a \in Members(s.live) <=> Permitted(tag, a)
  <2>1. a \in Visitable(attrs, l + 1)
    BY <1>2, <1>7 DEF Visitable
  <2> QED
    BY <2>1 DEF Cleaned
<1>8. gone.live \in Seq(Attribute)
  BY <1>1 DEF AttributeLists
<1> HIDE DEF gone
<1>9. /\ Append(gone.live, x) \in Seq(Attribute) /\ Members(Append(gone.live, x)) = Members(gone.live) \cup {x}
      /\ Len(gone.live) \in Nat /\ DOMAIN gone.live = 1 .. Len(gone.live)
      /\ Len(Append(gone.live, x)) = Len(gone.live) + 1
      /\ \A k \in DOMAIN gone.live : Append(gone.live, x)[k] = gone.live[k]
      /\ Append(gone.live, x)[Len(gone.live) + 1] = x
      /\ DOMAIN Append(gone.live, x) = 1 .. Len(gone.live) + 1
  BY <1>5, <1>8, AppendOrder
<1>10. /\ live \in Seq(Attribute) /\ Members(live) \subseteq Members(attrs)
       /\ \A a \in rest : a \in Members(live) <=> Permitted(tag, a)
  BY <1>1, <1>5, <1>7, <1>8, <1>9
<1>11. ASSUME ~gone.copied
       PROVE  AttrsApart(live) /\ ToVisit(live, attrs, l)
  <2>1. CASE ~Permitted(tag, x)
    BY <1>1, <1>11, <2>1
  <2>2. CASE Permitted(tag, x)
    <3>1. live = Append(gone.live, x)
      BY <2>2
    <3> HIDE DEF live
    <3>2. AttrsApart(live)
      <4> SUFFICES ASSUME NEW i \in 1 .. Len(gone.live) + 1, NEW j \in 1 .. Len(gone.live) + 1,
                          live[i].name = live[j].name
                   PROVE  i = j
        BY <1>9, <3>1 DEF AttrsApart
      <4>1. \A k \in 1 .. Len(gone.live) + 1 : k = Len(gone.live) + 1 \/ k \in DOMAIN gone.live
        BY <1>9
      <4>2. CASE i \in DOMAIN gone.live /\ j \in DOMAIN gone.live
        BY <1>1, <1>9, <1>11, <3>1, <4>2 DEF AttrsApart
      <4>3. CASE i \in DOMAIN gone.live /\ j = Len(gone.live) + 1
        BY <1>1, <1>9, <1>11, <3>1, <4>3
      <4>4. CASE j \in DOMAIN gone.live /\ i = Len(gone.live) + 1
        BY <1>1, <1>9, <1>11, <3>1, <4>4
      <4> QED
        BY <4>1, <4>2, <4>3, <4>4
    <3>3. ASSUME NEW k \in 1 .. l - 1 PROVE k \in DOMAIN live /\ live[k] = attrs[k]
      <4>1. k \in DOMAIN gone.live /\ gone.live[k] = attrs[k]
        BY <1>1, <1>11 DEF ToVisit
      <4>2. k \in 1 .. Len(gone.live) + 1
        BY <1>9, <4>1
      <4> QED
        BY <1>9, <3>1, <4>1, <4>2
    <3> QED
      BY <3>2, <3>3 DEF ToVisit
  <2> QED
    BY <2>1, <2>2
<1> HIDE DEF live
<1>12. /\ new \in AttributeLists /\ new.live = live /\ new.copied = gone.copied
       /\ new.attributes = IF gone.copied THEN gone.attributes ELSE live
  BY <1>1, <1>10 DEF AttributeLists
<1> HIDE DEF new
<1>13. ToVisit(new.attributes, attrs, l)
  BY <1>1, <1>11, <1>12
<1> QED
  BY <1>4, <1>10, <1>11, <1>12, <1>13 DEF Cleaned

\* The loop over the attributes, from the last to the one at l.
Loop(f, tag, attrs, l) ==
  f = [k \in l .. Len(attrs) + 1 |->
         IF k > Len(attrs) THEN [live |-> attrs, attributes |-> attrs, copied |-> FALSE] ELSE Visited(f[k + 1], k, tag)]

LEMMA LoopEnds ==
  ASSUME NEW tag, NEW attrs \in Seq(Attribute)
  PROVE  \E f : Loop(f, tag, attrs, 1)
<1> DEFINE N == Len(attrs)
           Endless == {m \in Nat : m <= N /\ ~(\E f : Loop(f, tag, attrs, N + 1 - m))}
<1>1. N \in Nat
  OBVIOUS
<1> HIDE DEF N
<1>2. SUFFICES Endless = {}
  <2>1. N \in Nat /\ N <= N /\ N + 1 - N = 1
    BY <1>1
  <2> QED
    BY <1>2, <2>1
<1>3. SUFFICES ASSUME Endless # {} PROVE FALSE
  OBVIOUS
<1>4. PICK m \in Endless : \A n \in Endless : m <= n
  BY <1>3, LeastNumber
<1> DEFINE first == [live |-> attrs, attributes |-> attrs, copied |-> FALSE]
<1>5. CASE m = 0
  <2> DEFINE f == [k \in {N + 1} |-> first]
  <2>1. N + 1 - m .. N + 1 = {N + 1} /\ N + 1 > N
    BY <1>1, <1>5
  <2>2. Loop(f, tag, attrs, N + 1 - m)
    <3>1. \A k \in {N + 1} : f[k] = IF k > N THEN first ELSE Visited(f[k + 1], k, tag)
      BY <2>1
    <3> QED
      BY <2>1, <3>1 DEF Loop, N
  <2> QED
    BY <1>4, <2>2
<1>6. CASE m # 0
  <2>1. m \in Nat /\ m - 1 \in Nat /\ m - 1 <= N /\ m <= N /\ ~(m <= m - 1)
    BY <1>1, <1>4, <1>6
  <2>2. m - 1 \notin Endless
    BY <1>4, <2>1
  <2>3. PICK g : Loop(g, tag, attrs, N + 1 - (m - 1))
    BY <2>1, <2>2
  <2> DEFINE l == N + 1 - m
             f == [k \in l .. N + 1 |-> IF k = l THEN Visited(g[k + 1], k, tag) ELSE g[k]]
  <2>4. N + 1 - (m - 1) = l + 1 /\ l \in Nat /\ l <= N /\ l < l + 1
    BY <1>1, <2>1
  <2>5. Loop(g, tag, attrs, l + 1)
    BY <2>3, <2>4
  <2> HIDE DEF l
  <2>6. ASSUME NEW k \in l + 1 .. N + 1 PROVE g[k] = IF k > N THEN first ELSE Visited(g[k + 1], k, tag)
    <3> DEFINE body(j) == IF j > N THEN first ELSE Visited(g[j + 1], j, tag)
    <3>1. g = [j \in l + 1 .. N + 1 |-> body(j)]
      BY <2>5 DEF Loop, N
    <3> HIDE DEF body
    <3>2. g[k] = body(k)
      BY <3>1
    <3> QED
      BY <3>2 DEF body
  <2>7. ASSUME NEW k \in l .. N + 1 PROVE f[k] = IF k > N THEN first ELSE Visited(f[k + 1], k, tag)
    <3>1. CASE k = l
      <4>1. ~(k > N) /\ k + 1 \in l .. N + 1 /\ k + 1 # l
        BY <1>1, <2>4, <3>1
      <4>2. f[k] = Visited(g[k + 1], k, tag) /\ f[k + 1] = g[k + 1]
        BY <3>1, <4>1
      <4> QED
        BY <4>1, <4>2
    <3>2. CASE k # l
      <4>1. k \in l + 1 .. N + 1 /\ k \in Int
        BY <1>1, <2>4, <3>2
      <4>2. f[k] = g[k]
        BY <3>2
      <4>3. CASE k > N
        BY <2>6, <4>1, <4>2, <4>3
      <4>4. CASE ~(k > N)
        <5>1. k + 1 \in l .. N + 1 /\ k + 1 # l
          BY <1>1, <2>4, <4>1, <4>4
        <5>2. f[k + 1] = g[k + 1]
          BY <5>1
        <5> QED
          BY <2>6, <4>1, <4>2, <4>4, <5>2
      <4> QED
        BY <4>3, <4>4
    <3> QED
      BY <3>1, <3>2
  <2> HIDE DEF f
  <2>8. f = [k \in l .. N + 1 |-> f[k]]
    BY DEF f
  <2>9. Loop(f, tag, attrs, l)
    BY <2>7, <2>8 DEF Loop, N
  <2> QED
    BY <1>4, <2>1, <2>9 DEF l
<1> QED
  BY <1>5, <1>6

\* sanitizeAttributes leaves what is permitted, and only that, whatever the order.
LEMMA SanitizedAttributes ==
  ASSUME NEW tag, NEW attrs \in Seq(Attribute), AttrsApart(attrs)
  PROVE  /\ SanitizeAttributes(tag, attrs) \in Seq(Attribute)
         /\ Members(SanitizeAttributes(tag, attrs)) = {a \in Members(attrs) : Permitted(tag, a)}
<1> DEFINE N == Len(attrs)
           first == [live |-> attrs, attributes |-> attrs, copied |-> FALSE]
           f == CHOOSE f : Loop(f, tag, attrs, 1)
           Wrong == {m \in Nat : m <= N /\ ~Cleaned(f[N + 1 - m], tag, attrs, N + 1 - m)}
<1>1. Loop(f, tag, attrs, 1)
  BY LoopEnds
<1>2. SanitizeAttributes(tag, attrs) = f[1].live
  BY DEF SanitizeAttributes, Loop
<1> HIDE DEF f
<1>3. N \in Nat
  OBVIOUS
<1>4. ASSUME NEW k \in 1 .. N + 1 PROVE f[k] = IF k > N THEN first ELSE Visited(f[k + 1], k, tag)
  <2> DEFINE body(j) == IF j > N THEN first ELSE Visited(f[j + 1], j, tag)
  <2>1. f = [j \in 1 .. N + 1 |-> body(j)]
    BY <1>1 DEF Loop
  <2> HIDE DEF body
  <2>2. f[k] = body(k)
    BY <2>1
  <2> QED
    BY <2>2 DEF body
<1>5. Wrong = {}
  <2> SUFFICES ASSUME Wrong # {} PROVE FALSE
    OBVIOUS
  <2>1. PICK m \in Wrong : \A n \in Wrong : m <= n
    BY LeastNumber
  <2>2. CASE m = 0
    <3>1. N + 1 - m = N + 1 /\ N + 1 \in 1 .. N + 1 /\ N + 1 > N /\ N + 1 - 1 = N
      BY <1>3, <2>2
    <3>2. f[N + 1] = first
      BY <1>4, <3>1
    <3>3. Cleaned(first, tag, attrs, N + 1)
      <4>1. first \in AttributeLists /\ first.live = attrs /\ first.attributes = attrs /\ first.copied = FALSE
        BY DEF AttributeLists
      <4>2. DOMAIN attrs = 1 .. N
        OBVIOUS
      <4> HIDE DEF N, first
      <4>3. Visitable(attrs, N + 1) = {}
        BY <1>3, <3>1, <4>2 DEF Members, Visitable
      <4>4. ToVisit(attrs, attrs, N + 1)
        BY <1>3, <3>1, <4>2 DEF ToVisit
      <4> QED
        BY <4>1, <4>3, <4>4 DEF Cleaned
    <3> QED
      BY <2>1, <3>1, <3>2, <3>3
  <2>3. CASE m # 0
    <3> DEFINE l == N + 1 - m
    <3>1. m \in Nat /\ m - 1 \in Nat /\ m - 1 <= N /\ ~(m <= m - 1) /\ l \in 1 .. N /\ N + 1 - (m - 1) = l + 1 /\ l \in 1 .. N + 1 /\ ~(l > N)
      BY <1>3, <2>1, <2>3
    <3>2. Cleaned(f[l + 1], tag, attrs, l + 1)
      BY <2>1, <3>1
    <3> HIDE DEF l
    <3>3. Cleaned(Visited(f[l + 1], l, tag), tag, attrs, l)
      BY <3>1, <3>2, VisitedProperties
    <3>4. f[l] = Visited(f[l + 1], l, tag)
      BY <1>4, <3>1
    <3> QED
      BY <2>1, <3>3, <3>4 DEF l
  <2> QED
    BY <2>2, <2>3
<1>6. Cleaned(f[1], tag, attrs, 1)
  <2>1. N \in Nat /\ N <= N /\ N + 1 - N = 1
    BY <1>3
  <2> HIDE DEF N
  <2> QED
    BY <1>5, <2>1
<1>7. \A a \in Members(attrs) : a \in Members(f[1].live) <=> Permitted(tag, a)
  <2>1. 1 .. 1 - 1 = {}
    OBVIOUS
  <2> QED
    BY <1>6, <2>1 DEF Cleaned, Visitable
<1> QED
  BY <1>2, <1>6, <1>7 DEF Cleaned, AttributeLists

-----------------------------------------------------------------------------
(* Depths *)

\* Of depths: all from m + 1 to n lie deeper than m.
Above(a, m, n) == m < n /\ \A k \in m + 1 .. n : a[k] > a[m]

\* The depths of N nodes, of which the one at p contains those up to q.
Contains(N, a, p, q) ==
  /\ N \in Nat /\ a \in [1 .. N -> Int] /\ p \in 1 .. N /\ q \in p .. N
  /\ \A k \in p + 1 .. q : a[k] > a[p]
  /\ q < N => a[q + 1] <= a[p]

Unwrapped(N, a, p, q, b) ==
  /\ Contains(N, a, p, q) /\ b \in [1 .. N - 1 -> Int]
  /\ \A n \in 1 .. N - 1 : a[n + 1] <= a[n] + 1
  /\ \A n \in 1 .. N - 1 : b[n] = IF n < p THEN a[n] ELSE IF n < q THEN a[n + 1] - 1 ELSE a[n + 1]

Cut(N, a, p, q, w, b) ==
  /\ Contains(N, a, p, q) /\ w = q - p + 1 /\ b \in [1 .. N - w -> Int]
  /\ \A n \in 1 .. N - w : b[n] = IF n < p THEN a[n] ELSE a[n + w]

\* The number in the list with w numbers more from p on.
Shifted(n, p, w) == IF n < p THEN n ELSE n + w

LEMMA Deeper ==
  ASSUME NEW x \in Int, NEW y \in Int
  PROVE  /\ x - 1 > y - 1 <=> x > y
         /\ x - 1 > y => x > y
         /\ \A z \in Int : /\ y <= z + 1 /\ y - 1 > x => z > x
                          /\ y <= z /\ y > x => z > x
  OBVIOUS

\* An element that goes and leaves its content where it was: who lies in whom stays,
\* for all others.
LEMMA UnwrappedAbove ==
  ASSUME NEW N, NEW a, NEW p, NEW q, NEW b, Unwrapped(N, a, p, q, b), NEW m \in 1 .. N - 1, NEW n \in 1 .. N - 1
  PROVE  Above(b, m, n) <=> Above(a, Shifted(m, p, 1), Shifted(n, p, 1))
<1> DEFINE H(k) == IF k < p THEN k ELSE k + 1
<1> SUFFICES ASSUME N \in Nat, a \in [1 .. N -> Int], p \in 1 .. N, q \in p .. N,
                    \A k \in p + 1 .. q : a[k] > a[p],
                    q < N => a[q + 1] <= a[p],
                    \A k \in 1 .. N - 1 : a[k + 1] <= a[k] + 1,
                    b \in [1 .. N - 1 -> Int],
                    \A k \in 1 .. N - 1 : b[k] = IF k < p THEN a[k] ELSE IF k < q THEN a[k + 1] - 1 ELSE a[k + 1]
             PROVE  Above(b, m, n) <=> Above(a, H(m), H(n))
  BY DEF Unwrapped, Contains, Shifted
<1>1. p \in Nat /\ q \in Nat /\ p <= q /\ q <= N /\ m \in Nat /\ n \in Nat /\ 1 <= m /\ 1 <= n /\ m < N /\ n < N
  OBVIOUS
<1>2. m < n <=> H(m) < H(n)
  BY <1>1
<1>3. \A k \in 1 .. N : a[k] \in Int
  OBVIOUS
<1>7. m \in 1 .. N /\ n \in 1 .. N
  BY <1>1
<1>4. ASSUME m < n, m < p PROVE Above(b, m, n) <=> Above(a, H(m), H(n))
  <2>1. b[m] = a[m] /\ H(m) = m
    BY <1>4
  <2>2. ASSUME Above(b, m, n), NEW k \in m + 1 .. H(n) PROVE a[k] > a[m]
    <3>1. k \in Nat /\ m < k /\ k <= H(n) /\ k \in 1 .. N
      BY <1>1
    <3>2. CASE k < p
      <4>1. k \in m + 1 .. n
        BY <1>1, <3>1, <3>2
      <4>2. b[k] = a[k] /\ b[k] > b[m]
        BY <1>1, <2>2, <3>1, <3>2, <4>1 DEF Above
      <4> QED
        BY <2>1, <4>2
    <3>3. CASE k > p
      <4>1. k - 1 \in m + 1 .. n /\ k - 1 \in 1 .. N - 1 /\ k - 1 + 1 = k
        BY <1>1, <1>4, <3>1, <3>3
      <4>2. b[k - 1] > b[m]
        BY <2>2, <4>1 DEF Above
      <4>3. ~(k - 1 < p)
        BY <1>1, <3>1, <3>3
      <4>4. b[k - 1] = IF k - 1 < q THEN a[k] - 1 ELSE a[k]
        BY <4>1, <4>3
      <4>5. a[k] \in Int /\ a[m] \in Int
        BY <1>3, <1>7, <3>1
      <4>6. CASE k - 1 < q
        <5>1. b[k - 1] = a[k] - 1
          BY <4>4, <4>6
        <5>2. a[k] - 1 > a[m] => a[k] > a[m]
          BY <4>5, Deeper
        <5> QED
          BY <2>1, <4>2, <5>1, <5>2, Zenon
      <4>7. CASE ~(k - 1 < q)
        BY <2>1, <4>2, <4>4, <4>7, Zenon
      <4> QED
        BY <4>6, <4>7
    <3>4. CASE k = p
      <4>1. p \in m + 1 .. n /\ p \in 1 .. N - 1 /\ p + 1 \in 1 .. N
        BY <1>1, <1>4, <3>1, <3>4
      <4>2. b[p] > a[m] /\ b[p] = (IF p < q THEN a[p + 1] - 1 ELSE a[p + 1])
        BY <1>1, <2>1, <2>2, <4>1 DEF Above
      <4>3. a[p + 1] <= a[p] + 1
        BY <4>1
      <4>4. a[p] \in Int /\ a[p + 1] \in Int /\ a[m] \in Int
        BY <1>3, <1>7, <4>1
      <4>5. ASSUME ~(p < q) PROVE a[p + 1] <= a[p]
        <5>1. q = p /\ q < N
          BY <1>1, <4>1, <4>5
        <5> QED
          BY <5>1
      <4>6. a[p] > a[m]
        <5>1. CASE p < q
          <6>1. b[p] = a[p + 1] - 1
            BY <4>2, <5>1
          <6>2. a[p + 1] <= a[p] + 1 /\ a[p + 1] - 1 > a[m] => a[p] > a[m]
            BY <4>4, Deeper
          <6> QED
            BY <4>2, <4>3, <6>1, <6>2, Zenon
        <5>2. CASE ~(p < q)
          <6>1. b[p] = a[p + 1]
            BY <4>2, <5>2
          <6>2. a[p + 1] <= a[p] /\ a[p + 1] > a[m] => a[p] > a[m]
            BY <4>4, Deeper
          <6> QED
            BY <4>2, <4>5, <5>2, <6>1, <6>2, Zenon
        <5> QED
          BY <5>1, <5>2
      <4> QED
        BY <3>4, <4>6
    <3> QED
      BY <1>1, <3>1, <3>2, <3>3, <3>4
  <2>3. ASSUME Above(a, m, H(n)), NEW k \in m + 1 .. n PROVE b[k] > b[m]
    <3>1. k \in Nat /\ m < k /\ k <= n /\ k \in 1 .. N - 1 /\ k \in 1 .. N /\ k + 1 \in 1 .. N
      BY <1>1
    <3>2. CASE k < p
      <4>1. k \in m + 1 .. H(n)
        BY <1>1, <3>1
      <4> QED
        BY <1>1, <2>1, <2>3, <3>1, <3>2, <4>1 DEF Above
    <3>3. CASE ~(k < p)
      <4>1. k + 1 \in m + 1 .. H(n) /\ p \in m + 1 .. H(n)
        BY <1>1, <1>4, <3>1, <3>3
      <4>2. a[k + 1] > a[m] /\ a[p] > a[m]
        BY <2>3, <4>1 DEF Above
      <4>3. b[k] = (IF k < q THEN a[k + 1] - 1 ELSE a[k + 1]) /\ (k < q => a[k + 1] > a[p])
        BY <1>1, <3>1, <3>3
      <4>4. a[p] \in Int /\ a[k + 1] \in Int /\ a[m] \in Int
        BY <1>3, <1>7, <3>1
      <4> QED
        BY <2>1, <4>2, <4>3, <4>4
    <3> QED
      BY <3>2, <3>3
  <2>4. m < H(n)
    BY <1>1, <1>4
  <2> QED
    BY <1>4, <2>1, <2>2, <2>3, <2>4 DEF Above
<1>5. ASSUME m < n, ~(m < p) PROVE Above(b, m, n) <=> Above(a, H(m), H(n))
  <2>1. H(m) = m + 1 /\ H(n) = n + 1 /\ m + 1 \in 1 .. N /\ n + 1 \in 1 .. N /\ m + 1 < n + 1
    BY <1>1, <1>5
  <2>2. \A k \in m + 1 .. n : k \in Nat /\ ~(k < p) /\ k \in 1 .. N - 1 /\ k + 1 \in 1 .. N /\ k + 1 \in m + 1 + 1 .. n + 1
    BY <1>1, <1>5
  <2>3. \A k \in m + 1 + 1 .. n + 1 : k - 1 \in m + 1 .. n /\ k - 1 + 1 = k
    BY <1>1
  <2>4. b[m] = IF m < q THEN a[m + 1] - 1 ELSE a[m + 1]
    BY <1>1, <1>5
  <2>5. CASE ~(m < q)
    <3>1. \A k \in m + 1 .. n : b[k] = a[k + 1]
      BY <1>1, <2>2, <2>5
    <3> QED
      BY <1>5, <2>1, <2>2, <2>3, <2>4, <2>5, <3>1, ZenonT(60) DEF Above
  <2>6. CASE m < q /\ n < q
    <3>1. ASSUME NEW k \in m + 1 .. n PROVE b[k] = a[k + 1] - 1 /\ a[k + 1] \in Int
      <4>1. k < q
        BY <1>1, <2>6
      <4> QED
        BY <1>3, <2>2, <4>1
    <3>2. a[m + 1] \in Int /\ b[m] = a[m + 1] - 1
      BY <1>3, <2>1, <2>4, <2>6
    <3>3. ASSUME NEW k \in m + 1 .. n PROVE b[k] > b[m] <=> a[k + 1] > a[m + 1]
      <4>1. b[k] = a[k + 1] - 1 /\ a[k + 1] \in Int
        BY <3>1
      <4>3. a[k + 1] \in Int /\ a[m + 1] \in Int
        BY <3>2, <4>1
      <4>4. \A x, y \in Int : x - 1 > y - 1 <=> x > y
        OBVIOUS
      <4>2. a[k + 1] - 1 > a[m + 1] - 1 <=> a[k + 1] > a[m + 1]
        BY <4>3, <4>4, Zenon
      <4> QED
        BY <3>2, <4>1, <4>2, Zenon
    <3> QED
      BY <1>5, <2>1, <2>2, <2>3, <3>3 DEF Above
  <2>7. CASE m < q /\ ~(n < q)
    <3>1. q \in m + 1 .. n /\ q \in 1 .. N - 1 /\ q + 1 \in m + 1 + 1 .. n + 1 /\ q + 1 \in 1 .. N /\ m + 1 \in p + 1 .. q /\ q < N /\ ~(q < p)
      BY <1>1, <1>5, <2>7
    <3>2. a[q + 1] <= a[p] /\ a[m + 1] > a[p] /\ b[q] = a[q + 1] /\ b[m] = a[m + 1] - 1
      BY <1>1, <2>4, <2>7, <3>1
    <3>3. a[q + 1] \in Int /\ a[p] \in Int /\ a[m + 1] \in Int
      BY <1>1, <1>3, <2>1, <3>1
    <3>4. \A x, y, z \in Int : x <= y /\ z > y => ~(x > z - 1) /\ ~(x > z)
      OBVIOUS
    <3>5. ~(b[q] > b[m]) /\ ~(a[q + 1] > a[m + 1])
      BY <3>2, <3>3, <3>4
    <3> QED
      BY <2>1, <3>1, <3>5 DEF Above
  <2> QED
    BY <2>5, <2>6, <2>7
<1>6. CASE ~(m < n)
  BY <1>2, <1>6 DEF Above
<1> QED
  BY <1>4, <1>5, <1>6

\* An element that goes with its content.
LEMMA RemovedAbove ==
  ASSUME NEW N, NEW a, NEW p, NEW q, NEW w, NEW b, Cut(N, a, p, q, w, b), NEW m \in 1 .. N - w, NEW n \in 1 .. N - w
  PROVE  Above(b, m, n) <=> Above(a, Shifted(m, p, w), Shifted(n, p, w))
<1> DEFINE H(k) == IF k < p THEN k ELSE k + w
<1> SUFFICES ASSUME N \in Nat, a \in [1 .. N -> Int], p \in 1 .. N, q \in p .. N,
                    \A k \in p + 1 .. q : a[k] > a[p],
                    q < N => a[q + 1] <= a[p],
                    w = q - p + 1,
                    b \in [1 .. N - w -> Int],
                    \A k \in 1 .. N - w : b[k] = IF k < p THEN a[k] ELSE a[k + w]
             PROVE  Above(b, m, n) <=> Above(a, H(m), H(n))
  BY DEF Cut, Contains, Shifted
<1>1. /\ p \in Nat /\ q \in Nat /\ p <= q /\ q <= N /\ m \in Nat /\ n \in Nat /\ 1 <= m /\ 1 <= n
      /\ w \in Nat /\ 1 <= w /\ p + w = q + 1 /\ m + w <= N /\ n + w <= N
  OBVIOUS
<1>2. m < n <=> H(m) < H(n)
  BY <1>1
<1>3. \A k \in 1 .. N : a[k] \in Int
  OBVIOUS
<1>4. ASSUME m < n, m < p PROVE Above(b, m, n) <=> Above(a, H(m), H(n))
  <2>1. b[m] = a[m] /\ H(m) = m
    BY <1>4
  <2>2. ASSUME Above(b, m, n), NEW k \in m + 1 .. H(n) PROVE a[k] > a[m]
    <3>1. k \in Nat /\ m < k /\ k <= H(n) /\ k \in 1 .. N
      BY <1>1
    <3>2. CASE k < p
      <4>1. k \in m + 1 .. n /\ k \in 1 .. N - w
        BY <1>1, <3>1, <3>2
      <4>2. b[k] = a[k] /\ b[k] > b[m]
        BY <1>1, <2>2, <3>1, <3>2, <4>1 DEF Above
      <4> QED
        BY <2>1, <4>2
    <3>3. CASE k > q
      <4>1. k - w \in m + 1 .. n /\ k - w \in 1 .. N - w /\ k - w + w = k /\ ~(k - w < p)
        BY <1>1, <1>4, <3>1, <3>3
      <4>2. b[k - w] > b[m] /\ b[k - w] = a[k]
        BY <2>2, <4>1 DEF Above
      <4> QED
        BY <2>1, <4>2
    <3>4. CASE p <= k /\ k <= q
      <4>1. p \in m + 1 .. n /\ p \in 1 .. N - w /\ q + 1 \in 1 .. N /\ q < N /\ ~(p < p)
        BY <1>1, <1>4, <3>1, <3>4
      <4>2. b[p] > a[m] /\ b[p] = a[q + 1] /\ a[q + 1] <= a[p]
        BY <1>1, <2>1, <2>2, <4>1 DEF Above
      <4>3. a[p] <= a[k]
        <5>1. CASE k = p
          BY <1>1, <1>3, <5>1
        <5>2. CASE k # p
          <6>1. k \in p + 1 .. q
            BY <1>1, <3>1, <3>4, <5>2
          <6> QED
            BY <1>1, <1>3, <3>1, <6>1
        <5> QED
          BY <5>1, <5>2
      <4>4. a[p] \in Int /\ a[q + 1] \in Int /\ a[m] \in Int /\ a[k] \in Int
        BY <1>1, <1>3, <3>1, <4>1
      <4> QED
        BY <4>2, <4>3, <4>4
    <3> QED
      BY <1>1, <3>1, <3>2, <3>3, <3>4
  <2>3. ASSUME Above(a, m, H(n)), NEW k \in m + 1 .. n PROVE b[k] > b[m]
    <3>1. k \in Nat /\ m < k /\ k <= n /\ k \in 1 .. N - w /\ H(k) \in m + 1 .. H(n)
      BY <1>1
    <3>2. b[k] = a[H(k)]
      BY <3>1
    <3>3. a[H(k)] > a[m]
      BY <2>3, <3>1 DEF Above
    <3> QED
      BY <2>1, <3>2, <3>3
  <2>4. m < H(n)
    BY <1>1, <1>4
  <2> QED
    BY <1>4, <2>1, <2>2, <2>3, <2>4 DEF Above
<1>5. ASSUME m < n, ~(m < p) PROVE Above(b, m, n) <=> Above(a, H(m), H(n))
  <2>1. H(m) = m + w /\ H(n) = n + w /\ m + w < n + w /\ b[m] = a[m + w]
    BY <1>1, <1>5
  <2>2. \A k \in m + 1 .. n : k + w \in m + w + 1 .. n + w /\ b[k] = a[k + w]
    BY <1>1, <1>5
  <2>3. ASSUME Above(b, m, n), NEW k \in m + w + 1 .. n + w PROVE a[k] > a[m + w]
    <3>1. k - w \in m + 1 .. n /\ k - w + w = k
      BY <1>1
    <3>2. b[k - w] > b[m] /\ b[k - w] = a[k]
      BY <2>2, <2>3, <3>1 DEF Above
    <3> QED
      BY <2>1, <3>2
  <2>4. ASSUME Above(a, m + w, n + w), NEW k \in m + 1 .. n PROVE b[k] > b[m]
    BY <2>1, <2>2, <2>4 DEF Above
  <2> HIDE DEF H
  <2> QED
    BY <1>5, <2>1, <2>3, <2>4 DEF Above
<1>6. CASE ~(m < n)
  BY <1>2, <1>6 DEF Above
<1> QED
  BY <1>4, <1>5, <1>6

-----------------------------------------------------------------------------
(* Nodes *)

NodeType == [depth : Int, tag : STRING, attrs : Seq(Attribute)]

LEMMA NodeFields ==
  ASSUME NEW x \in NodeType
  PROVE  /\ x.depth \in Int /\ x.tag \in STRING /\ x.attrs \in Seq(Attribute)
         /\ [x EXCEPT !.depth = @ - 1] \in NodeType
         /\ [x EXCEPT !.depth = @ - 1].depth = x.depth - 1
         /\ [x EXCEPT !.depth = @ - 1].tag = x.tag
         /\ [x EXCEPT !.depth = @ - 1].attrs = x.attrs
         /\ \A a \in Seq(Attribute) : [x EXCEPT !.attrs = a] \in NodeType
         /\ \A a : /\ [x EXCEPT !.attrs = a].attrs = a
                   /\ [x EXCEPT !.attrs = a].tag = x.tag /\ [x EXCEPT !.attrs = a].depth = x.depth
  BY DEF NodeType

\* The content of an element ends somewhere.
LEMMA ContentEnds ==
  ASSUME doc \in Seq(NodeType), pos \in 1 .. Len(doc)
  PROVE  /\ EndOfContent \in pos .. Len(doc)
         /\ \A n \in pos + 1 .. EndOfContent : doc[n].depth > doc[pos].depth
         /\ EndOfContent < Len(doc) => doc[EndOfContent + 1].depth <= doc[pos].depth
<1> DEFINE Higher0 == {q \in pos + 1 .. Len(doc) : doc[q].depth <= doc[pos].depth}
<1> DEFINE End(q) == /\ \A n \in pos + 1 .. q : doc[n].depth > doc[pos].depth
                     /\ q < Len(doc) => doc[q + 1].depth <= doc[pos].depth
<1>1. /\ Len(doc) \in Nat
      /\ \A n \in 1 .. Len(doc) : doc[n].depth \in Int
  <2>1. ASSUME NEW n \in 1 .. Len(doc) PROVE doc[n].depth \in Int
    <3>1. doc[n] \in NodeType
      BY ElementOfSeq
    <3> QED
      BY <3>1, NodeFields, Zenon
  <2>2. Len(doc) \in Nat
    OBVIOUS
  <2> QED
    BY <2>1, <2>2
<1>2. \E q \in pos .. Len(doc) : End(q)
  <2>1. CASE Higher0 = {}
    <3>1. Len(doc) \in pos .. Len(doc)
      BY <1>1
    <3>2. ASSUME NEW n \in pos + 1 .. Len(doc) PROVE doc[n].depth > doc[pos].depth
      <4>1. ~(doc[n].depth <= doc[pos].depth)
        BY <2>1
      <4>2. n \in 1 .. Len(doc)
        BY <1>1
      <4> QED
        BY <1>1, <4>1, <4>2
    <3>3. End(Len(doc))
      BY <1>1, <3>2
    <3> QED
      BY <3>1, <3>3
  <2>2. CASE Higher0 # {}
    <3>1. Higher0 \subseteq Nat
      BY <1>1
    <3>2. PICK x \in Higher0 : \A y \in Higher0 : x <= y
      BY <2>2, <3>1, LeastNumber
    <3>3. x - 1 \in pos .. Len(doc)
      BY <1>1
    <3>4. End(x - 1)
      BY <1>1, <3>2
    <3> QED
      BY <3>3, <3>4
  <2> QED
    BY <2>1, <2>2
<1>3. EndOfContent = CHOOSE q \in pos .. Len(doc) : End(q)
  BY DEF EndOfContent, Node
<1> HIDE DEF End
<1>4. EndOfContent \in pos .. Len(doc) /\ End(EndOfContent)
  BY <1>2, <1>3
<1> QED
  BY <1>4 DEF End

LEMMA HigherNodes ==
  ASSUME NEW s \in Seq(NodeType)
  PROVE  /\ Higher(s) \in Seq(NodeType) /\ Len(Higher(s)) = Len(s)
         /\ \A n \in 1 .. Len(s) : Higher(s)[n] = [s[n] EXCEPT !.depth = @ - 1]
<1>1. \A n \in 1 .. Len(s) : [s[n] EXCEPT !.depth = @ - 1] \in NodeType
  BY ElementOfSeq, NodeFields
<1>2. DOMAIN s = 1 .. Len(s) /\ Len(s) \in Nat
  OBVIOUS
<1>3. Higher(s) = [n \in 1 .. Len(s) |-> [s[n] EXCEPT !.depth = @ - 1]]
  BY <1>2 DEF Higher
<1> DEFINE up(n) == [s[n] EXCEPT !.depth = @ - 1]
<1>4. Higher(s) = [n \in 1 .. Len(s) |-> up(n)] /\ \A n \in 1 .. Len(s) : up(n) \in NodeType
  BY <1>1, <1>3
<1> HIDE DEF up
<1>5. Higher(s) \in Seq(NodeType) /\ Len(Higher(s)) = Len(s) /\ \A n \in 1 .. Len(s) : Higher(s)[n] = up(n)
  BY <1>2, <1>4
<1> QED
  BY <1>5 DEF up

\* The document with other nodes in the place of an element and its content.
LEMMA ReplacedNodes ==
  ASSUME doc \in Seq(NodeType), pos \in 1 .. Len(doc), NEW nodes \in Seq(NodeType)
  PROVE  /\ Replace(nodes) \in Seq(NodeType)
         /\ Len(Replace(nodes)) = Len(doc) - (EndOfContent - pos + 1) + Len(nodes)
         /\ \A n \in 1 .. Len(Replace(nodes)) :
              Replace(nodes)[n] = IF n < pos THEN doc[n]
                                  ELSE IF n < pos + Len(nodes) THEN nodes[n - pos + 1]
                                  ELSE doc[n - Len(nodes) + (EndOfContent - pos + 1)]
<1> DEFINE before == SubSeq(doc, 1, pos - 1)
           behind == SubSeq(doc, EndOfContent + 1, Len(doc))
           e == EndOfContent
           N == Len(doc)
           L == Len(nodes)
<1>1. EndOfContent \in pos .. Len(doc)
  BY ContentEnds
<1> HIDE DEF e
<1>2. N \in Nat /\ L \in Nat /\ pos \in Nat /\ 1 <= pos /\ pos <= N /\ e \in Nat /\ pos <= e /\ e <= N
  BY <1>1 DEF e
<1>3. /\ before \in Seq(NodeType) /\ Len(before) = pos - 1
      /\ \A n \in 1 .. pos - 1 : before[n] = doc[n]
  BY <1>2
<1>4. /\ behind \in Seq(NodeType) /\ Len(behind) = N - e
      /\ \A n \in 1 .. N - e : behind[n] = doc[e + n]
  BY <1>2 DEF e
<1> HIDE DEF before, behind
<1> DEFINE both == before \o nodes
<1>5. /\ both \in Seq(NodeType) /\ Len(both) = pos - 1 + L
      /\ \A n \in 1 .. pos - 1 + L : both[n] = IF n < pos THEN doc[n] ELSE nodes[n - pos + 1]
  <2>3. before \in Seq(NodeType) /\ nodes \in Seq(NodeType) /\ Len(before) = pos - 1 /\ Len(nodes) = L
    BY <1>3
  <2>4. \A s, t \in Seq(NodeType) : s \o t \in Seq(NodeType) /\ Len(s \o t) = Len(s) + Len(t)
    OBVIOUS
  <2>1. both \in Seq(NodeType) /\ Len(both) = pos - 1 + L
    BY <2>3, <2>4
  <2>2. ASSUME NEW n \in 1 .. pos - 1 + L PROVE both[n] = IF n < pos THEN doc[n] ELSE nodes[n - pos + 1]
    <3>1. CASE n < pos
      <4>1. n \in 1 .. pos - 1
        BY <1>2, <3>1
      <4> QED
        BY <1>2, <1>3, <3>1, <4>1
    <3>2. CASE ~(n < pos)
      <4>1. ~(n <= pos - 1) /\ n - (pos - 1) = n - pos + 1
        BY <1>2, <3>2
      <4>2. both[n] = nodes[n - (pos - 1)]
        BY <1>2, <1>3, <4>1
      <4> QED
        BY <3>2, <4>1, <4>2
    <3> QED
      BY <3>1, <3>2
  <2> QED
    BY <2>1, <2>2
<1> HIDE DEF both
<1> DEFINE all == both \o behind
<1>6. all \in Seq(NodeType) /\ Len(all) = pos - 1 + L + (N - e)
  <2>1. both \in Seq(NodeType) /\ behind \in Seq(NodeType) /\ Len(both) = pos - 1 + L /\ Len(behind) = N - e
    BY <1>4, <1>5
  <2>2. \A s, t \in Seq(NodeType) : s \o t \in Seq(NodeType) /\ Len(s \o t) = Len(s) + Len(t)
    OBVIOUS
  <2> QED
    BY <2>1, <2>2, ZenonT(60)
<1>7. ASSUME NEW n \in 1 .. pos - 1 + L + (N - e)
      PROVE  all[n] = IF n < pos THEN doc[n] ELSE IF n < pos + L THEN nodes[n - pos + 1] ELSE doc[n - L + (e - pos + 1)]
  <2>1. CASE n <= pos - 1 + L
    <3>1. n \in 1 .. pos - 1 + L /\ n < pos + L
      BY <1>2, <2>1
    <3>2. all[n] = both[n]
      BY <1>2, <1>4, <1>5, <3>1
    <3> QED
      BY <1>5, <3>1, <3>2
  <2>2. CASE ~(n <= pos - 1 + L)
    <3>1. ~(n < pos) /\ ~(n < pos + L) /\ n - (pos - 1 + L) \in 1 .. N - e /\ e + (n - (pos - 1 + L)) = n - L + (e - pos + 1)
      BY <1>2, <2>2
    <3>2. all[n] = behind[n - (pos - 1 + L)]
      BY <1>2, <1>4, <1>5, <2>2
    <3> QED
      BY <1>4, <3>1, <3>2
  <2> QED
    BY <2>1, <2>2
<1>8. Replace(nodes) = all
  BY DEF Replace, both, before, behind
<1>9. Len(all) = N - (e - pos + 1) + L /\ pos - 1 + L + (N - e) = N - (e - pos + 1) + L
  BY <1>2, <1>6
<1> HIDE DEF all, N, L
<1> QED
  BY <1>6, <1>7, <1>8, <1>9 DEF e, N, L

Depths(d) == [n \in 1 .. Len(d) |-> d[n].depth]

LEMMA DepthsType ==
  ASSUME NEW d \in Seq(NodeType)
  PROVE  Depths(d) \in [1 .. Len(d) -> Int] /\ Len(d) \in Nat /\ DOMAIN d = 1 .. Len(d)
<1>1. \A n \in 1 .. Len(d) : d[n].depth \in Int
  BY ElementOfSeq, NodeFields
<1> QED
  BY <1>1 DEF Depths

LEMMA AncestorsAbove ==
  ASSUME NEW d \in Seq(NodeType), NEW n \in 1 .. Len(d)
  PROVE  /\ Ancestors(d, n) \subseteq 1 .. Len(d)
         /\ \A m \in 1 .. Len(d) : m \in Ancestors(d, n) <=> Above(Depths(d), m, n)
<1>1. Len(d) \in Nat /\ n \in Nat /\ 1 <= n /\ n <= Len(d) /\ 1 .. n - 1 \subseteq 1 .. Len(d)
  OBVIOUS
<1>2. ASSUME NEW m \in 1 .. Len(d) PROVE m \in Ancestors(d, n) <=> Above(Depths(d), m, n)
  <2>1. m \in Nat /\ 1 <= m /\ (m \in 1 .. n - 1 <=> m < n)
    BY <1>1
  <2>2. \A k \in m + 1 .. n : k \in 1 .. Len(d)
    BY <1>1, <2>1
  <2>3. Depths(d)[m] = d[m].depth /\ \A k \in m + 1 .. n : Depths(d)[k] = d[k].depth
    BY <2>2 DEF Depths
  <2> QED
    BY <2>1, <2>3 DEF Above, Ancestors
<1>3. Ancestors(d, n) \subseteq 1 .. Len(d)
  BY <1>1 DEF Ancestors
<1> QED
  BY <1>2, <1>3

\* The depth of a node is the number of elements it lies in.
Deep(d) == \A n \in 1 .. Len(d) : d[n].depth = 1 + Cardinality(Ancestors(d, n))

LEMMA AncestorsFinite ==
  ASSUME NEW d \in Seq(NodeType), NEW n \in 1 .. Len(d)
  PROVE  IsFiniteSet(Ancestors(d, n)) /\ Cardinality(Ancestors(d, n)) \in Nat
<1>1. Ancestors(d, n) \in SUBSET (1 .. Len(d)) /\ Len(d) \in Nat
  BY AncestorsAbove
<1>2. IsFiniteSet(1 .. Len(d))
  BY <1>1, UpToSize
<1> QED
  BY <1>1, <1>2, FS_Subset, FS_CardinalityType

\* The next node is the first of the content or lies no deeper.
LEMMA NextDepth ==
  ASSUME NEW d \in Seq(NodeType), Deep(d), NEW n \in 1 .. Len(d) - 1
  PROVE  d[n + 1].depth <= d[n].depth + 1
<1>1. Len(d) \in Nat /\ n \in Nat /\ n \in 1 .. Len(d) /\ n + 1 \in 1 .. Len(d)
  OBVIOUS
<1>2. Ancestors(d, n + 1) \subseteq Ancestors(d, n) \cup {n}
  BY <1>1 DEF Ancestors
<1>3. IsFiniteSet(Ancestors(d, n)) /\ Cardinality(Ancestors(d, n)) \in Nat
  BY <1>1, AncestorsFinite
<1>4. IsFiniteSet(Ancestors(d, n + 1)) /\ Cardinality(Ancestors(d, n + 1)) \in Nat
  BY <1>1, AncestorsFinite
<1>5. /\ IsFiniteSet(Ancestors(d, n) \cup {n})
      /\ Cardinality(Ancestors(d, n) \cup {n}) = IF n \in Ancestors(d, n) THEN Cardinality(Ancestors(d, n)) ELSE Cardinality(Ancestors(d, n)) + 1
  BY <1>3, FS_AddElement
<1>6. Cardinality(Ancestors(d, n + 1)) <= Cardinality(Ancestors(d, n) \cup {n})
  BY <1>2, <1>5, FS_Subset
<1>7. Cardinality(Ancestors(d, n + 1)) <= Cardinality(Ancestors(d, n)) + 1
  BY <1>3, <1>4, <1>5, <1>6
<1>8. d[n].depth = 1 + Cardinality(Ancestors(d, n)) /\ d[n + 1].depth = 1 + Cardinality(Ancestors(d, n + 1))
  BY <1>1 DEF Deep
<1> QED
  BY <1>3, <1>4, <1>7, <1>8

\* A set and its image under a function that takes different values on it.
LEMMA ImageSize ==
  ASSUME NEW S, NEW T, NEW f, IsFiniteSet(S), \A x \in S : f[x] \in T,
         \A x, y \in S : f[x] = f[y] => x = y,
         \A y \in T : \E x \in S : f[x] = y
  PROVE  IsFiniteSet(T) /\ Cardinality(T) = Cardinality(S)
<1> DEFINE g == [x \in S |-> f[x]]
<1>1. g \in [S -> T] /\ \A x \in S : g[x] = f[x]
  OBVIOUS
<1> HIDE DEF g
<1>2. \A x, y \in S : g[x] = g[y] => x = y
  BY <1>1
<1>5. \A y \in T : \E x \in S : g[x] = y
  BY <1>1
<1>6. g \in Injection(S, T)
  BY <1>1, <1>2 DEF Injection, IsInjective
<1>7. g \in Surjection(S, T)
  BY <1>1, <1>5 DEF Surjection
<1>3. g \in Bijection(S, T)
  BY <1>6, <1>7 DEF Bijection
<1>4. ExistsBijection(S, T)
  BY <1>3 DEF ExistsBijection
<1> QED
  BY <1>4, FS_Bijection

-----------------------------------------------------------------------------
(* Documents with nodes less *)

\* e is d without nodes that should not stay, where h says which node is which; who
\* lies in whom is the same, and from around those that are left only elements
\* have gone whose content is kept.
Thinned(d, e, h) ==
  /\ h \in [1 .. Len(e) -> 1 .. Len(d)]
  /\ \A m, n \in 1 .. Len(e) : m < n => h[m] < h[n]
  /\ \A n \in 1 .. Len(e) : e[n].tag = d[h[n]].tag
  /\ \A m, n \in 1 .. Len(e) : m \in Ancestors(e, n) <=> h[m] \in Ancestors(d, h[n])
  /\ \A n \in 1 .. Len(e) : \A m \in Ancestors(d, h[n]) : (\E i \in 1 .. Len(e) : h[i] = m) \/ Opens(d[m].tag)
  /\ \A r \in 1 .. Len(d) : (\E i \in 1 .. Len(e) : h[i] = r) \/ ~Stays(d, r)

LEMMA ThinnedTwice ==
  ASSUME NEW o \in Seq(NodeType), NEW d \in Seq(NodeType), NEW e \in Seq(NodeType), NEW g, NEW h, Thinned(o, d, g), Thinned(d, e, h)
  PROVE  Thinned(o, e, [n \in 1 .. Len(e) |-> g[h[n]]])
<1> DEFINE f == [n \in 1 .. Len(e) |-> g[h[n]]]
<1>1. \A n \in 1 .. Len(e) : h[n] \in 1 .. Len(d) /\ f[n] = g[h[n]] /\ e[n].tag = d[h[n]].tag
  BY DEF Thinned
<1>2. \A k \in 1 .. Len(d) : g[k] \in 1 .. Len(o) /\ d[k].tag = o[g[k]].tag
  BY DEF Thinned
<1>3. f \in [1 .. Len(e) -> 1 .. Len(o)]
  BY <1>1, <1>2
<1> HIDE DEF f
<1>4. \A m, n \in 1 .. Len(e) : m < n => f[m] < f[n]
  BY <1>1 DEF Thinned
<1>5. \A n \in 1 .. Len(e) : e[n].tag = o[f[n]].tag
  BY <1>1, <1>2
<1>6. \A m, n \in 1 .. Len(e) : m \in Ancestors(e, n) <=> f[m] \in Ancestors(o, f[n])
  BY <1>1 DEF Thinned
<1>7. \A k \in 1 .. Len(d) : Ancestors(d, k) \subseteq 1 .. Len(d)
  BY AncestorsAbove
<1>8. ASSUME NEW n \in 1 .. Len(e), NEW m \in Ancestors(o, f[n])
      PROVE  (\E i \in 1 .. Len(e) : f[i] = m) \/ Opens(o[m].tag)
  <2>1. (\E i \in 1 .. Len(d) : g[i] = m) \/ Opens(o[m].tag)
    BY <1>1 DEF Thinned
  <2>2. ASSUME NEW i \in 1 .. Len(d), g[i] = m PROVE (\E j \in 1 .. Len(e) : f[j] = m) \/ Opens(o[m].tag)
    <3>1. i \in Ancestors(d, h[n])
      BY <1>1, <2>2 DEF Thinned
    <3>2. (\E j \in 1 .. Len(e) : h[j] = i) \/ Opens(d[i].tag)
      BY <3>1 DEF Thinned
    <3> QED
      BY <1>1, <1>2, <2>2, <3>2
  <2> QED
    BY <2>1, <2>2
<1>9. ASSUME NEW r \in 1 .. Len(o) PROVE (\E i \in 1 .. Len(e) : f[i] = r) \/ ~Stays(o, r)
  <2>1. (\E k \in 1 .. Len(d) : g[k] = r) \/ ~Stays(o, r)
    BY DEF Thinned
  <2>2. ASSUME NEW k \in 1 .. Len(d), g[k] = r, \A i \in 1 .. Len(e) : h[i] # k PROVE ~Stays(o, r)
    <3>1. ~Stays(d, k)
      BY <2>2 DEF Thinned
    <3>2. CASE ~Allowed(d[k].tag)
      BY <1>2, <2>2, <3>2 DEF Stays
    <3>3. ASSUME NEW m \in Ancestors(d, k), ~(Allowed(d[m].tag) \/ Opens(d[m].tag)) PROVE ~Stays(o, r)
      <4>1. m \in 1 .. Len(d)
        BY <1>7
      <4>2. g[m] \in Ancestors(o, g[k])
        BY <4>1 DEF Thinned
      <4> QED
        BY <1>2, <2>2, <3>3, <4>1, <4>2 DEF Stays
    <3> QED
      BY <3>1, <3>2, <3>3 DEF Stays
  <2> QED
    BY <1>1, <2>1, <2>2, ZenonT(60)
<1>10. Thinned(o, e, f)
  BY <1>3, <1>4, <1>5, <1>6, <1>8, <1>9 DEF Thinned
<1> QED
  BY <1>10 DEF f

\* The same nodes with the same depths.
LEMMA ThinnedByNothing ==
  ASSUME NEW d \in Seq(NodeType), NEW e \in Seq(NodeType), Len(e) = Len(d),
         \A n \in 1 .. Len(d) : e[n].tag = d[n].tag /\ e[n].depth = d[n].depth
  PROVE  /\ Thinned(d, e, [n \in 1 .. Len(e) |-> n])
         /\ Deep(d) => Deep(e)
<1> DEFINE h == [n \in 1 .. Len(e) |-> n]
<1>1. \A n \in 1 .. Len(d) : h[n] = n
  OBVIOUS
<1>2. Depths(e) = Depths(d)
  BY DEF Depths
<1>3. \A n \in 1 .. Len(d) : Ancestors(e, n) = Ancestors(d, n)
  BY <1>2, AncestorsAbove
<1>4. Deep(d) => Deep(e)
  BY <1>3 DEF Deep
<1>5. h \in [1 .. Len(e) -> 1 .. Len(d)]
  OBVIOUS
<1>6. \A n \in 1 .. Len(d) : Ancestors(d, n) \subseteq 1 .. Len(d)
  BY AncestorsAbove
<1> HIDE DEF h
<1>7. \A m, n \in 1 .. Len(e) : m < n => h[m] < h[n]
  BY <1>1
<1>8. \A n \in 1 .. Len(e) : \A m \in Ancestors(d, h[n]) : \E i \in 1 .. Len(e) : h[i] = m
  BY <1>1, <1>6
<1>9. \A r \in 1 .. Len(d) : \E i \in 1 .. Len(e) : h[i] = r
  BY <1>1
<1>10. Thinned(d, e, h)
  BY <1>1, <1>3, <1>5, <1>7, <1>8, <1>9 DEF Thinned
<1> QED
  BY <1>4, <1>10 DEF h

\* An element that is not allowed, and its content.
LEMMA UnwrapThins ==
  ASSUME doc \in Seq(NodeType), Deep(doc), pos \in 1 .. Len(doc), Opens(doc[pos].tag),
         NEW e, e = Replace(Reread(Content))
  PROVE  /\ e \in Seq(NodeType) /\ Deep(e) /\ pos \in 1 .. Len(e) + 1
         /\ \E h : /\ Thinned(doc, e, h)
                   /\ \A n \in 1 .. Len(e) : e[n].attrs = doc[h[n]].attrs /\ (IF n < pos THEN h[n] = n ELSE h[n] > pos)
<1> DEFINE N == Len(doc)
           q == EndOfContent
           H(n) == IF n < pos THEN n ELSE n + 1
           h == [n \in 1 .. Len(e) |-> H(n)]
           a == Depths(doc)
           b == Depths(e)
<1>1. /\ q \in pos .. N
      /\ \A n \in pos + 1 .. q : doc[n].depth > doc[pos].depth
      /\ q < N => doc[q + 1].depth <= doc[pos].depth
  BY ContentEnds
<1>2. N \in Nat /\ pos \in Nat /\ 1 <= pos /\ pos <= N /\ q \in Nat /\ pos <= q /\ q <= N
  BY <1>1
<1> HIDE DEF q
<1>3. /\ Content \in Seq(NodeType) /\ Len(Content) = q - pos
      /\ \A n \in 1 .. q - pos : Content[n] = doc[pos + n]
  BY <1>2 DEF Content, q
<1>4. /\ Higher(Content) \in Seq(NodeType) /\ Len(Higher(Content)) = q - pos
      /\ \A n \in 1 .. q - pos : Higher(Content)[n] = [Content[n] EXCEPT !.depth = @ - 1]
  BY <1>3, HigherNodes
<1>5. /\ e \in Seq(NodeType) /\ Len(e) = N - (q - pos + 1) + (q - pos)
      /\ \A n \in 1 .. Len(e) : e[n] = IF n < pos THEN doc[n]
                                       ELSE IF n < pos + (q - pos) THEN Higher(Content)[n - pos + 1]
                                       ELSE doc[n - (q - pos) + (q - pos + 1)]
  BY <1>4, ReplacedNodes DEF q, Reread
<1>6. Len(e) = N - 1
  BY <1>2, <1>5
<1>7. ASSUME NEW n \in 1 .. N - 1
      PROVE  /\ H(n) \in 1 .. N
             /\ e[n].tag = doc[H(n)].tag /\ e[n].attrs = doc[H(n)].attrs
             /\ e[n].depth = IF n < pos THEN doc[n].depth ELSE IF n < q THEN doc[n + 1].depth - 1 ELSE doc[n + 1].depth
  <2>1. n \in Nat /\ 1 <= n /\ n <= N - 1 /\ H(n) \in 1 .. N
    BY <1>2
  <2>2. CASE n < pos
    BY <1>5, <1>6, <2>1, <2>2
  <2>3. CASE ~(n < pos) /\ n < q
    <3>1. n < pos + (q - pos) /\ n - pos + 1 \in 1 .. q - pos /\ pos + (n - pos + 1) = n + 1 /\ H(n) = n + 1
      BY <1>2, <2>1, <2>3
    <3>2. e[n] = [doc[n + 1] EXCEPT !.depth = @ - 1]
      <4> DEFINE i == n - pos + 1
      <4>1. i \in 1 .. q - pos /\ Content[i] = doc[n + 1]
        BY <1>3, <3>1
      <4>2. n \in 1 .. Len(e)
        BY <1>6
      <4>3. e[n] = Higher(Content)[i]
        BY <1>5, <2>3, <3>1, <4>2
      <4> HIDE DEF i
      <4>4. Higher(Content)[i] = [Content[i] EXCEPT !.depth = @ - 1]
        BY <1>4, <4>1
      <4> QED
        BY <4>1, <4>3, <4>4
    <3>3. doc[n + 1] \in NodeType
      BY <2>1, <3>1, ElementOfSeq
    <3> QED
      BY <2>1, <2>3, <3>1, <3>2, <3>3, NodeFields
  <2>4. CASE ~(n < pos) /\ ~(n < q)
    <3>1. ~(n < pos + (q - pos)) /\ n - (q - pos) + (q - pos + 1) = n + 1 /\ H(n) = n + 1
      BY <1>2, <2>1, <2>4
    <3>2. e[n] = doc[n + 1]
      BY <1>5, <1>6, <2>4, <3>1
    <3> QED
      BY <2>1, <2>4, <3>1, <3>2
  <2> QED
    BY <2>2, <2>3, <2>4
<1>8. a \in [1 .. N -> Int] /\ b \in [1 .. N - 1 -> Int]
  BY <1>5, <1>6, DepthsType
<1>9. (\A n \in 1 .. N : a[n] = doc[n].depth) /\ \A n \in 1 .. N - 1 : b[n] = e[n].depth
  BY <1>6 DEF Depths
<1> HIDE DEF N, a, b, h
<1>10. \A k \in pos + 1 .. q : a[k] > a[pos]
  <2>1. \A k \in pos + 1 .. q : k \in 1 .. N
    BY <1>2
  <2>2. pos \in 1 .. N
    BY <1>2
  <2> QED
    BY <1>1, <1>9, <2>1, <2>2
<1>11. q < N => a[q + 1] <= a[pos]
  <2>1. q < N => q + 1 \in 1 .. N
    BY <1>2
  <2>2. pos \in 1 .. N
    BY <1>2
  <2> QED
    BY <1>1, <1>9, <2>1, <2>2
<1>12. \A n \in 1 .. N - 1 : a[n + 1] <= a[n] + 1
  <2>1. \A n \in 1 .. N - 1 : n \in 1 .. N /\ n + 1 \in 1 .. N
    BY <1>2
  <2>2. \A n \in 1 .. N - 1 : doc[n + 1].depth <= doc[n].depth + 1
    BY NextDepth DEF N
  <2> QED
    BY <1>9, <2>1, <2>2
<1>13. \A n \in 1 .. N - 1 : b[n] = IF n < pos THEN a[n] ELSE IF n < q THEN a[n + 1] - 1 ELSE a[n + 1]
  <2>1. \A n \in 1 .. N - 1 : n \in 1 .. N /\ n + 1 \in 1 .. N
    BY <1>2
  <2> QED
    BY <1>7, <1>9, <2>1
<1>14. ASSUME NEW m \in 1 .. N - 1, NEW n \in 1 .. N - 1 PROVE Above(b, m, n) <=> Above(a, H(m), H(n))
  <2>1. pos \in 1 .. N /\ q \in pos .. N
    BY <1>2
  <2>2. Contains(N, a, pos, q)
    BY <1>2, <1>8, <1>10, <1>11, <2>1 DEF Contains
  <2>3. Unwrapped(N, a, pos, q, b)
    BY <1>8, <1>12, <1>13, <2>2 DEF Unwrapped
  <2> QED
    BY <2>3, UnwrappedAbove DEF Shifted
<1>15. \A n \in 1 .. N : Ancestors(doc, n) \subseteq 1 .. N /\ \A m \in 1 .. N : m \in Ancestors(doc, n) <=> Above(a, m, n)
  BY AncestorsAbove DEF N, a
<1>16. \A n \in 1 .. N - 1 : Ancestors(e, n) \subseteq 1 .. N - 1 /\ \A m \in 1 .. N - 1 : m \in Ancestors(e, n) <=> Above(b, m, n)
  BY <1>5, <1>6, AncestorsAbove DEF N, b
<1>17. \A m, n \in 1 .. N - 1 : m \in Ancestors(e, n) <=> H(m) \in Ancestors(doc, H(n))
  BY <1>7, <1>14, <1>15, <1>16
<1>18. ASSUME NEW m \in 1 .. N, m # pos PROVE \E i \in 1 .. N - 1 : H(i) = m
  <2>1. CASE m < pos
    <3>1. m \in 1 .. N - 1 /\ H(m) = m
      BY <1>2, <2>1
    <3> QED
      BY <3>1
  <2>2. CASE ~(m < pos)
    <3>1. m - 1 \in 1 .. N - 1 /\ H(m - 1) = m
      BY <1>2, <1>18, <2>2
    <3> QED
      BY <3>1
  <2> QED
    BY <2>1, <2>2
<1>19. \A n \in 1 .. N - 1 : h[n] = H(n)
  BY <1>6 DEF h
<1>20. h \in [1 .. Len(e) -> 1 .. N]
  BY <1>6, <1>7 DEF h
<1>21. \A m, n \in 1 .. N - 1 : m < n => H(m) < H(n)
  BY <1>2
<1>22. ~Stays(doc, pos)
  BY DEF Stays, Opens, Allowed
<1>23. Thinned(doc, e, h)
  <2> HIDE DEF H
  <2>1. \A m, n \in 1 .. Len(e) : m < n => h[m] < h[n]
    BY <1>6, <1>19, <1>21
  <2>2. \A n \in 1 .. Len(e) : e[n].tag = doc[h[n]].tag
    BY <1>6, <1>7, <1>19
  <2>3. \A m, n \in 1 .. Len(e) : m \in Ancestors(e, n) <=> h[m] \in Ancestors(doc, h[n])
    BY <1>6, <1>17, <1>19
  <2>4. \A m \in 1 .. N : (\E i \in 1 .. Len(e) : h[i] = m) \/ m = pos
    BY <1>6, <1>18, <1>19
  <2>5. \A n \in 1 .. Len(e) : \A m \in Ancestors(doc, h[n]) : (\E i \in 1 .. Len(e) : h[i] = m) \/ Opens(doc[m].tag)
    <3> SUFFICES ASSUME NEW n \in 1 .. Len(e), NEW m \in Ancestors(doc, h[n])
                 PROVE  (\E i \in 1 .. Len(e) : h[i] = m) \/ Opens(doc[m].tag)
      OBVIOUS
    <3>1. m \in 1 .. N
      BY <1>6, <1>7, <1>15, <1>19
    <3> QED
      BY <2>4, <3>1
  <2>6. \A r \in 1 .. N : (\E i \in 1 .. Len(e) : h[i] = r) \/ ~Stays(doc, r)
    BY <1>22, <2>4
  <2> QED
    BY <1>20, <2>1, <2>2, <2>3, <2>5, <2>6 DEF Thinned, N
<1>24. ASSUME NEW n \in 1 .. N - 1
       PROVE  /\ IsFiniteSet(Ancestors(doc, H(n)) \ {pos})
              /\ Cardinality(Ancestors(e, n)) = Cardinality(Ancestors(doc, H(n)) \ {pos})
  <2> DEFINE S == Ancestors(e, n)
             T == Ancestors(doc, H(n)) \ {pos}
  <2>1. IsFiniteSet(S)
    BY <1>5, <1>6, AncestorsFinite
  <2>2. \A x \in S : x \in 1 .. N - 1 /\ h[x] = H(x)
    BY <1>16, <1>19
  <2>3. \A x \in 1 .. N - 1 : H(x) # pos
    BY <1>2
  <2>4. \A x \in S : h[x] \in T
    BY <1>17, <2>2, <2>3
  <2>5. \A x, y \in 1 .. N - 1 : H(x) = H(y) => x = y
    BY <1>2
  <2>6. ASSUME NEW y \in T PROVE \E x \in S : h[x] = y
    <3>1. y \in 1 .. N /\ y # pos
      BY <1>7, <1>15
    <3>2. PICK i \in 1 .. N - 1 : H(i) = y
      BY <1>18, <3>1
    <3>3. i \in S
      BY <1>17, <3>2
    <3> QED
      BY <1>19, <3>2, <3>3
  <2> HIDE DEF S, T, H
  <2>7. \A x, y \in S : h[x] = h[y] => x = y
    BY <2>2, <2>5
  <2>8. IsFiniteSet(T) /\ Cardinality(T) = Cardinality(S)
    BY <2>1, <2>4, <2>6, <2>7, ImageSize
  <2> QED
    BY <2>8 DEF S, T
<1>25. ASSUME NEW n \in 1 .. N - 1 PROVE e[n].depth = 1 + Cardinality(Ancestors(e, n))
  <2>1. H(n) \in 1 .. N /\ n \in Nat /\ 1 <= n /\ n < N
    BY <1>2, <1>7
  <2>2. doc[H(n)].depth = 1 + Cardinality(Ancestors(doc, H(n)))
    BY <2>1 DEF Deep, N
  <2>3. IsFiniteSet(Ancestors(doc, H(n))) /\ Cardinality(Ancestors(doc, H(n))) \in Nat
    BY <2>1, AncestorsFinite DEF N
  <2>4. CASE ~(n < pos) /\ n < q
    <3>1. H(n) = n + 1 /\ pos < n + 1 /\ \A k \in pos + 1 .. n + 1 : k \in pos + 1 .. q
      BY <1>2, <2>1, <2>4
    <3>2. Above(a, pos, n + 1)
      BY <1>10, <3>1 DEF Above
    <3>3. pos \in Ancestors(doc, H(n))
      BY <1>2, <1>15, <2>1, <3>1, <3>2
    <3>4. Cardinality(Ancestors(doc, H(n)) \ {pos}) = Cardinality(Ancestors(doc, H(n))) - 1
      BY <2>3, <3>3, FS_RemoveElement
    <3>5. e[n].depth = doc[H(n)].depth - 1
      BY <1>7, <2>4, <3>1
    <3> HIDE DEF H
    <3>6. Cardinality(Ancestors(e, n)) = Cardinality(Ancestors(doc, H(n)) \ {pos})
      BY <1>24
    <3> QED
      BY <2>2, <2>3, <3>4, <3>5, <3>6
  <2>5. CASE n < pos \/ ~(n < q)
    <3>1. pos \notin Ancestors(doc, H(n))
      <4>1. CASE n < pos
        <5>1. H(n) = n /\ ~(pos < n)
          BY <1>2, <2>1, <4>1
        <5> QED
          BY <1>2, <1>15, <2>1, <5>1 DEF Above
      <4>2. CASE ~(n < q) /\ ~(n < pos)
        <5>1. H(n) = n + 1 /\ q + 1 \in pos + 1 .. n + 1 /\ q < N /\ q + 1 \in 1 .. N /\ pos \in 1 .. N
          BY <1>2, <2>1, <4>2
        <5>2. ~(a[q + 1] > a[pos])
          BY <1>8, <1>11, <5>1
        <5> QED
          BY <1>15, <2>1, <5>1, <5>2 DEF Above
      <4> QED
        BY <2>5, <4>1, <4>2
    <3>2. Ancestors(doc, H(n)) \ {pos} = Ancestors(doc, H(n))
      BY <3>1
    <3>3. e[n].depth = doc[H(n)].depth
      <4>1. n < pos \/ (~(n < pos) /\ ~(n < q))
        BY <2>5
      <4> QED
        BY <1>7, <4>1
    <3> HIDE DEF H
    <3> QED
      BY <1>24, <2>2, <3>2, <3>3
  <2> QED
    BY <2>4, <2>5
<1>26. Deep(e)
  BY <1>6, <1>25 DEF Deep
<1>27. \A n \in 1 .. N - 1 : IF n < pos THEN H(n) = n ELSE H(n) > pos
  BY <1>2
<1>28. pos \in 1 .. Len(e) + 1
  BY <1>2, <1>6
<1>29. \A n \in 1 .. Len(e) : e[n].attrs = doc[h[n]].attrs /\ (IF n < pos THEN h[n] = n ELSE h[n] > pos)
  <2> HIDE DEF H
  <2> QED
    BY <1>6, <1>7, <1>19, <1>27
<1> QED
  BY <1>5, <1>23, <1>26, <1>28, <1>29

\* A text, a clobbered form, or an element whose content is not kept.
LEMMA RemoveThins ==
  ASSUME doc \in Seq(NodeType), Deep(doc), pos \in 1 .. Len(doc),
         ~Allowed(doc[pos].tag), ~Opens(doc[pos].tag),
         NEW e, e = Replace(<< >>)
  PROVE  /\ e \in Seq(NodeType) /\ Deep(e) /\ pos \in 1 .. Len(e) + 1
         /\ \E h : /\ Thinned(doc, e, h)
                   /\ \A n \in 1 .. Len(e) : e[n].attrs = doc[h[n]].attrs /\ (IF n < pos THEN h[n] = n ELSE h[n] > pos)
<1> DEFINE N == Len(doc)
           q == EndOfContent
           w == q - pos + 1
           H(n) == IF n < pos THEN n ELSE n + w
           h == [n \in 1 .. Len(e) |-> H(n)]
           a == Depths(doc)
           b == Depths(e)
<1>1. /\ q \in pos .. N
      /\ \A n \in pos + 1 .. q : doc[n].depth > doc[pos].depth
      /\ q < N => doc[q + 1].depth <= doc[pos].depth
  BY ContentEnds
<1> DEFINE none == << >>
<1>2. none \in Seq(NodeType) /\ Len(none) = 0
  OBVIOUS
<1> HIDE DEF none
<1>3. /\ e \in Seq(NodeType) /\ Len(e) = N - w + Len(none)
      /\ \A n \in 1 .. Len(e) : e[n] = IF n < pos THEN doc[n] ELSE IF n < pos + Len(none) THEN none[n - pos + 1] ELSE doc[n - Len(none) + w]
  BY <1>2, ReplacedNodes DEF none
<1> HIDE DEF q
<1>4. N \in Nat /\ pos \in Nat /\ 1 <= pos /\ pos <= N /\ q \in Nat /\ pos <= q /\ q <= N
  BY <1>1
<1>5. w \in Nat /\ 1 <= w /\ pos + w = q + 1
  BY <1>4
<1>6. Len(e) = N - w /\ N - w \in Nat /\ pos <= N - w + 1
  BY <1>2, <1>3, <1>4
<1> HIDE DEF w
<1>7. ASSUME NEW n \in 1 .. N - w PROVE H(n) \in 1 .. N /\ e[n] = doc[H(n)]
  <2>1. H(n) \in 1 .. N
    BY <1>4, <1>5
  <2>2. ~(n < pos) => ~(n < pos + Len(none)) /\ n - Len(none) + w = n + w
    BY <1>2, <1>4, <1>5
  <2> QED
    BY <1>3, <1>6, <2>1, <2>2
<1>8. a \in [1 .. N -> Int] /\ b \in [1 .. N - w -> Int]
  BY <1>3, <1>6, DepthsType
<1>9. (\A n \in 1 .. N : a[n] = doc[n].depth) /\ \A n \in 1 .. N - w : b[n] = e[n].depth
  BY <1>6 DEF Depths
<1> HIDE DEF N, a, b, h
<1>10. \A k \in pos + 1 .. q : k \in 1 .. N /\ a[k] > a[pos]
  <2>1. \A k \in pos + 1 .. q : k \in 1 .. N
    BY <1>4
  <2>2. pos \in 1 .. N
    BY <1>4
  <2> QED
    BY <1>1, <1>9, <2>1, <2>2
<1>11. q < N => a[q + 1] <= a[pos]
  <2>1. q < N => q + 1 \in 1 .. N
    BY <1>4
  <2>2. pos \in 1 .. N
    BY <1>4
  <2> QED
    BY <1>1, <1>9, <2>1, <2>2
<1>12. \A n \in 1 .. N - w : b[n] = IF n < pos THEN a[n] ELSE a[n + w]
  BY <1>7, <1>9
<1>13. ASSUME NEW m \in 1 .. N - w, NEW n \in 1 .. N - w PROVE Above(b, m, n) <=> Above(a, H(m), H(n))
  <2>1. pos \in 1 .. N /\ q \in pos .. N /\ w = q - pos + 1
    BY <1>4 DEF w
  <2>2. \A k \in pos + 1 .. q : a[k] > a[pos]
    BY <1>10
  <2>3. Contains(N, a, pos, q)
    BY <1>4, <1>8, <1>11, <2>1, <2>2 DEF Contains
  <2>4. Cut(N, a, pos, q, w, b)
    BY <1>8, <1>12, <2>1, <2>3 DEF Cut
  <2> QED
    BY <2>4, RemovedAbove DEF Shifted
<1>14. \A n \in 1 .. N : Ancestors(doc, n) \subseteq 1 .. N /\ \A m \in 1 .. N : m \in Ancestors(doc, n) <=> Above(a, m, n)
  BY AncestorsAbove DEF N, a
<1>15. \A n \in 1 .. N - w : Ancestors(e, n) \subseteq 1 .. N - w /\ \A m \in 1 .. N - w : m \in Ancestors(e, n) <=> Above(b, m, n)
  BY <1>3, <1>6, AncestorsAbove DEF b
<1>16. \A m, n \in 1 .. N - w : m \in Ancestors(e, n) <=> H(m) \in Ancestors(doc, H(n))
  BY <1>7, <1>13, <1>14, <1>15
<1>17. ASSUME NEW m \in 1 .. N, m < pos \/ q < m PROVE \E i \in 1 .. N - w : H(i) = m
  <2>1. CASE m < pos
    <3>1. m \in 1 .. N - w /\ H(m) = m
      BY <1>4, <1>5, <1>6, <2>1
    <3> QED
      BY <3>1
  <2>2. CASE q < m
    <3>1. m - w \in 1 .. N - w /\ H(m - w) = m
      BY <1>4, <1>5, <2>2
    <3> QED
      BY <3>1
  <2> QED
    BY <1>17, <2>1, <2>2
<1>18. ASSUME NEW n \in 1 .. N - w, NEW m \in Ancestors(doc, H(n)) PROVE m \in 1 .. N /\ (m < pos \/ q < m)
  <2>1. m \in 1 .. N /\ Above(a, m, H(n))
    BY <1>7, <1>14
  <2>2. SUFFICES ASSUME pos <= m, m <= q PROVE FALSE
    BY <1>4, <2>1
  <2>3. m < H(n) /\ \A k \in m + 1 .. H(n) : a[k] > a[m]
    BY <2>1 DEF Above
  <2>4. ~(n < pos)
    BY <1>4, <2>1, <2>2, <2>3
  <2>5. H(n) = n + w /\ q + 1 \in m + 1 .. n + w /\ q < N /\ q + 1 \in 1 .. N /\ pos \in 1 .. N
    BY <1>4, <1>5, <2>1, <2>2, <2>4
  <2>6. a[q + 1] > a[m] /\ a[q + 1] <= a[pos] /\ a[m] \in Int /\ a[pos] \in Int /\ a[q + 1] \in Int
    BY <1>8, <1>11, <2>1, <2>3, <2>5
  <2>7. a[pos] <= a[m]
    <3>1. CASE m = pos
      BY <2>6, <3>1
    <3>2. CASE m # pos
      <4>1. m \in pos + 1 .. q
        BY <1>4, <2>1, <2>2, <3>2
      <4> QED
        BY <1>10, <2>6, <4>1
    <3> QED
      BY <3>1, <3>2
  <2> QED
    BY <2>6, <2>7
<1>19. ASSUME NEW r \in 1 .. N, pos <= r, r <= q PROVE ~Stays(doc, r)
  <2>1. CASE r = pos
    BY <2>1 DEF Stays
  <2>2. CASE r # pos
    <3>1. pos < r /\ pos \in 1 .. N /\ \A k \in pos + 1 .. r : k \in pos + 1 .. q
      BY <1>4, <1>19, <2>2
    <3>2. Above(a, pos, r)
      BY <1>10, <3>1 DEF Above
    <3>3. pos \in Ancestors(doc, r)
      BY <1>14, <3>1, <3>2
    <3> QED
      BY <3>3 DEF Stays
  <2> QED
    BY <2>1, <2>2
<1>20. \A n \in 1 .. N - w : h[n] = H(n) /\ (IF n < pos THEN H(n) = n ELSE H(n) > pos)
  BY <1>4, <1>5, <1>6 DEF h
<1>21. h \in [1 .. Len(e) -> 1 .. N]
  BY <1>6, <1>7 DEF h
<1>22. \A m, n \in 1 .. N - w : m < n => H(m) < H(n)
  BY <1>4, <1>5
<1>23. \A m, n \in 1 .. N - w : H(m) = H(n) => m = n
  BY <1>4, <1>5
<1>24. \A n \in 1 .. N - w : \A m \in Ancestors(doc, H(n)) : \E i \in 1 .. N - w : H(i) = m
  BY <1>17, <1>18
<1>25. \A r \in 1 .. N : (\E i \in 1 .. N - w : H(i) = r) \/ ~Stays(doc, r)
  <2>1. \A r \in 1 .. N : r < pos \/ q < r \/ (pos <= r /\ r <= q)
    BY <1>4
  <2> QED
    BY <1>17, <1>19, <2>1
<1> HIDE DEF H
<1>26. Thinned(doc, e, h)
  <2>1. \A m, n \in 1 .. Len(e) : m < n => h[m] < h[n]
    BY <1>6, <1>20, <1>22
  <2>2. \A n \in 1 .. Len(e) : e[n].tag = doc[h[n]].tag
    BY <1>6, <1>7, <1>20
  <2>3. \A m, n \in 1 .. Len(e) : m \in Ancestors(e, n) <=> h[m] \in Ancestors(doc, h[n])
    BY <1>6, <1>16, <1>20
  <2>4. \A n \in 1 .. Len(e) : \A m \in Ancestors(doc, h[n]) : (\E i \in 1 .. Len(e) : h[i] = m) \/ Opens(doc[m].tag)
    BY <1>6, <1>20, <1>24
  <2>5. \A r \in 1 .. N : (\E i \in 1 .. Len(e) : h[i] = r) \/ ~Stays(doc, r)
    BY <1>6, <1>20, <1>25
  <2> QED
    BY <1>21, <2>1, <2>2, <2>3, <2>4, <2>5 DEF Thinned, N
<1>27. ASSUME NEW n \in 1 .. N - w PROVE e[n].depth = 1 + Cardinality(Ancestors(e, n))
  <2> DEFINE S == Ancestors(e, n)
             T == Ancestors(doc, H(n))
  <2>1. IsFiniteSet(S)
    BY <1>3, <1>6, AncestorsFinite
  <2>2. \A x \in S : x \in 1 .. N - w /\ h[x] = H(x) /\ h[x] \in T
    BY <1>15, <1>16, <1>20
  <2>3. \A x, y \in S : h[x] = h[y] => x = y
    BY <1>23, <2>2
  <2>4. \A y \in T : \E x \in S : h[x] = y
    BY <1>16, <1>20, <1>24
  <2> HIDE DEF S, T
  <2>5. Cardinality(T) = Cardinality(S)
    BY <2>1, <2>2, <2>3, <2>4, ImageSize
  <2>6. doc[H(n)].depth = 1 + Cardinality(T)
    BY <1>7 DEF Deep, N, T
  <2> QED
    BY <1>7, <2>5, <2>6 DEF S
<1>28. Deep(e)
  BY <1>6, <1>27 DEF Deep
<1>29. \A n \in 1 .. Len(e) : e[n].attrs = doc[h[n]].attrs /\ (IF n < pos THEN h[n] = n ELSE h[n] > pos)
  BY <1>6, <1>7, <1>20
<1>30. pos \in 1 .. Len(e) + 1
  BY <1>4, <1>6
<1> QED
  BY <1>3, <1>26, <1>28, <1>29, <1>30

-----------------------------------------------------------------------------
(* The iterator *)

\* What has been passed of the document, and what is still as it was parsed, where g
\* says which node is which.
Treated(g) ==
  \A n \in 1 .. Len(doc) :
    IF n < pos
    THEN /\ Allowed(doc[n].tag)
         /\ Members(doc[n].attrs) = {a \in Members(original[g[n]].attrs) : Permitted(doc[n].tag, a)}
    ELSE doc[n].attrs = original[g[n]].attrs

Traced ==
  /\ original \in Seq(NodeType) /\ doc \in Seq(NodeType) /\ Deep(doc)
  /\ \A n \in DOMAIN original : AttrsApart(original[n].attrs)
  /\ pos \in 1 .. Len(doc) + 1
  /\ \E g : Thinned(original, doc, g) /\ Treated(g)

\* The document is thinned further; the iterator stays where it is.
LEMMA ThinningKeeps ==
  ASSUME Traced, UNCHANGED <<original, pos>>, NEW h, Thinned(doc, doc', h),
         doc' \in Seq(NodeType), Deep(doc'), pos \in 1 .. Len(doc') + 1,
         \A n \in 1 .. Len(doc') : doc'[n].attrs = doc[h[n]].attrs /\ (IF n < pos THEN h[n] = n ELSE h[n] > pos)
  PROVE  Traced'
<1>1. PICK g : Thinned(original, doc, g) /\ Treated(g)
  BY DEF Traced
<1>7. PICK f : f = [n \in 1 .. Len(doc') |-> g[h[n]]]
  OBVIOUS
<1>2. Thinned(original, doc', f)
  BY <1>1, <1>7, ThinnedTwice DEF Traced
<1>3. \A n \in 1 .. Len(doc') : h[n] \in 1 .. Len(doc) /\ f[n] = g[h[n]] /\ doc'[n].tag = doc[h[n]].tag
  BY <1>7 DEF Thinned
<1>4. ASSUME NEW n \in 1 .. Len(doc')
      PROVE  IF n < pos
             THEN /\ Allowed(doc'[n].tag)
                  /\ Members(doc'[n].attrs) = {a \in Members(original[f[n]].attrs) : Permitted(doc'[n].tag, a)}
             ELSE doc'[n].attrs = original[f[n]].attrs
  <2>1. h[n] \in 1 .. Len(doc) /\ f[n] = g[h[n]] /\ doc'[n].tag = doc[h[n]].tag /\ doc'[n].attrs = doc[h[n]].attrs
    BY <1>3
  <2>2. CASE n < pos
    <3>1. h[n] = n
      BY <2>2
    <3> QED
      BY <1>1, <2>1, <2>2, <3>1 DEF Treated
  <2>3. CASE ~(n < pos)
    <3>1. ~(h[n] < pos)
      BY <2>1, <2>3 DEF Traced
    <3> QED
      BY <1>1, <2>1, <2>3, <3>1 DEF Treated
  <2> QED
    BY <2>2, <2>3
<1>5. Treated(f)'
  BY <1>4 DEF Treated
<1>6. Thinned(original, doc, f)'
  BY <1>2
<1>8. original' \in Seq(NodeType) /\ \A n \in DOMAIN original' : AttrsApart(original'[n].attrs)
  BY DEF Traced
<1> QED
  BY <1>5, <1>6, <1>8 DEF Traced

\* A step of the iterator.
LEMMA SanitizeKeeps ==
  ASSUME Traced, Sanitize
  PROVE  Traced'
<1>1. pos \in 1 .. Len(doc) /\ doc \in Seq(NodeType) /\ Len(doc) \in Nat /\ Deep(doc)
  BY DEF Traced, Sanitize, Unwrap, ForceRemove, Keep, Running
<1>2. CASE Unwrap
  <2>1. doc' = Replace(Reread(Content)) /\ UNCHANGED <<original, pos>> /\ Opens(doc[pos].tag)
    BY <1>2 DEF Unwrap, Opens, Node
  <2>2. /\ doc' \in Seq(NodeType) /\ Deep(doc') /\ pos \in 1 .. Len(doc') + 1
        /\ \E h : /\ Thinned(doc, doc', h)
                  /\ \A n \in 1 .. Len(doc') : doc'[n].attrs = doc[h[n]].attrs /\ (IF n < pos THEN h[n] = n ELSE h[n] > pos)
    BY <1>1, <2>1, UnwrapThins
  <2> QED
    BY <2>1, <2>2, ThinningKeeps
<1>3. CASE ForceRemove
  <2>1. /\ doc' = Replace(<< >>) /\ UNCHANGED <<original, pos>>
        /\ ~Allowed(doc[pos].tag) /\ ~Opens(doc[pos].tag)
    BY <1>3 DEF ForceRemove, Node
  <2>2. /\ doc' \in Seq(NodeType) /\ Deep(doc') /\ pos \in 1 .. Len(doc') + 1
        /\ \E h : /\ Thinned(doc, doc', h)
                  /\ \A n \in 1 .. Len(doc') : doc'[n].attrs = doc[h[n]].attrs /\ (IF n < pos THEN h[n] = n ELSE h[n] > pos)
    BY <1>1, <2>1, RemoveThins
  <2> QED
    BY <2>1, <2>2, ThinningKeeps
<1>4. CASE Keep
  <2> DEFINE tag == doc[pos].tag
             cleaned == SanitizeAttributes(tag, doc[pos].attrs)
  <2>1. /\ doc' = [doc EXCEPT ![pos] = [doc[pos] EXCEPT !.attrs = cleaned]]
        /\ Allowed(tag) /\ pos' = pos + 1 /\ original' = original
    BY <1>4 DEF Keep, Node
  <2>2. PICK g : Thinned(original, doc, g) /\ Treated(g)
    BY DEF Traced
  <2>3. /\ g[pos] \in DOMAIN original /\ doc[pos].attrs = original[g[pos]].attrs /\ AttrsApart(doc[pos].attrs)
    <3>1. g[pos] \in 1 .. Len(original) /\ ~(pos < pos) /\ DOMAIN original = 1 .. Len(original)
      BY <1>1, <2>2 DEF Thinned, Traced
    <3> QED
      BY <1>1, <2>2, <3>1 DEF Treated, Traced
  <2>4. doc[pos] \in NodeType
    BY <1>1, ElementOfSeq
  <2>5. doc[pos].attrs \in Seq(Attribute)
    BY <2>4, NodeFields
  <2>6. /\ cleaned \in Seq(Attribute)
        /\ Members(cleaned) = {a \in Members(doc[pos].attrs) : Permitted(tag, a)}
    BY <2>3, <2>5, SanitizedAttributes
  <2> HIDE DEF cleaned
  <2> DEFINE node == [doc[pos] EXCEPT !.attrs = cleaned]
  <2>7. node \in NodeType /\ node.attrs = cleaned /\ node.tag = doc[pos].tag /\ node.depth = doc[pos].depth
    BY <2>4, <2>6, NodeFields
  <2> HIDE DEF node
  <2>8. doc' = [doc EXCEPT ![pos] = node]
    BY <2>1 DEF node
  <2>9. doc' \in Seq(NodeType) /\ Len(doc') = Len(doc)
    BY <1>1, <2>7, <2>8
  <2>10. \A n \in 1 .. Len(doc) : doc'[n] = IF n = pos THEN node ELSE doc[n]
    BY <1>1, <2>8
  <2>11. \A n \in 1 .. Len(doc) : doc'[n].tag = doc[n].tag /\ doc'[n].depth = doc[n].depth
    BY <2>7, <2>10
  <2>12. Thinned(doc, doc', [n \in 1 .. Len(doc') |-> n]) /\ Deep(doc')
    BY <1>1, <2>9, <2>11, ThinnedByNothing
  <2>13. PICK h : h = [n \in 1 .. Len(doc') |-> n]
    OBVIOUS
  <2>14. PICK f : f = [n \in 1 .. Len(doc') |-> g[h[n]]]
    OBVIOUS
  <2>15. Thinned(original, doc', f)
    BY <1>1, <2>2, <2>9, <2>12, <2>13, <2>14, ThinnedTwice DEF Traced
  <2>16. \A n \in 1 .. Len(doc') : f[n] = g[n]
    BY <2>13, <2>14
  <2>17. ASSUME NEW n \in 1 .. Len(doc')
         PROVE  IF n < pos'
                THEN /\ Allowed(doc'[n].tag)
                     /\ Members(doc'[n].attrs) = {a \in Members(original[f[n]].attrs) : Permitted(doc'[n].tag, a)}
                ELSE doc'[n].attrs = original[f[n]].attrs
    <3>1. n \in 1 .. Len(doc) /\ n \in Nat /\ pos \in Nat /\ f[n] = g[n]
      BY <1>1, <2>9, <2>16
    <3>2. CASE n = pos
      <4>1. doc'[n] = node /\ n < pos' /\ g[n] = g[pos]
        BY <2>1, <2>10, <3>1, <3>2
      <4> QED
        BY <2>1, <2>3, <2>6, <2>7, <3>1, <4>1
    <3>3. CASE n # pos
      <4>1. doc'[n] = doc[n] /\ (n < pos' <=> n < pos)
        BY <2>1, <2>10, <3>1, <3>3
      <4> QED
        BY <2>2, <3>1, <4>1 DEF Treated
    <3> QED
      BY <3>2, <3>3
  <2>18. Treated(f)'
    BY <2>1, <2>17 DEF Treated
  <2>19. Thinned(original, doc, f)'
    BY <2>1, <2>15
  <2>20. original' \in Seq(NodeType) /\ \A n \in DOMAIN original' : AttrsApart(original'[n].attrs)
    BY <2>1 DEF Traced
  <2>21. pos' \in 1 .. Len(doc') + 1
    BY <1>1, <2>1, <2>9
  <2> QED
    BY <2>9, <2>12, <2>18, <2>19, <2>20, <2>21 DEF Traced
<1> QED
  BY <1>2, <1>3, <1>4 DEF Sanitize

\* What a document is when it is parsed.
LEMMA DocumentType ==
  ASSUME NEW d, d \in HtmlDocuments \/ d = << >>
  PROVE  d \in Seq(NodeType) /\ Deep(d) /\ \A n \in DOMAIN d : AttrsApart(d[n].attrs)
<1>1. CASE d \in HtmlDocuments
  <2>1. IsDocument(d)
    BY <1>1, DocumentsAssumption
  <2>2. [depth : Nat, tag : STRING, attrs : Seq(Attribute)] \subseteq NodeType
    BY DEF NodeType
  <2>3. d \in Seq([depth : Nat, tag : STRING, attrs : Seq(Attribute)])
    BY <2>1 DEF IsDocument
  <2>4. d \in Seq(NodeType)
    BY <2>2, <2>3, SeqOfLarger
  <2>5. DOMAIN d = 1 .. Len(d)
    BY <2>4, DepthsType
  <2> QED
    BY <2>1, <2>4, <2>5 DEF IsDocument, Deep, AttrsApart
<1>2. CASE d = << >>
  <2>1. d \in Seq(NodeType) /\ DOMAIN d = {} /\ 1 .. Len(d) = {}
    BY <1>2
  <2> QED
    BY <2>1 DEF Deep
<1> QED
  BY <1>1, <1>2

\* A document that has just been parsed.
LEMMA NothingTreated ==
  ASSUME doc = original, pos = 1, original \in HtmlDocuments \/ original = << >>
  PROVE  Traced
<1>1. doc \in Seq(NodeType) /\ Deep(doc) /\ \A n \in DOMAIN original : AttrsApart(original[n].attrs)
  BY DocumentType
<1> DEFINE g == [n \in 1 .. Len(doc) |-> n]
<1>2. Thinned(original, doc, g)
  BY <1>1, ThinnedByNothing
<1>3. Len(doc) \in Nat /\ \A n \in 1 .. Len(doc) : ~(n < pos) /\ g[n] = n
  BY <1>1
<1> HIDE DEF g
<1>4. Treated(g)
  BY <1>3 DEF Treated
<1> QED
  BY <1>1, <1>2, <1>3, <1>4 DEF Traced

\* Two nodes are the same that have the same depth, tag and attributes.
Alike(x, y, D, A) ==
  x \in NodeType /\ y \in NodeType /\ x.depth = D /\ x.tag = y.tag /\ Seqs!Range(x.attrs) = A

AttrsAsSet(x) == [x EXCEPT !.attrs = Seqs!Range(@)]
NodeWith(y, D, A) == [y EXCEPT !.depth = D, !.attrs = A]

LEMMA SameNode ==
  ASSUME NEW x, NEW y, NEW D, NEW A, Alike(x, y, D, A)
  PROVE  AttrsAsSet(x) = NodeWith(y, D, A)
<1> SUFFICES ASSUME x \in NodeType, y \in NodeType, x.depth = D, x.tag = y.tag, Seqs!Range(x.attrs) = A
             PROVE  [x EXCEPT !.attrs = Seqs!Range(@)] = [y EXCEPT !.depth = D, !.attrs = A]
  BY DEF Alike, AttrsAsSet, NodeWith
<1>1. PICK d1 \in Int, t1 \in STRING, a1 \in Seq(Attribute) : x = [depth |-> d1, tag |-> t1, attrs |-> a1]
  BY DEF NodeType
<1>2. PICK d2 \in Int, t2 \in STRING, a2 \in Seq(Attribute) : y = [depth |-> d2, tag |-> t2, attrs |-> a2]
  BY DEF NodeType
<1> DEFINE r == Seqs!Range(x.attrs)
<1>3. [x EXCEPT !.attrs = r] = [depth |-> d1, tag |-> t1, attrs |-> r]
  BY <1>1
<1> DEFINE z == [y EXCEPT !.depth = D]
<1>8. z = [depth |-> D, tag |-> t2, attrs |-> a2]
  BY <1>2
<1> HIDE DEF z
<1>9. [z EXCEPT !.attrs = A] = [depth |-> D, tag |-> t2, attrs |-> A]
  BY <1>8
<1>4. [y EXCEPT !.depth = D, !.attrs = A] = [depth |-> D, tag |-> t2, attrs |-> A]
  BY <1>9 DEF z
<1>5. d1 = D /\ t1 = t2
  BY <1>1, <1>2
<1> HIDE DEF r
<1>6. [x EXCEPT !.attrs = Seqs!Range(@)] = [x EXCEPT !.attrs = r]
  BY DEF r
<1>7. r = A
  BY DEF r
<1> QED
  BY <1>3, <1>4, <1>5, <1>6, <1>7

\* Of a document that has been gone through, what is left is what should be.
LEMMA TreatedAll ==
  ASSUME Traced, ~Running
  PROVE  PurifiedAsDefined
<1> DEFINE N == Len(doc)
           numbers == [n \in DOMAIN original |-> n]
           S == {n \in DOMAIN original : Stays(original, n)}
           left == Only(numbers, S)
<1>1. PICK g : Thinned(original, doc, g) /\ Treated(g)
  BY DEF Traced
<1>2. /\ doc \in Seq(NodeType) /\ original \in Seq(NodeType) /\ N \in Nat /\ Len(original) \in Nat
      /\ DOMAIN doc = 1 .. N /\ DOMAIN original = 1 .. Len(original)
  BY DepthsType DEF Traced
<1>3. \A n \in 1 .. N : n < pos
  BY <1>2 DEF Traced, Running
<1>4. ASSUME NEW n \in 1 .. N
      PROVE  /\ g[n] \in DOMAIN original /\ doc[n].tag = original[g[n]].tag /\ Allowed(doc[n].tag)
             /\ Members(doc[n].attrs) = {a \in Members(original[g[n]].attrs) : Permitted(doc[n].tag, a)}
  BY <1>1, <1>2, <1>3 DEF Thinned, Treated
<1>5. \A n \in 1 .. N : Stays(original, g[n])
  <2> SUFFICES ASSUME NEW n \in 1 .. N, NEW m \in Ancestors(original, g[n])
               PROVE  Allowed(original[m].tag) \/ Opens(original[m].tag)
    BY <1>4 DEF Stays
  <2>1. (\E i \in 1 .. N : g[i] = m) \/ Opens(original[m].tag)
    BY <1>1 DEF Thinned
  <2> QED
    BY <1>4, <2>1 DEF Opens
<1>6. \A r \in S : \E i \in 1 .. N : g[i] = r
  BY <1>1, <1>2 DEF Thinned
<1> DEFINE gs == [n \in 1 .. N |-> g[n]]
<1>7. gs \in Seq(Nat) /\ Len(gs) = N /\ DOMAIN gs = 1 .. N /\ \A n \in 1 .. N : gs[n] = g[n]
  BY <1>2, <1>4
<1> HIDE DEF N, gs, S
<1>8. Members(gs) = S
  <2>1. \A r : r \in Members(gs) <=> \E n \in 1 .. N : g[n] = r
    BY <1>7 DEF Members
  <2>2. \A r \in S : r \in Members(gs)
    BY <1>6, <2>1
  <2>3. \A r \in Members(gs) : r \in S
    BY <1>4, <1>5, <2>1 DEF S
  <2> QED
    BY <2>2, <2>3
<1>9. \A m, n \in DOMAIN gs : m < n => gs[m] < gs[n]
  BY <1>1, <1>7 DEF Thinned, N
<1>10. numbers \in Seq(Nat) /\ DOMAIN numbers = DOMAIN original /\ \A n \in DOMAIN original : numbers[n] = n
  BY <1>2
<1> HIDE DEF numbers
<1>11. left \in Seq(Nat)
  <2>1. left \in Seq(Nat \cap S)
    BY <1>10, OnlyProperties
  <2> QED
    BY <2>1, SeqOfLarger
<1>12. Members(left) = S
  <2>1. Members(left) = Members(numbers) \cap S
    BY <1>10, OnlyOrder
  <2>2. S \subseteq Members(numbers)
    BY <1>10 DEF Members, S
  <2> QED
    BY <2>1, <2>2
<1>13. \A m, n \in DOMAIN left : m < n => left[m] < left[n]
  <2>1. PICK place \in [DOMAIN left -> Places(numbers, S)] :
         /\ \A n \in DOMAIN left : left[n] = numbers[place[n]]
         /\ \A m, n \in DOMAIN left : m < n => place[m] < place[n]
    BY <1>10, OnlyOrdered
  <2>2. \A n \in DOMAIN left : left[n] = place[n]
    BY <1>10, <2>1 DEF Places
  <2> QED
    BY <2>1, <2>2
<1>14. PurifiedAsDefined <=> [n \in DOMAIN doc |-> [doc[n] EXCEPT !.attrs = Seqs!Range(@)]] = [n \in DOMAIN left |-> Clean(original, left[n])]
  BY DEF PurifiedAsDefined, left, numbers, S
<1> HIDE DEF left
<1>15. Len(gs) = Len(left) /\ \A n \in 1 .. Len(gs) : gs[n] = left[n]
  BY <1>7, <1>8, <1>9, <1>11, <1>12, <1>13, SameNumbers
<1>16. DOMAIN left = 1 .. N /\ \A n \in 1 .. N : left[n] = g[n]
  BY <1>7, <1>11, <1>15
<1>17. ASSUME NEW n \in 1 .. N
       PROVE  [doc[n] EXCEPT !.attrs = Seqs!Range(@)] = Clean(original, g[n])
  <2> DEFINE P == Ancestors(doc, n)
             T == {m \in Ancestors(original, g[n]) : Allowed(original[m].tag)}
             A == {a \in Seqs!Range(original[g[n]].attrs) : Permitted(original[g[n]].tag, a)}
  <2>1. IsFiniteSet(P) /\ P \subseteq 1 .. N
    BY <1>2, AncestorsFinite, AncestorsAbove DEF N
  <2>2. \A x \in P : g[x] \in T
    BY <1>1, <1>4, <2>1 DEF Thinned, N
  <2>3. \A x, y \in P : g[x] = g[y] => x = y
    <3>1. \A x, y \in 1 .. N : x < y => g[x] < g[y]
      BY <1>1 DEF Thinned, N
    <3>2. \A x \in 1 .. N : x \in Nat /\ g[x] \in Nat
      BY <1>2, <1>4
    <3> HIDE DEF P
    <3> QED
      BY <2>1, <3>1, <3>2, SmallerIsOther
  <2>4. \A y \in T : \E x \in P : g[x] = y
    <3> SUFFICES ASSUME NEW y \in T PROVE \E x \in P : g[x] = y
      OBVIOUS
    <3>1. PICK i \in 1 .. N : g[i] = y
      BY <1>1 DEF Thinned, Opens, Allowed, N
    <3>2. i \in P
      BY <1>1, <3>1 DEF Thinned, N
    <3> QED
      BY <3>1, <3>2
  <2> HIDE DEF P, T
  <2>5. Cardinality(T) = Cardinality(P)
    BY <2>1, <2>2, <2>3, <2>4, ImageSize
  <2>6. doc[n].depth = 1 + Cardinality(P)
    BY DEF Traced, Deep, P, N
  <2>7. doc[n].depth = 1 + Cardinality(T)
    BY <2>5, <2>6
  <2>8. Seqs!Range(doc[n].attrs) = A
    BY <1>4, RangeIsMembers
  <2>9. doc[n] \in NodeType /\ original[g[n]] \in NodeType
    BY <1>2, <1>4, ElementOfSeq
  <2> HIDE DEF A
  <2> DEFINE D == 1 + Cardinality(T)
             x == doc[n]
             y == original[g[n]]
  <2>11. Alike(x, y, D, A)
    BY <1>4, <2>7, <2>8, <2>9 DEF Alike
  <2> HIDE DEF D, x, y
  <2>12. AttrsAsSet(x) = NodeWith(y, D, A)
    BY <2>11, SameNode
  <2>10. [doc[n] EXCEPT !.attrs = Seqs!Range(@)] = [original[g[n]] EXCEPT !.depth = 1 + Cardinality(T), !.attrs = A]
    BY <2>12 DEF D, x, y, AttrsAsSet, NodeWith
  <2> QED
    BY <2>10 DEF Clean, T, A
<1>18. [n \in DOMAIN doc |-> [doc[n] EXCEPT !.attrs = Seqs!Range(@)]] = [n \in DOMAIN left |-> Clean(original, left[n])]
  <2>1. \A n \in 1 .. N : [doc[n] EXCEPT !.attrs = Seqs!Range(@)] = Clean(original, left[n])
    BY <1>16, <1>17
  <2>2. DOMAIN doc = 1 .. N
    BY <1>2 DEF N
  <2> QED
    BY <1>16, <2>1, <2>2, Zenon
<1> QED
  BY <1>14, <1>18

\* Of a document that has been gone through, what is left is allowed.
LEMMA TreatedAllowed ==
  ASSUME Traced, ~Running
  PROVE  \A n \in DOMAIN doc : Allowed(doc[n].tag)
<1>1. PICK g : Treated(g)
  BY DEF Traced
<1>2. doc \in Seq(NodeType) /\ Len(doc) \in Nat /\ DOMAIN doc = 1 .. Len(doc)
  BY DepthsType DEF Traced
<1>3. \A n \in 1 .. Len(doc) : n < pos
  BY <1>2 DEF Traced, Running
<1> QED
  BY <1>1, <1>2, <1>3 DEF Treated

Parsed == doc = original /\ pos = 1 /\ (original \in HtmlDocuments \/ original = << >>)

LEMMA ParsedTraced == Parsed => Traced
  BY NothingTreated DEF Parsed


-----------------------------------------------------------------------------
(* Sums *)

\* Two sequences of numbers that grow by the same amounts keep their distance.
LEMMA SameGrowth ==
  ASSUME NEW m \in Nat, NEW g, NEW h,
         \A n \in 1 .. m + 1 : g[n] \in Int /\ h[n] \in Int,
         \A n \in 1 .. m : g[n + 1] - g[n] = h[n + 1] - h[n]
  PROVE  \A n \in 1 .. m + 1 : g[n] - g[1] = h[n] - h[1]
<1> DEFINE Bad == {n \in 1 .. m + 1 : g[n] - g[1] # h[n] - h[1]}
<1>1. CASE Bad = {}
  BY <1>1
<1>2. CASE Bad # {}
  <2>1. Bad \subseteq Nat
    OBVIOUS
  <2>2. PICK n \in Bad : \A x \in Bad : n <= x
    <3> HIDE DEF Bad
    <3> QED
      BY <1>2, <2>1, LeastNumber
  <2>3. n \in 1 .. m + 1 /\ g[n] - g[1] # h[n] - h[1]
    BY <2>2
  <2>4. n # 1
    BY <2>3
  <2>5. n - 1 \in 1 .. m /\ n - 1 \in 1 .. m + 1 /\ (n - 1) + 1 = n
    BY <2>3, <2>4
  <2>6. n - 1 \notin Bad
    BY <2>2, <2>5
  <2>7. g[n - 1] - g[1] = h[n - 1] - h[1]
    BY <2>5, <2>6
  <2>8. g[n] - g[n - 1] = h[n] - h[n - 1]
    BY <2>5
  <2>9. g[n] \in Int /\ h[n] \in Int /\ g[n - 1] \in Int /\ h[n - 1] \in Int /\ g[1] \in Int /\ h[1] \in Int
    BY <2>3, <2>5
  <2> QED
    BY <2>3, <2>7, <2>8, <2>9
<1> QED
  BY <1>1, <1>2

Pieces(s) == s \in Seq(Members(s)) /\ \A n \in 1 .. Len(s) : s[n].len \in Nat

Summed(s, m, f) == f = [n \in 1 .. m |-> IF n = 1 THEN 0 ELSE f[n - 1] + s[n - 1].len]

\* The recursion of Offsets has a solution.
LEMMA OffsetsExist ==
  ASSUME NEW s, Pieces(s), NEW k \in 1 .. Len(s) + 1
  PROVE  \E f : Summed(s, k, f)
<1> DEFINE Good(m) == \E f : Summed(s, m, f)
           Bad == {m \in 1 .. Len(s) + 1 : ~Good(m)}
<1>0. Len(s) \in Nat
  BY DEF Pieces
<1>1. CASE Bad = {}
  BY <1>1
<1>2. CASE Bad # {}
  <2>1. Bad \subseteq Nat
    BY <1>0
  <2>2. PICK m \in Bad : \A x \in Bad : m <= x
    <3> HIDE DEF Bad
    <3> QED
      BY <1>2, <2>1, LeastNumber
  <2>3. m \in 1 .. Len(s) + 1 /\ ~Good(m)
    BY <2>2
  <2>4. CASE m = 1
    <3> DEFINE f == [n \in 1 .. 1 |-> 0]
    <3>1. f = [n \in 1 .. 1 |-> IF n = 1 THEN 0 ELSE f[n - 1] + s[n - 1].len]
      OBVIOUS
    <3>3. Summed(s, 1, f)
      BY <3>1 DEF Summed
    <3> QED
      BY <2>3, <2>4, <3>3
  <2>5. CASE m # 1
    <3>1. m - 1 \in 1 .. Len(s) + 1 /\ m - 1 \in 1 .. Len(s) /\ m \in Nat
      BY <1>0, <2>3, <2>5
    <3>2. m - 1 \notin Bad
      BY <2>2, <3>1
    <3>3. Good(m - 1)
      BY <3>1, <3>2
    <3>4. PICK g : Summed(s, m - 1, g)
      BY <3>3
    <3> DEFINE f == [n \in 1 .. m |-> IF n = m THEN g[m - 1] + s[m - 1].len ELSE g[n]]
    <3>6. \A n \in 1 .. m - 1 : f[n] = g[n] /\ n \in 1 .. m
      BY <3>1
    <3>7. f[m] = g[m - 1] + s[m - 1].len
      BY <3>1
    <3>8. \A n \in 1 .. m - 1 : g[n] = IF n = 1 THEN 0 ELSE g[n - 1] + s[n - 1].len
      BY <3>4, Zenon DEF Summed
    <3>9. ASSUME NEW n \in 1 .. m PROVE f[n] = IF n = 1 THEN 0 ELSE f[n - 1] + s[n - 1].len
      <4>1. CASE n = m
        <5>1. m - 1 \in 1 .. m - 1
          BY <3>1
        <5>2. f[m - 1] = g[m - 1]
          BY <5>1, <3>6
        <5> HIDE DEF f
        <5> QED
          BY <2>5, <3>7, <4>1, <5>2
      <4>2. CASE n # m
        <5>1. n \in 1 .. m - 1
          BY <3>1, <4>2
        <5>2. f[n] = g[n]
          BY <5>1, <3>6
        <5>3. CASE n = 1
          <6> HIDE DEF f
          <6> QED
            BY <5>1, <5>2, <5>3, <3>8
        <5>4. CASE n # 1
          <6>1. n - 1 \in 1 .. m - 1
            BY <3>1, <5>1, <5>4
          <6>2. f[n - 1] = g[n - 1]
            BY <6>1, <3>6
          <6> HIDE DEF f
          <6> QED
            BY <5>1, <5>2, <5>4, <6>2, <3>8
        <5> QED
          BY <5>3, <5>4
      <4> QED
        BY <4>1, <4>2
    <3>10. f = [n \in 1 .. m |-> IF n = 1 THEN 0 ELSE f[n - 1] + s[n - 1].len]
      <4>1. f = [n \in 1 .. m |-> f[n]]
        OBVIOUS
      <4> HIDE DEF f
      <4> QED
        BY <3>9, <4>1
    <3>11. Summed(s, m, f)
      <4> HIDE DEF f
      <4> QED
        BY <3>10 DEF Summed
    <3> HIDE DEF f
    <3>13. Good(m)
      BY <3>11
    <3> QED
      BY <2>3, <3>13
  <2> QED
    BY <2>4, <2>5
<1> QED
  BY <1>1, <1>2

\* A piece begins where the one before it ends.
LEMMA OffsetsStep ==
  ASSUME NEW s, Pieces(s)
  PROVE  /\ Offsets(s)[1] = 0
         /\ \A n \in 1 .. Len(s) + 1 : Offsets(s)[n] \in Nat
         /\ \A n \in 1 .. Len(s) : Offsets(s)[n + 1] = Offsets(s)[n] + s[n].len
<1>0. Len(s) \in Nat
  BY DEF Pieces
<1>1. Len(s) + 1 \in 1 .. Len(s) + 1
  BY <1>0
<1>2. \E f : Summed(s, Len(s) + 1, f)
  BY <1>1, OffsetsExist
<1>3. Summed(s, Len(s) + 1, Offsets(s))
  BY <1>2, Zenon DEF Summed, Offsets
<1> DEFINE at == Offsets(s)
<1>4. \A n \in 1 .. Len(s) + 1 : at[n] = IF n = 1 THEN 0 ELSE at[n - 1] + s[n - 1].len
  BY <1>3, Zenon DEF Summed
<1> HIDE DEF at
<1>5. at[1] = 0
  <2>1. 1 \in 1 .. Len(s) + 1
    BY <1>0
  <2> QED
    BY <1>4, <2>1, Zenon
<1>6. \A n \in 1 .. Len(s) : at[n + 1] = at[n] + s[n].len
  <2> TAKE n \in 1 .. Len(s)
  <2>1. n + 1 \in 1 .. Len(s) + 1 /\ n + 1 # 1 /\ (n + 1) - 1 = n
    BY <1>0
  <2> QED
    BY <1>4, <2>1
<1>7. \A n \in 1 .. Len(s) + 1 : at[n] \in Nat
  <2> DEFINE Bad == {n \in 1 .. Len(s) + 1 : at[n] \notin Nat}
  <2>1. CASE Bad = {}
    BY <2>1
  <2>2. CASE Bad # {}
    <3>1. Bad \subseteq Nat
      BY <1>0
    <3>2. PICK n \in Bad : \A x \in Bad : n <= x
      <4> HIDE DEF Bad
      <4> QED
        BY <2>2, <3>1, LeastNumber
    <3>3. n \in 1 .. Len(s) + 1 /\ at[n] \notin Nat
      BY <3>2
    <3>4. n # 1
      BY <1>5, <3>3
    <3>5. n - 1 \in 1 .. Len(s) /\ n - 1 \in 1 .. Len(s) + 1 /\ (n - 1) + 1 = n
      BY <1>0, <3>3, <3>4
    <3>6. at[n - 1] \in Nat
      BY <3>2, <3>5
    <3>7. s[n - 1].len \in Nat
      BY <3>5 DEF Pieces
    <3>8. at[(n - 1) + 1] = at[n - 1] + s[n - 1].len
      BY <1>6, <3>5
    <3>9. at[n] = at[n - 1] + s[n - 1].len
      BY <3>5, <3>8
    <3> QED
      BY <3>3, <3>6, <3>7, <3>9
  <2> QED
    BY <2>1, <2>2
<1> QED
  BY <1>5, <1>6, <1>7 DEF at

LEMMA LengthType ==
  ASSUME NEW s, Pieces(s)
  PROVE  Len(s) \in Nat /\ Length(s) \in Nat /\ Offsets(s)[Len(s) + 1] = Length(s)
<1>1. Len(s) \in Nat
  BY DEF Pieces
<1>2. Len(s) + 1 \in 1 .. Len(s) + 1
  BY <1>1
<1> QED
  BY <1>1, <1>2, OffsetsStep DEF Length
-----------------------------------------------------------------------------
(* Sequences of pieces *)

LEMMA PiecesOf ==
  ASSUME NEW m \in Nat, NEW f, f = [n \in 1 .. m |-> f[n]], \A n \in 1 .. m : f[n].len \in Nat
  PROVE  Pieces(f) /\ Len(f) = m /\ DOMAIN f = 1 .. m
<1>1. DOMAIN f = 1 .. m
  OBVIOUS
<1>2. \A n \in 1 .. m : f[n] \in Members(f)
  BY <1>1 DEF Members
<1>3. f \in Seq(Members(f))
  <2>1. f \in [1 .. m -> Members(f)]
    BY <1>2
  <2> QED
    BY <2>1
<1>4. Len(f) = m
  BY <1>1, <1>3
<1> QED
  BY <1>1, <1>3, <1>4 DEF Pieces

LEMMA NoPieces == Pieces(<<>>) /\ Len(<<>>) = 0 /\ Length(<<>>) = 0
<1>1. Pieces(<<>>) /\ Len(<<>>) = 0
  BY DEF Pieces
<1>2. Offsets(<<>>)[1] = 0
  BY <1>1, OffsetsStep
<1> QED
  BY <1>1, <1>2 DEF Length

LEMMA JoinPieces ==
  ASSUME NEW a, NEW b, Pieces(a), Pieces(b)
  PROVE  /\ Pieces(a \o b)
         /\ Len(a \o b) = Len(a) + Len(b) /\ DOMAIN (a \o b) = 1 .. Len(a) + Len(b)
         /\ \A n \in 1 .. Len(a) : (a \o b)[n] = a[n]
         /\ \A n \in 1 .. Len(b) : (a \o b)[Len(a) + n] = b[n]
<1> DEFINE S == Members(a) \cup Members(b)
           c == a \o b
<1>1. a \in Seq(S) /\ b \in Seq(S)
  <2>1. a \in Seq(Members(a)) /\ b \in Seq(Members(b)) /\ Members(a) \subseteq S /\ Members(b) \subseteq S
    BY DEF Pieces
  <2> HIDE DEF S
  <2> QED
    BY <2>1, SeqOfLarger
<1>2. Len(a) \in Nat /\ Len(b) \in Nat
  BY <1>1
<1> HIDE DEF S
<1>3. c \in Seq(S) /\ Len(c) = Len(a) + Len(b)
  BY <1>1
<1>4. \A n \in 1 .. Len(a) : c[n] = a[n]
  BY <1>1
<1>5. \A n \in 1 .. Len(b) : c[Len(a) + n] = b[n]
  <2> TAKE n \in 1 .. Len(b)
  <2>1. Len(a) + n \in 1 .. Len(a) + Len(b) /\ Len(a) + n > Len(a) /\ (Len(a) + n) - Len(a) = n
    BY <1>2
  <2> QED
    BY <1>1, <2>1
<1>6. DOMAIN c = 1 .. Len(a) + Len(b)
  BY <1>3
<1> HIDE DEF c
<1>7. \A n \in 1 .. Len(c) : c[n].len \in Nat
  <2> TAKE n \in 1 .. Len(c)
  <2>1. CASE n \in 1 .. Len(a)
    BY <1>4, <2>1 DEF Pieces
  <2>2. CASE n \notin 1 .. Len(a)
    <3>1. n - Len(a) \in 1 .. Len(b) /\ Len(a) + (n - Len(a)) = n
      BY <1>2, <1>3, <2>2
    <3>2. c[n] = b[n - Len(a)]
      BY <1>5, <3>1
    <3>3. b[n - Len(a)].len \in Nat
      BY <3>1 DEF Pieces
    <3> QED
      BY <3>2, <3>3
  <2> QED
    BY <2>1, <2>2
<1>8. c \in Seq(Members(c))
  <2>1. c \in [1 .. Len(c) -> Members(c)] /\ Len(c) \in Nat
    BY <1>2, <1>3, <1>6 DEF Members
  <2> QED
    BY <2>1
<1> QED
  BY <1>3, <1>4, <1>5, <1>6, <1>7, <1>8 DEF Pieces, c

LEMMA JoinOffsets ==
  ASSUME NEW a, NEW b, Pieces(a), Pieces(b)
  PROVE  /\ \A n \in 1 .. Len(a) + 1 : Offsets(a \o b)[n] = Offsets(a)[n]
         /\ \A n \in 1 .. Len(b) + 1 : Offsets(a \o b)[Len(a) + n] = Length(a) + Offsets(b)[n]
         /\ Length(a \o b) = Length(a) + Length(b)
<1>1. PICK c : c = a \o b
  OBVIOUS
<1>2. /\ Pieces(c) /\ Len(c) = Len(a) + Len(b)
      /\ \A n \in 1 .. Len(a) : c[n] = a[n]
      /\ \A n \in 1 .. Len(b) : c[Len(a) + n] = b[n]
  BY <1>1, JoinPieces
<1>3. Len(a) \in Nat /\ Len(b) \in Nat
  BY DEF Pieces
<1>4. PICK x, y, z : x = Offsets(a) /\ y = Offsets(b) /\ z = Offsets(c)
  OBVIOUS
<1>5. /\ x[1] = 0 /\ \A n \in 1 .. Len(a) + 1 : x[n] \in Nat
      /\ \A n \in 1 .. Len(a) : x[n + 1] = x[n] + a[n].len
  BY <1>4, OffsetsStep
<1>6. /\ y[1] = 0 /\ \A n \in 1 .. Len(b) + 1 : y[n] \in Nat
      /\ \A n \in 1 .. Len(b) : y[n + 1] = y[n] + b[n].len
  BY <1>4, OffsetsStep
<1>7. /\ z[1] = 0 /\ \A n \in 1 .. Len(c) + 1 : z[n] \in Nat
      /\ \A n \in 1 .. Len(c) : z[n + 1] = z[n] + c[n].len
  BY <1>2, <1>4, OffsetsStep
<1>8. \A n \in 1 .. Len(a) : a[n].len \in Nat
  BY DEF Pieces
<1>9. \A n \in 1 .. Len(b) : b[n].len \in Nat
  BY DEF Pieces
<1>10. \A n \in 1 .. Len(a) + 1 : z[n] = x[n]
  <2>1. \A n \in 1 .. Len(a) + 1 : z[n] \in Int /\ x[n] \in Int
    <3> TAKE n \in 1 .. Len(a) + 1
    <3>1. n \in 1 .. Len(c) + 1
      BY <1>2, <1>3
    <3> QED
      BY <1>5, <1>7, <3>1
  <2>2. \A n \in 1 .. Len(a) : z[n + 1] - z[n] = x[n + 1] - x[n]
    <3> TAKE n \in 1 .. Len(a)
    <3>1. n \in 1 .. Len(c) /\ n \in 1 .. Len(a) + 1 /\ n \in 1 .. Len(c) + 1
      BY <1>2, <1>3
    <3>2. z[n + 1] = z[n] + a[n].len
      BY <1>2, <1>7, <3>1
    <3>3. x[n + 1] = x[n] + a[n].len
      BY <1>5
    <3>4. z[n] \in Nat /\ x[n] \in Nat /\ a[n].len \in Nat
      BY <1>5, <1>7, <1>8, <3>1
    <3> QED
      BY <3>2, <3>3, <3>4
  <2>3. \A n \in 1 .. Len(a) + 1 : z[n] - z[1] = x[n] - x[1]
    <3>1. PICK m \in Nat : m = Len(a)
      BY <1>3
    <3>2. /\ \A n \in 1 .. m + 1 : z[n] \in Int /\ x[n] \in Int
          /\ \A n \in 1 .. m : z[n + 1] - z[n] = x[n + 1] - x[n]
      BY <2>1, <2>2, <3>1, Zenon
    <3>3. \A n \in 1 .. m + 1 : z[n] - z[1] = x[n] - x[1]
      BY <3>2, SameGrowth, ZenonT(60)
    <3> QED
      BY <3>1, <3>3, Zenon
  <2> QED
    BY <1>5, <1>7, <2>1, <2>3
<1>11. Len(a) + 1 \in 1 .. Len(a) + 1 /\ x[Len(a) + 1] = Length(a)
  BY <1>3, <1>4 DEF Length
<1>12. z[Len(a) + 1] = Length(a) /\ Length(a) \in Nat
  BY <1>10, <1>11, LengthType
<1>13. PICK w : w = [n \in 1 .. Len(b) + 1 |-> z[Len(a) + n]]
  OBVIOUS
<1>14. \A n \in 1 .. Len(b) + 1 : w[n] = z[Len(a) + n]
  BY <1>13
<1>15. \A n \in 1 .. Len(b) + 1 : w[n] = Length(a) + y[n]
  <2>1. \A n \in 1 .. Len(b) + 1 : w[n] \in Nat /\ y[n] \in Nat
    <3> TAKE n \in 1 .. Len(b) + 1
    <3>1. Len(a) + n \in 1 .. Len(c) + 1
      BY <1>2, <1>3
    <3> QED
      BY <1>6, <1>7, <1>14, <3>1
  <2>2. \A n \in 1 .. Len(b) : w[n + 1] - w[n] = y[n + 1] - y[n]
    <3> TAKE n \in 1 .. Len(b)
    <3>1. /\ Len(a) + n \in 1 .. Len(c) /\ (Len(a) + n) + 1 = Len(a) + (n + 1)
          /\ n \in 1 .. Len(b) + 1 /\ n + 1 \in 1 .. Len(b) + 1
      BY <1>2, <1>3
    <3>2. z[(Len(a) + n) + 1] = z[Len(a) + n] + c[Len(a) + n].len
      BY <1>7, <3>1
    <3>3. w[n + 1] = w[n] + b[n].len
      BY <1>2, <1>14, <3>1, <3>2
    <3>4. y[n + 1] = y[n] + b[n].len
      BY <1>6
    <3>5. w[n] \in Nat /\ y[n] \in Nat /\ b[n].len \in Nat
      BY <1>9, <2>1, <3>1
    <3> QED
      BY <3>3, <3>4, <3>5
  <2>3. \A n \in 1 .. Len(b) + 1 : w[n] - w[1] = y[n] - y[1]
    <3>1. \A n \in 1 .. Len(b) + 1 : w[n] \in Int /\ y[n] \in Int
      BY <2>1
    <3> QED
      BY <1>3, <2>2, <3>1, SameGrowth, ZenonT(60)
  <2>4. 1 \in 1 .. Len(b) + 1
    BY <1>3
  <2>5. w[1] = Length(a)
    BY <1>12, <1>14, <2>4
  <2> QED
    BY <1>6, <1>12, <2>1, <2>3, <2>5
<1>16. Length(c) = Length(a) + Length(b)
  <2>1. Len(b) + 1 \in 1 .. Len(b) + 1 /\ Len(a) + (Len(b) + 1) = Len(c) + 1
    BY <1>2, <1>3
  <2>2. z[Len(c) + 1] = Length(a) + y[Len(b) + 1]
    BY <1>14, <1>15, <2>1
  <2> QED
    BY <1>4, <2>2 DEF Length
<1> QED
  BY <1>1, <1>4, <1>10, <1>14, <1>15, <1>16

LEMMA OnePiece ==
  ASSUME NEW p, p.len \in Nat
  PROVE  Pieces(<<p>>) /\ Len(<<p>>) = 1 /\ <<p>>[1] = p /\ Length(<<p>>) = p.len
<1>1. PICK s : s = <<p>>
  OBVIOUS
<1>2. s = [n \in 1 .. 1 |-> s[n]] /\ s[1] = p
  BY <1>1
<1>3. Pieces(s) /\ Len(s) = 1
  <2>1. \A n \in 1 .. 1 : s[n].len \in Nat
    BY <1>2
  <2> QED
    BY <1>2, <2>1, PiecesOf
<1>4. 1 \in 1 .. Len(s)
  BY <1>3
<1>5. Offsets(s)[1] = 0 /\ Offsets(s)[1 + 1] = Offsets(s)[1] + s[1].len
  BY <1>3, <1>4, OffsetsStep
<1>6. Length(s) = p.len
  BY <1>2, <1>3, <1>5 DEF Length
<1> QED
  BY <1>1, <1>2, <1>3, <1>6

\* Entries have twelve bytes.
LEMMA Twelves ==
  ASSUME NEW s, Pieces(s), \A n \in 1 .. Len(s) : s[n].len = 12
  PROVE  /\ Length(s) = 12 * Len(s)
         /\ \A n \in 1 .. Len(s) + 1 : Offsets(s)[n] = 12 * (n - 1)
<1>1. Len(s) \in Nat
  BY DEF Pieces
<1>2. PICK x, y : x = Offsets(s) /\ y = [n \in 1 .. Len(s) + 1 |-> 12 * (n - 1)]
  OBVIOUS
<1>3. /\ x[1] = 0 /\ \A n \in 1 .. Len(s) + 1 : x[n] \in Nat
      /\ \A n \in 1 .. Len(s) : x[n + 1] = x[n] + s[n].len
  BY <1>2, OffsetsStep
<1>4. \A n \in 1 .. Len(s) + 1 : x[n] \in Int /\ y[n] = 12 * (n - 1) /\ y[n] \in Int
  BY <1>1, <1>2, <1>3
<1>5. \A n \in 1 .. Len(s) : x[n + 1] - x[n] = y[n + 1] - y[n]
  <2> TAKE n \in 1 .. Len(s)
  <2>1. n \in 1 .. Len(s) + 1 /\ n + 1 \in 1 .. Len(s) + 1
    BY <1>1
  <2>2. x[n + 1] = x[n] + 12 /\ x[n] \in Nat
    BY <1>3, <2>1
  <2>3. y[n] = 12 * (n - 1) /\ y[n + 1] = 12 * ((n + 1) - 1)
    BY <1>4, <2>1
  <2> QED
    BY <2>2, <2>3
<1>6. \A n \in 1 .. Len(s) + 1 : x[n] - x[1] = y[n] - y[1]
  <2>1. \A n \in 1 .. Len(s) + 1 : x[n] \in Int /\ y[n] \in Int
    BY <1>4
  <2> QED
    BY <1>1, <1>5, <2>1, SameGrowth, ZenonT(60)
<1>7. \A n \in 1 .. Len(s) + 1 : x[n] = 12 * (n - 1)
  <2>1. 1 \in 1 .. Len(s) + 1
    BY <1>1
  <2>2. y[1] = 12 * (1 - 1)
    BY <1>4, <2>1
  <2> TAKE n \in 1 .. Len(s) + 1
  <2>3. x[n] - x[1] = y[n] - y[1] /\ y[n] = 12 * (n - 1) /\ x[n] \in Int
    BY <1>4, <1>6
  <2> QED
    BY <1>3, <2>2, <2>3
<1>8. Len(s) + 1 \in 1 .. Len(s) + 1
  BY <1>1
<1>9. Length(s) = 12 * ((Len(s) + 1) - 1)
  BY <1>2, <1>7, <1>8 DEF Length
<1> QED
  BY <1>1, <1>2, <1>7, <1>9

-----------------------------------------------------------------------------
(* Where a piece is, and what a reader finds *)

LiesAt(s, o, p) == \E n \in 1 .. Len(s) : s[n] = p /\ Offsets(s)[n] = o

LEMMA AtLeft ==
  ASSUME NEW a, NEW b, Pieces(a), Pieces(b), NEW o, NEW p, LiesAt(a, o, p)
  PROVE  LiesAt(a \o b, o, p)
<1>1. PICK n \in 1 .. Len(a) : a[n] = p /\ Offsets(a)[n] = o
  BY DEF LiesAt
<1>2. Len(a) \in Nat /\ Len(b) \in Nat
  BY DEF Pieces
<1>3. n \in 1 .. Len(a \o b) /\ n \in 1 .. Len(a) + 1
  BY <1>2, JoinPieces
<1>4. (a \o b)[n] = p
  BY <1>1, JoinPieces
<1>5. Offsets(a \o b)[n] = o
  BY <1>1, <1>3, JoinOffsets
<1> QED
  BY <1>3, <1>4, <1>5 DEF LiesAt

LEMMA AtRight ==
  ASSUME NEW a, NEW b, Pieces(a), Pieces(b), NEW o, NEW p, LiesAt(b, o, p)
  PROVE  LiesAt(a \o b, Length(a) + o, p)
<1>1. PICK n \in 1 .. Len(b) : b[n] = p /\ Offsets(b)[n] = o
  BY DEF LiesAt
<1>2. Len(a) \in Nat /\ Len(b) \in Nat
  BY DEF Pieces
<1>3. Len(a) + n \in 1 .. Len(a \o b) /\ n \in 1 .. Len(b) + 1
  BY <1>2, JoinPieces
<1>4. (a \o b)[Len(a) + n] = p
  BY <1>1, JoinPieces
<1>5. Offsets(a \o b)[Len(a) + n] = Length(a) + o
  BY <1>1, <1>3, JoinOffsets
<1> QED
  BY <1>3, <1>4, <1>5 DEF LiesAt

\* What lies behind begins where a piece ends, or later.
LEMMA AheadOf ==
  ASSUME NEW s, Pieces(s), NEW n \in 1 .. Len(s), NEW m \in 1 .. Len(s), n < m
  PROVE  Offsets(s)[n] + s[n].len <= Offsets(s)[m]
<1> DEFINE Bad == {k \in n + 1 .. Len(s) : ~(Offsets(s)[n] + s[n].len <= Offsets(s)[k])}
<1>0. Len(s) \in Nat
  BY DEF Pieces
<1>1. CASE Bad = {}
  BY <1>0, <1>1
<1>2. CASE Bad # {}
  <2>1. Bad \subseteq Nat
    BY <1>0
  <2>2. PICK k \in Bad : \A x \in Bad : k <= x
    <3> HIDE DEF Bad
    <3> QED
      BY <1>2, <2>1, LeastNumber
  <2>3. k \in n + 1 .. Len(s) /\ ~(Offsets(s)[n] + s[n].len <= Offsets(s)[k])
    BY <2>2
  <2>4. PICK x : x = Offsets(s)
    OBVIOUS
  <2>5. /\ \A i \in 1 .. Len(s) + 1 : x[i] \in Nat
        /\ \A i \in 1 .. Len(s) : x[i + 1] = x[i] + s[i].len
        /\ \A i \in 1 .. Len(s) : s[i].len \in Nat
    BY <2>4, OffsetsStep DEF Pieces
  <2>6. x[n + 1] = x[n] + s[n].len /\ x[n] \in Nat /\ s[n].len \in Nat
    <3>1. n \in 1 .. Len(s) + 1
      BY <1>0
    <3> QED
      BY <2>5, <3>1
  <2>7. k # n + 1
    BY <2>3, <2>4, <2>6
  <2>8. k - 1 \in 1 .. Len(s) /\ k - 1 \in n + 1 .. Len(s) /\ (k - 1) + 1 = k /\ k - 1 \in 1 .. Len(s) + 1 /\ ~(k <= k - 1)
    BY <1>0, <2>3, <2>7
  <2>9. k - 1 \notin Bad
    BY <2>2, <2>8
  <2>10. x[n] + s[n].len <= x[k - 1]
    BY <2>4, <2>8, <2>9
  <2>11. x[(k - 1) + 1] = x[k - 1] + s[k - 1].len /\ x[k - 1] \in Nat /\ s[k - 1].len \in Nat
    BY <2>5, <2>8
  <2>12. x[n] + s[n].len <= x[k]
    BY <2>6, <2>8, <2>10, <2>11
  <2> QED
    BY <2>3, <2>4, <2>12
<1> QED
  BY <1>1, <1>2

Solid(s) == Pieces(s) /\ \A n \in 1 .. Len(s) : s[n].len > 0

\* No two pieces of a file begin at the same place.
LEMMA SliceFinds ==
  ASSUME NEW s, Solid(s), NEW o, NEW p, LiesAt(s, o, p)
  PROVE  Slice(File(s), o, p.len) = p.what /\ Found(File(s), o, p.len) # {}
<1>0. Len(s) \in Nat /\ DOMAIN s = 1 .. Len(s)
  BY DEF Solid, Pieces
<1>1. PICK n \in 1 .. Len(s) : s[n] = p /\ Offsets(s)[n] = o
  BY DEF LiesAt
<1>2. PICK x : x = Offsets(s)
  OBVIOUS
<1>3. File(s) = {[at |-> x[k], len |-> s[k].len, what |-> s[k].what] : k \in 1 .. Len(s)}
  BY <1>0, <1>2 DEF File
<1>4. PICK found : found = Found(File(s), o, p.len) /\ found = {q \in File(s) : q.at = o /\ q.len = p.len}
  BY Zenon DEF Found
<1>5. PICK piece : piece = [at |-> o, len |-> p.len, what |-> p.what]
  OBVIOUS
<1>6. piece \in found
  BY <1>1, <1>2, <1>3, <1>4, <1>5
<1>7. ASSUME NEW q \in found PROVE q = piece
  <2>1. PICK k \in 1 .. Len(s) : q = [at |-> x[k], len |-> s[k].len, what |-> s[k].what]
    BY <1>3, <1>4
  <2>2. x[k] = x[n]
    BY <1>1, <1>2, <1>4, <2>1
  <2>3. ASSUME NEW i \in 1 .. Len(s), NEW j \in 1 .. Len(s), i < j PROVE x[i] # x[j]
    <3>1. x[i] + s[i].len <= x[j]
      BY <1>2, <2>3, AheadOf DEF Solid
    <3>2. s[i].len \in Nat /\ s[i].len > 0
      BY DEF Solid, Pieces
    <3>3. x[i] \in Nat /\ x[j] \in Nat
      <4>1. i \in 1 .. Len(s) + 1 /\ j \in 1 .. Len(s) + 1
        BY <1>0
      <4> QED
        BY <1>2, <4>1, OffsetsStep DEF Solid
    <3> QED
      BY <3>1, <3>2, <3>3
  <2>4. k = n
    <3>1. k < n \/ n < k \/ k = n
      BY <1>0
    <3> QED
      BY <2>2, <2>3, <3>1
  <2> QED
    BY <1>1, <1>2, <1>5, <2>1, <2>4
<1>8. found # {} /\ (CHOOSE q \in found : TRUE) = piece
  BY <1>6, <1>7
<1>9. Slice(File(s), o, p.len) = (CHOOSE q \in found : TRUE).what
  BY <1>4, <1>8 DEF Slice
<1>10. piece.what = p.what
  BY <1>5
<1> QED
  BY <1>4, <1>8, <1>9, <1>10

-----------------------------------------------------------------------------
(* Tags in their order *)

LEMMA AscendingTags ==
  ASSUME NEW K, IsFiniteSet(K), K \subseteq Nat, NEW s, s = Ascending(K)
  PROVE  /\ Cardinality(K) \in Nat /\ DOMAIN s = 1 .. Cardinality(K)
         /\ s = [n \in 1 .. Cardinality(K) |-> s[n]]
         /\ \A n \in 1 .. Cardinality(K) : s[n] \in K /\ Rank(K, s[n]) = n
         /\ \A k \in K : Rank(K, k) \in 1 .. Cardinality(K) /\ s[Rank(K, k)] = k
<1>1. Cardinality(K) \in Nat
  BY FS_CardinalityType
<1>2. s = [n \in 1 .. Cardinality(K) |-> CHOOSE k \in K : Rank(K, k) = n]
  BY Zenon DEF Ascending, Rank
<1>3. /\ \A k \in K : Rank(K, k) \in 1 .. Cardinality(K)
      /\ \A j, k \in K : j < k => Rank(K, j) < Rank(K, k)
      /\ \A n \in 1 .. Cardinality(K) : \E k \in K : Rank(K, k) = n
  BY RanksTaken
<1>4. ASSUME NEW n \in 1 .. Cardinality(K) PROVE s[n] \in K /\ Rank(K, s[n]) = n
  <2>1. s[n] = CHOOSE k \in K : Rank(K, k) = n
    BY <1>2
  <2>2. \E k \in K : Rank(K, k) = n
    BY <1>3
  <2> QED
    BY <2>1, <2>2, Zenon
<1>5. ASSUME NEW j \in K, NEW k \in K, Rank(K, j) = Rank(K, k) PROVE j = k
  <2>1. j < k \/ k < j \/ j = k
    OBVIOUS
  <2>2. Rank(K, j) < Rank(K, k) \/ Rank(K, k) < Rank(K, j) \/ j = k
    BY <1>3, <2>1
  <2>3. Rank(K, j) \in Nat /\ Rank(K, k) \in Nat
    BY <1>3
  <2> QED
    BY <1>5, <2>2, <2>3
<1>6. \A k \in K : s[Rank(K, k)] = k
  <2> TAKE k \in K
  <2>1. Rank(K, k) \in 1 .. Cardinality(K)
    BY <1>3
  <2> QED
    BY <1>4, <1>5, <2>1
<1>7. DOMAIN s = 1 .. Cardinality(K) /\ s = [n \in 1 .. Cardinality(K) |-> s[n]]
  BY <1>2
<1> QED
  BY <1>1, <1>3, <1>4, <1>6, <1>7

-----------------------------------------------------------------------------
(* Values *)

\* What dump writes well: it throws nothing for an IFD of this form, whose entries all
\* have their twelve bytes.
Plain(ifd) ==
  /\ IsFiniteSet(DOMAIN ifd) /\ DOMAIN ifd \subseteq Nat
  /\ \A t \in DOMAIN ifd \ Pointers : /\ Fits(TagType[t], ifd[t]) /\ ifd[t].kind = Kind(TagType[t])
                                    /\ ifd[t].wide = FALSE /\ ~NoValue(TagType[t], ifd[t])

TwoNumbers(type) == type \in {"Rational", "SRational"}

LEMMA SizeType ==
  ASSUME NEW type, NEW v, Fits(type, v)
  PROVE  Size(type, v) \in Nat /\ (~InEntry(type, v) => Size(type, v) > 0)
<1>1. /\ type \in {"Byte", "Ascii", "Undefined", "Short", "Long", "Rational", "SRational"} /\ v.n \in Nat
      /\ TwoNumbers(type) => v.n # 0
  BY DEF Fits, Unit, Kind, TwoNumbers
<1>2. PICK c : c = Count(type, v)
  OBVIOUS
<1>3. c \in Nat /\ (TwoNumbers(type) => c > 0)
  BY <1>1, <1>2 DEF Count, TwoNumbers
<1>4. Unit[type] \in Nat /\ Unit[type] \in {1, 2, 4, 8} /\ (TwoNumbers(type) => Unit[type] = 8)
  BY <1>1 DEF Unit, TwoNumbers
<1>5. Size(type, v) = Unit[type] * c
  BY <1>2 DEF Size
<1>6. Size(type, v) \in Nat
  BY <1>3, <1>4, <1>5
<1>7. CASE TwoNumbers(type)
  <2>1. Size(type, v) = 8 * c
    BY <1>4, <1>5, <1>7
  <2> QED
    BY <1>3, <1>6, <1>7, <2>1
<1>8. CASE ~TwoNumbers(type)
  <2>1. Kind(type) # "pairs"
    BY <1>1, <1>8 DEF Kind, TwoNumbers
  <2> QED
    BY <1>6, <2>1 DEF InEntry
<1> QED
  BY <1>6, <1>7, <1>8

ValuePiece(ifd, t) == Piece(Size(TagType[t], ifd[t]), ifd[t].data)

LEMMA OutsideTags ==
  ASSUME NEW ifd, Plain(ifd)
  PROVE  /\ IsFiniteSet(Outside(ifd)) /\ Outside(ifd) \subseteq Nat /\ Outside(ifd) \subseteq DOMAIN ifd \ Pointers
         /\ IsFiniteSet(DOMAIN ifd \ Pointers) /\ DOMAIN ifd \ Pointers \subseteq Nat
<1>1. Outside(ifd) \in SUBSET DOMAIN ifd /\ Outside(ifd) \subseteq DOMAIN ifd \ Pointers
  BY DEF Outside
<1>2. DOMAIN ifd \ Pointers \in SUBSET DOMAIN ifd
  OBVIOUS
<1>3. IsFiniteSet(Outside(ifd)) /\ IsFiniteSet(DOMAIN ifd \ Pointers)
  BY <1>1, <1>2, FS_Subset DEF Plain
<1> QED
  BY <1>1, <1>2, <1>3 DEF Plain

LEMMA ValuesWritten ==
  ASSUME NEW ifd, Plain(ifd)
  PROVE  /\ Solid(Values(ifd))
         /\ \A t \in Outside(ifd) :
              LiesAt(Values(ifd), Offsets(Values(ifd))[Rank(Outside(ifd), t)], ValuePiece(ifd, t))
<1>1. PICK K, tags, vals, m :
         K = Outside(ifd) /\ tags = Ascending(K) /\ vals = Values(ifd) /\ m = Cardinality(K)
  OBVIOUS
<1>2. IsFiniteSet(K) /\ K \subseteq Nat /\ K \subseteq DOMAIN ifd \ Pointers
  BY <1>1, OutsideTags
<1>3. /\ m \in Nat /\ DOMAIN tags = 1 .. m
      /\ \A n \in 1 .. m : tags[n] \in K
      /\ \A t \in K : Rank(K, t) \in 1 .. m /\ tags[Rank(K, t)] = t
  BY <1>1, <1>2, AscendingTags
<1>4. vals = [k \in 1 .. m |-> ValuePiece(ifd, tags[k])]
  BY <1>1, <1>3, Zenon DEF Values, ValuePiece
<1>5. \A n \in 1 .. m : vals[n] = ValuePiece(ifd, tags[n])
  BY <1>4
<1>6. ASSUME NEW n \in 1 .. m PROVE vals[n].len \in Nat /\ vals[n].len > 0
  <2>1. tags[n] \in K
    BY <1>3
  <2>2. Fits(TagType[tags[n]], ifd[tags[n]]) /\ ~InEntry(TagType[tags[n]], ifd[tags[n]])
    BY <1>1, <1>2, <2>1 DEF Plain, Outside
  <2>3. vals[n].len = Size(TagType[tags[n]], ifd[tags[n]])
    <3>1. vals[n] = ValuePiece(ifd, tags[n])
      BY <1>5
    <3>2. ValuePiece(ifd, tags[n]).len = Size(TagType[tags[n]], ifd[tags[n]])
      BY DEF ValuePiece, Piece
    <3> QED
      BY <3>1, <3>2
  <2> QED
    BY <2>2, <2>3, SizeType
<1>7. Pieces(vals) /\ Len(vals) = m
  <2>1. vals = [n \in 1 .. m |-> vals[n]]
    BY <1>4
  <2>2. \A n \in 1 .. m : vals[n].len \in Nat
    BY <1>6
  <2> QED
    BY <1>3, <2>1, <2>2, PiecesOf
<1>8. Solid(vals)
  BY <1>6, <1>7 DEF Solid
<1>9. ASSUME NEW t \in K PROVE LiesAt(vals, Offsets(vals)[Rank(K, t)], ValuePiece(ifd, t))
  <2>1. Rank(K, t) \in 1 .. Len(vals) /\ vals[Rank(K, t)] = ValuePiece(ifd, t)
    BY <1>3, <1>5, <1>7
  <2> QED
    BY <2>1 DEF LiesAt
<1> QED
  BY <1>1, <1>8, <1>9

-----------------------------------------------------------------------------
(* Entries *)

EntryPieces(ifd, start) ==
  [n \in 1 .. Cardinality(DOMAIN ifd \ Pointers) |-> EntryOf(ifd, Ascending(DOMAIN ifd \ Pointers)[n], start)]

LEMMA TwelveEach ==
  ASSUME NEW m \in Nat, NEW f, f = [n \in 1 .. m |-> f[n]], \A n \in 1 .. m : f[n].len = 12
  PROVE  /\ Solid(f) /\ Len(f) = m /\ Length(f) = 12 * m
         /\ \A n \in 1 .. m : LiesAt(f, 12 * (n - 1), f[n])
<1>1. Pieces(f) /\ Len(f) = m
  <2>1. \A n \in 1 .. m : f[n].len \in Nat
    OBVIOUS
  <2> QED
    BY <2>1, PiecesOf
<1>2. Solid(f)
  BY <1>1 DEF Solid
<1>3. Length(f) = 12 * m /\ \A n \in 1 .. m + 1 : Offsets(f)[n] = 12 * (n - 1)
  BY <1>1, Twelves
<1>4. ASSUME NEW n \in 1 .. m PROVE LiesAt(f, 12 * (n - 1), f[n])
  <2>1. n \in 1 .. m + 1
    OBVIOUS
  <2>2. Offsets(f)[n] = 12 * (n - 1)
    BY <1>3, <2>1
  <2> QED
    BY <1>1, <2>2 DEF LiesAt
<1> QED
  BY <1>1, <1>2, <1>3, <1>4

LEMMA JoinSolid ==
  ASSUME NEW a, NEW b, Solid(a), Solid(b)
  PROVE  Solid(a \o b)
<1>1. PICK c : c = a \o b
  OBVIOUS
<1>2. Pieces(c) /\ Len(c) = Len(a) + Len(b) /\ Len(a) \in Nat /\ Len(b) \in Nat
  <2>1. Pieces(a) /\ Pieces(b)
    BY DEF Solid
  <2>2. Len(a) \in Nat /\ Len(b) \in Nat
    BY <2>1, LengthType
  <2> QED
    BY <1>1, <2>1, <2>2, JoinPieces
<1>3. /\ \A n \in 1 .. Len(a) : c[n] = a[n]
      /\ \A n \in 1 .. Len(b) : c[Len(a) + n] = b[n]
  BY <1>1, JoinPieces DEF Solid
<1>4. ASSUME NEW n \in 1 .. Len(c) PROVE c[n].len > 0
  <2>1. CASE n \in 1 .. Len(a)
    BY <1>3, <2>1 DEF Solid
  <2>2. CASE n \notin 1 .. Len(a)
    <3>1. n - Len(a) \in 1 .. Len(b) /\ Len(a) + (n - Len(a)) = n
      BY <1>2, <2>2
    <3>2. c[n] = b[n - Len(a)]
      BY <1>3, <3>1
    <3> QED
      BY <3>1, <3>2 DEF Solid
  <2> QED
    BY <2>1, <2>2
<1> QED
  BY <1>1, <1>2, <1>4 DEF Solid

LEMMA Twelve ==
  ASSUME NEW ifd, Plain(ifd), NEW t \in DOMAIN ifd \ Pointers, NEW start
  PROVE  EntryOf(ifd, t, start).len = 12
<1>1. ~NoValue(TagType[t], ifd[t])
  BY DEF Plain
<1> QED
  BY <1>1 DEF EntryOf, Piece

LEMMA EntriesWritten ==
  ASSUME NEW ifd, Plain(ifd), NEW c \in Nat, NEW start, NEW E,
         E = <<Piece(2, c)>> \o EntryPieces(ifd, start)
  PROVE  /\ Solid(E) /\ Length(E) = 2 + 12 * Cardinality(DOMAIN ifd \ Pointers)
         /\ LiesAt(E, 0, Piece(2, c))
         /\ \A n \in 1 .. Cardinality(DOMAIN ifd \ Pointers) :
              LiesAt(E, 2 + 12 * (n - 1), EntryPieces(ifd, start)[n])
<1>1. PICK m, f, h : m = Cardinality(DOMAIN ifd \ Pointers) /\ f = EntryPieces(ifd, start) /\ h = <<Piece(2, c)>>
  OBVIOUS
<1>2. m \in Nat
  BY <1>1, OutsideTags, FS_CardinalityType
<1>3. f = [n \in 1 .. m |-> f[n]] /\ \A n \in 1 .. m : f[n].len = 12
  <2>1. f = [n \in 1 .. m |-> EntryOf(ifd, Ascending(DOMAIN ifd \ Pointers)[n], start)]
    BY <1>1, Zenon DEF EntryPieces
  <2>2. ASSUME NEW n \in 1 .. m PROVE f[n].len = 12
    <3>1. Ascending(DOMAIN ifd \ Pointers)[n] \in DOMAIN ifd \ Pointers
      BY <1>1, OutsideTags, AscendingTags
    <3>2. f[n] = EntryOf(ifd, Ascending(DOMAIN ifd \ Pointers)[n], start)
      BY <2>1
    <3> QED
      BY <3>1, <3>2, Twelve
  <2> QED
    BY <2>1, <2>2
<1>4. /\ Solid(f) /\ Length(f) = 12 * m
      /\ \A n \in 1 .. m : LiesAt(f, 12 * (n - 1), f[n])
  BY <1>2, <1>3, TwelveEach
<1>5. Piece(2, c).len = 2
  BY DEF Piece
<1>6. Pieces(h) /\ Len(h) = 1 /\ h[1] = Piece(2, c) /\ Length(h) = 2
  BY <1>1, <1>5, OnePiece
<1>7. Solid(h)
  BY <1>5, <1>6 DEF Solid
<1>8. LiesAt(h, 0, Piece(2, c))
  <2>1. Offsets(h)[1] = 0
    BY <1>6, OffsetsStep
  <2> QED
    BY <1>6, <2>1 DEF LiesAt
<1>9. Pieces(f)
  BY <1>4 DEF Solid
<1>10. Solid(E) /\ Length(E) = 2 + 12 * m
  BY <1>1, <1>4, <1>6, <1>7, <1>9, JoinSolid, JoinOffsets
<1>11. LiesAt(E, 0, Piece(2, c))
  BY <1>1, <1>6, <1>8, <1>9, AtLeft
<1>12. ASSUME NEW n \in 1 .. m PROVE LiesAt(E, 2 + 12 * (n - 1), f[n])
  BY <1>1, <1>4, <1>6, <1>9, AtRight
<1> QED
  BY <1>1, <1>10, <1>11, <1>12

PointerPieces(tags, to) == [k \in 1 .. Len(tags) |-> Pointer(tags[k], to[k])]

LEMMA AppendedWritten ==
  ASSUME NEW tags, Len(tags) \in Nat, NEW to, NEW next, NEW name, NEW A,
         A = PointerPieces(tags, to) \o (IF NextIfd(name) > 0 THEN <<Piece(4, next)>> ELSE <<>>)
  PROVE  /\ Solid(A) /\ Length(A) = 12 * Len(tags) + NextIfd(name)
         /\ \A k \in 1 .. Len(tags) : LiesAt(A, 12 * (k - 1), PointerPieces(tags, to)[k])
         /\ NextIfd(name) > 0 => LiesAt(A, 12 * Len(tags), Piece(4, next))
<1>1. PICK f, h : f = PointerPieces(tags, to) /\ h = (IF NextIfd(name) > 0 THEN <<Piece(4, next)>> ELSE <<>>)
  OBVIOUS
<1>2. NextIfd(name) \in {0, 4}
  BY DEF NextIfd
<1>3. f = [n \in 1 .. Len(tags) |-> f[n]] /\ \A n \in 1 .. Len(tags) : f[n].len = 12
  BY <1>1 DEF PointerPieces, Pointer, Piece
<1>4. /\ Solid(f) /\ Length(f) = 12 * Len(tags)
      /\ \A n \in 1 .. Len(tags) : LiesAt(f, 12 * (n - 1), f[n])
  BY <1>3, TwelveEach
<1>5. Piece(4, next).len = 4
  BY DEF Piece
<1>6. Solid(h) /\ Length(h) = NextIfd(name) /\ (NextIfd(name) > 0 => LiesAt(h, 0, Piece(4, next)))
  <2>1. CASE NextIfd(name) > 0
    <3>1. h = <<Piece(4, next)>> /\ NextIfd(name) = 4
      BY <1>1, <1>2, <2>1
    <3>2. Pieces(h) /\ Len(h) = 1 /\ h[1] = Piece(4, next) /\ Length(h) = 4
      BY <1>5, <3>1, OnePiece
    <3>3. Offsets(h)[1] = 0
      BY <3>2, OffsetsStep
    <3>4. Solid(h)
      BY <1>5, <3>2 DEF Solid
    <3>5. LiesAt(h, 0, Piece(4, next))
      BY <3>2, <3>3 DEF LiesAt
    <3> QED
      BY <3>1, <3>2, <3>4, <3>5
  <2>2. CASE ~(NextIfd(name) > 0)
    <3>1. h = <<>> /\ NextIfd(name) = 0
      BY <1>1, <1>2, <2>2
    <3>2. Pieces(h) /\ Len(h) = 0 /\ Length(h) = 0
      BY <3>1, NoPieces
    <3>3. Solid(h)
      BY <3>2 DEF Solid
    <3> QED
      BY <2>2, <3>1, <3>2, <3>3
  <2> QED
    BY <2>1, <2>2
<1>7. Pieces(f) /\ Pieces(h)
  BY <1>4, <1>6 DEF Solid
<1>8. A = f \o h
  BY <1>1
<1>9. Solid(A) /\ Length(A) = 12 * Len(tags) + NextIfd(name)
  <2>1. Solid(A)
    BY <1>4, <1>6, <1>8, JoinSolid
  <2>2. Length(A) = Length(f) + Length(h)
    BY <1>7, <1>8, JoinOffsets
  <2> QED
    BY <1>4, <1>6, <2>1, <2>2
<1>10. ASSUME NEW k \in 1 .. Len(tags) PROVE LiesAt(A, 12 * (k - 1), f[k])
  BY <1>4, <1>7, <1>8, AtLeft
<1>11. ASSUME NextIfd(name) > 0 PROVE LiesAt(A, 12 * Len(tags), Piece(4, next))
  <2>1. LiesAt(A, Length(f) + 0, Piece(4, next))
    BY <1>6, <1>7, <1>8, <1>11, AtRight
  <2>2. Length(f) + 0 = 12 * Len(tags)
    BY <1>4
  <2> QED
    BY <2>1, <2>2
<1> QED
  BY <1>1, <1>9, <1>10, <1>11

-----------------------------------------------------------------------------
(* A directory: entries, pointers, values *)

\* All pieces of b are in s, o bytes further on.
Holds(s, o, b) == \A x, p : LiesAt(b, x, p) => LiesAt(s, o + x, p)

LEMMA HoldsBoth ==
  ASSUME NEW a, NEW b, Solid(a), Solid(b)
  PROVE  /\ Solid(a \o b) /\ Length(a \o b) = Length(a) + Length(b)
         /\ Holds(a \o b, Length(a), b)
         /\ \A o, c : Holds(a, o, c) => Holds(a \o b, o, c)
<1>1. Pieces(a) /\ Pieces(b)
  BY DEF Solid
<1>2. Solid(a \o b) /\ Length(a \o b) = Length(a) + Length(b)
  BY <1>1, JoinSolid, JoinOffsets
<1>3. Holds(a \o b, Length(a), b)
  BY <1>1, AtRight, Zenon DEF Holds
<1>4. ASSUME NEW o, NEW c, Holds(a, o, c) PROVE Holds(a \o b, o, c)
  BY <1>1, <1>4, AtLeft, Zenon DEF Holds
<1> QED
  BY <1>2, <1>3, <1>4

DirectoryPieces(ifd, start, tags, to, name, next) ==
  (<<Piece(2, Cardinality(DOMAIN ifd))>> \o EntryPieces(ifd, start))
    \o (PointerPieces(tags, to) \o (IF NextIfd(name) > 0 THEN <<Piece(4, next)>> ELSE <<>>))
    \o Values(ifd)

IsWritten(B, ifd, start, tags, to, name, next) ==
  Plain(ifd) /\ Len(tags) \in Nat /\ B = DirectoryPieces(ifd, start, tags, to, name, next)

LEMMA DirectoryWritten ==
  ASSUME NEW ifd, NEW start, NEW tags, NEW to, NEW name, NEW next, NEW B,
         IsWritten(B, ifd, start, tags, to, name, next), NEW m, m = Cardinality(DOMAIN ifd \ Pointers)
  PROVE  /\ m \in Nat /\ Solid(B)
         /\ Length(B) = 2 + 12 * m + (12 * Len(tags) + NextIfd(name)) + Length(Values(ifd))
         /\ LiesAt(B, 0, Piece(2, Cardinality(DOMAIN ifd)))
         /\ \A n \in 1 .. m : LiesAt(B, 2 + 12 * (n - 1), EntryPieces(ifd, start)[n])
         /\ \A k \in 1 .. Len(tags) : LiesAt(B, 2 + 12 * m + 12 * (k - 1), PointerPieces(tags, to)[k])
         /\ NextIfd(name) > 0 => LiesAt(B, 2 + 12 * m + 12 * Len(tags), Piece(4, next))
         /\ \A t \in Outside(ifd) :
              LiesAt(B, 2 + 12 * m + (12 * Len(tags) + NextIfd(name)) + Offsets(Values(ifd))[Rank(Outside(ifd), t)],
                 ValuePiece(ifd, t))
<1>1. PICK E, A, V : /\ E = <<Piece(2, Cardinality(DOMAIN ifd))>> \o EntryPieces(ifd, start)
                     /\ A = PointerPieces(tags, to) \o (IF NextIfd(name) > 0 THEN <<Piece(4, next)>> ELSE <<>>)
                     /\ V = Values(ifd)
  OBVIOUS
<1>2. B = (E \o A) \o V /\ Plain(ifd) /\ Len(tags) \in Nat
  BY <1>1 DEF DirectoryPieces, IsWritten
<1>3. Cardinality(DOMAIN ifd) \in Nat /\ m \in Nat
  BY <1>2, OutsideTags, FS_CardinalityType DEF Plain
<1>4. /\ Solid(E) /\ Length(E) = 2 + 12 * m
      /\ LiesAt(E, 0, Piece(2, Cardinality(DOMAIN ifd)))
      /\ \A n \in 1 .. m : LiesAt(E, 2 + 12 * (n - 1), EntryPieces(ifd, start)[n])
  BY <1>1, <1>2, <1>3, EntriesWritten
<1>5. /\ Solid(A) /\ Length(A) = 12 * Len(tags) + NextIfd(name)
      /\ \A k \in 1 .. Len(tags) : LiesAt(A, 12 * (k - 1), PointerPieces(tags, to)[k])
      /\ NextIfd(name) > 0 => LiesAt(A, 12 * Len(tags), Piece(4, next))
  BY <1>1, <1>2, AppendedWritten, ZenonT(60)
<1>6. /\ Solid(V)
      /\ \A t \in Outside(ifd) : LiesAt(V, Offsets(V)[Rank(Outside(ifd), t)], ValuePiece(ifd, t))
  BY <1>1, <1>2, ValuesWritten
<1>7. Pieces(E) /\ Pieces(A) /\ Pieces(V)
  BY <1>4, <1>5, <1>6 DEF Solid
<1>8. PICK C : C = E \o A
  OBVIOUS
<1>9. Solid(C) /\ Pieces(C) /\ Length(C) = 2 + 12 * m + (12 * Len(tags) + NextIfd(name))
  <2>1. Solid(C)
    BY <1>4, <1>5, <1>8, JoinSolid
  <2>2. Length(C) = Length(E) + Length(A)
    BY <1>7, <1>8, JoinOffsets
  <2> QED
    BY <1>2, <1>4, <1>5, <2>1, <2>2 DEF Solid
<1>10. B = C \o V
  BY <1>2, <1>8
<1>11. Solid(B) /\ Length(B) = 2 + 12 * m + (12 * Len(tags) + NextIfd(name)) + Length(V)
  <2>1. Solid(B)
    BY <1>6, <1>9, <1>10, JoinSolid
  <2>2. Length(B) = Length(C) + Length(V)
    BY <1>7, <1>9, <1>10, JoinOffsets
  <2> QED
    BY <1>9, <2>1, <2>2
<1>12. ASSUME NEW o, NEW p, LiesAt(E, o, p) PROVE LiesAt(B, o, p)
  <2>1. LiesAt(C, o, p)
    BY <1>7, <1>8, <1>12, AtLeft
  <2> QED
    BY <1>7, <1>9, <1>10, <2>1, AtLeft
<1>13. ASSUME NEW o, NEW p, LiesAt(A, o, p) PROVE LiesAt(B, 2 + 12 * m + o, p)
  <2>1. LiesAt(C, Length(E) + o, p)
    BY <1>7, <1>8, <1>13, AtRight
  <2>2. LiesAt(B, Length(E) + o, p)
    BY <1>7, <1>9, <1>10, <2>1, AtLeft
  <2> QED
    BY <1>4, <2>2
<1>14. ASSUME NEW o, NEW p, LiesAt(V, o, p) PROVE LiesAt(B, 2 + 12 * m + (12 * Len(tags) + NextIfd(name)) + o, p)
  <2>1. LiesAt(B, Length(C) + o, p)
    BY <1>7, <1>9, <1>10, <1>14, AtRight
  <2> QED
    BY <1>9, <2>1
<1>15. LiesAt(B, 0, Piece(2, Cardinality(DOMAIN ifd)))
  BY <1>4, <1>12
<1>16. \A n \in 1 .. m : LiesAt(B, 2 + 12 * (n - 1), EntryPieces(ifd, start)[n])
  BY <1>4, <1>12
<1>17. \A k \in 1 .. Len(tags) : LiesAt(B, 2 + 12 * m + 12 * (k - 1), PointerPieces(tags, to)[k])
  BY <1>5, <1>13
<1>18. NextIfd(name) > 0 => LiesAt(B, 2 + 12 * m + 12 * Len(tags), Piece(4, next))
  BY <1>5, <1>13
<1>19. \A t \in Outside(ifd) :
         LiesAt(B, 2 + 12 * m + (12 * Len(tags) + NextIfd(name)) + Offsets(V)[Rank(Outside(ifd), t)], ValuePiece(ifd, t))
  BY <1>6, <1>14
<1> QED
  BY <1>1, <1>3, <1>11, <1>15, <1>16, <1>17, <1>18, <1>19

LEMMA DirectoryLength ==
  ASSUME NEW ifd, NEW start, NEW tags, NEW to, NEW name, NEW next, NEW B,
         IsWritten(B, ifd, start, tags, to, name, next)
  PROVE  Solid(B) /\ Length(B) = 2 + 12 * Cardinality(DOMAIN ifd \ Pointers) + (12 * Len(tags) + NextIfd(name))
                                   + Length(Values(ifd))
BY DirectoryWritten

-----------------------------------------------------------------------------
(* Reading a directory *)

LEMMA Converted ==
  ASSUME NEW ifd, Plain(ifd), NEW t \in DOMAIN ifd \ Pointers, NEW start, NEW tiff,
         t \in Outside(ifd) =>
           Slice(tiff, start + Offsets(Values(ifd))[Rank(Outside(ifd), t)], ValuePiece(ifd, t).len) = ifd[t].data
  PROVE  ConvertValue(tiff, EntryOf(ifd, t, start).what) = ifd[t]
<1>1. PICK type, v, e : type = TagType[t] /\ v = ifd[t] /\ e = EntryOf(ifd, t, start).what
  OBVIOUS
<1>2. Fits(type, v) /\ v.kind = Kind(type) /\ v.wide = FALSE
  BY <1>1 DEF Plain
<1>3. PICK place : place = start + Offsets(Values(ifd))[Rank(Outside(ifd), t)]
  OBVIOUS
<1>4. e = [tag |-> t, type |-> type, count |-> Count(type, v),
           value |-> IF t \in Outside(ifd) THEN place ELSE v.data]
  BY <1>1, <1>3, Zenon DEF EntryOf, Piece, Rank
<1>5. e.type = type /\ e.count = Count(type, v) /\ e.value = IF t \in Outside(ifd) THEN place ELSE v.data
  BY <1>4
<1>6. PICK w : w = [kind |-> Kind(type), n |-> e.count - (IF type = "Ascii" THEN 1 ELSE 0), data |-> Missing,
                   wide |-> FALSE]
  OBVIOUS
<1>7. w.n = v.n /\ w.kind = v.kind
  BY <1>2, <1>5, <1>6 DEF Count, Fits
<1>8. Size(type, w) = Size(type, v) /\ (InEntry(type, w) <=> InEntry(type, v))
  <2>1. Count(type, w) = Count(type, v)
    BY <1>7 DEF Count
  <2>2. Size(type, w) = Size(type, v)
    BY <2>1 DEF Size
  <2> QED
    BY <2>2 DEF InEntry
<1>9. t \in Outside(ifd) <=> ~InEntry(type, v)
  BY <1>1 DEF Outside
<1>10. ConvertValue(tiff, e) =
         [w EXCEPT !.data = IF InEntry(type, w) THEN e.value ELSE Slice(tiff, e.value, Size(type, w))]
  BY <1>5, <1>6, Zenon DEF ConvertValue
<1>11. (IF InEntry(type, w) THEN e.value ELSE Slice(tiff, e.value, Size(type, w))) = v.data
  <2>1. CASE InEntry(type, v)
    BY <1>5, <1>8, <1>9, <2>1
  <2>2. CASE ~InEntry(type, v)
    <3>1. e.value = place /\ t \in Outside(ifd)
      BY <1>5, <1>9, <2>2
    <3>2. ValuePiece(ifd, t).len = Size(type, v)
      BY <1>1 DEF ValuePiece, Piece
    <3>3. Slice(tiff, place, Size(type, v)) = v.data
      BY <1>1, <1>3, <3>1, <3>2
    <3> QED
      BY <1>8, <2>2, <3>1, <3>3
  <2> QED
    BY <2>1, <2>2
<1>12. ConvertValue(tiff, e) = [kind |-> v.kind, n |-> v.n, data |-> v.data, wide |-> v.wide]
  <2>1. ConvertValue(tiff, e) = [w EXCEPT !.data = v.data]
    BY <1>10, <1>11
  <2>2. w = [kind |-> v.kind, n |-> v.n, data |-> Missing, wide |-> v.wide]
    BY <1>2, <1>6, <1>7
  <2> QED
    BY <2>1, <2>2
<1> QED
  BY <1>1, <1>2, <1>12 DEF Fits

\* The pointers of an IFD, each once.
PointersOf(ifd, tags) ==
  /\ tags \in Seq(Pointers) /\ Distinct(tags) /\ Members(tags) = DOMAIN ifd \cap Pointers

LEMMA PointersCounted ==
  ASSUME NEW ifd, Plain(ifd), NEW tags, PointersOf(ifd, tags)
  PROVE  /\ Len(tags) \in Nat /\ Cardinality(DOMAIN ifd \ Pointers) \in Nat
         /\ Cardinality(DOMAIN ifd) = Cardinality(DOMAIN ifd \ Pointers) + Len(tags)
<1>1. PICK P, T : P = DOMAIN ifd \cap Pointers /\ T = DOMAIN ifd \ Pointers
  OBVIOUS
<1>2. Len(tags) \in Nat /\ DOMAIN tags = 1 .. Len(tags)
  BY DEF PointersOf
<1>3. tags \in Bijection(1 .. Len(tags), P)
  <2>1. tags \in [1 .. Len(tags) -> P]
    <3>1. \A n \in 1 .. Len(tags) : tags[n] \in P
      BY <1>1, <1>2 DEF PointersOf, Members
    <3>2. tags = [n \in 1 .. Len(tags) |-> tags[n]]
      BY DEF PointersOf
    <3> QED
      BY <3>1, <3>2
  <2>2. \A i, j \in 1 .. Len(tags) : tags[i] = tags[j] => i = j
    BY <1>2 DEF PointersOf, Distinct
  <2>3. \A t \in P : \E n \in 1 .. Len(tags) : tags[n] = t
    BY <1>1, <1>2 DEF PointersOf, Members
  <2> QED
    BY <2>1, <2>2, <2>3 DEF Bijection, Injection, Surjection, IsInjective
<1>4. ExistsBijection(1 .. Len(tags), P)
  BY <1>3 DEF ExistsBijection
<1>5. IsFiniteSet(1 .. Len(tags)) /\ Cardinality(1 .. Len(tags)) = Len(tags)
  BY <1>2, UpToSize
<1>6. IsFiniteSet(P) /\ Cardinality(P) = Len(tags)
  BY <1>4, <1>5, FS_Bijection
<1>7. IsFiniteSet(T) /\ Cardinality(T) \in Nat
  BY <1>1, OutsideTags, FS_CardinalityType
<1>8. P \cup T = DOMAIN ifd /\ P \cap T = {}
  BY <1>1
<1>9. Cardinality(P \cup T) = Cardinality(P) + Cardinality(T)
  <2>1. Cardinality(P \cup T) = Cardinality(P) + Cardinality(T) - Cardinality(P \cap T)
    BY <1>6, <1>7, FS_Union
  <2>2. Cardinality(P \cap T) = 0
    BY <1>8, FS_EmptySet
  <2> QED
    BY <1>2, <1>6, <1>7, <2>1, <2>2
<1> QED
  BY <1>1, <1>2, <1>6, <1>7, <1>8, <1>9

\* get_ifd finds what was written at the pointer, if the values are where the
\* entries say.
LEMMA IfdRead ==
  ASSUME NEW s, Solid(s), NEW ifd, Plain(ifd), NEW tags, PointersOf(ifd, tags), NEW to, NEW name, NEW next,
         NEW o \in Nat, NEW start,
         start = o + (2 + 12 * Cardinality(DOMAIN ifd) + NextIfd(name)),
         Holds(s, o, DirectoryPieces(ifd, start, tags, to, name, next)),
         NEW G, G = GetIfd(File(s), o)
  PROVE  /\ DOMAIN G = DOMAIN ifd
         /\ \A t \in DOMAIN ifd \ Pointers : G[t] = ifd[t]
         /\ \A k \in 1 .. Len(tags) : G[tags[k]] = to[k]
         /\ NextIfd(name) > 0 => /\ Slice(File(s), o + 2 + 12 * Cardinality(DOMAIN G), 4) = next
                                 /\ Found(File(s), o + 2 + 12 * Cardinality(DOMAIN G), 4) # {}
<1>1. PICK tiff, T, m, L, V :
         /\ tiff = File(s) /\ T = DOMAIN ifd \ Pointers /\ m = Cardinality(T) /\ L = Len(tags)
         /\ V = Offsets(Values(ifd))
  OBVIOUS
<1>2. m \in Nat /\ L \in Nat /\ Cardinality(DOMAIN ifd) = m + L /\ NextIfd(name) \in Nat
  BY <1>1, PointersCounted DEF NextIfd
<1>3. PICK B : B = DirectoryPieces(ifd, start, tags, to, name, next)
  OBVIOUS
<1>4. /\ LiesAt(B, 0, Piece(2, m + L))
      /\ \A n \in 1 .. m : LiesAt(B, 2 + 12 * (n - 1), EntryPieces(ifd, start)[n])
      /\ \A k \in 1 .. L : LiesAt(B, 2 + 12 * m + 12 * (k - 1), PointerPieces(tags, to)[k])
      /\ NextIfd(name) > 0 => LiesAt(B, 2 + 12 * m + 12 * L, Piece(4, next))
      /\ \A t \in Outside(ifd) :
           LiesAt(B, 2 + 12 * m + (12 * L + NextIfd(name)) + V[Rank(Outside(ifd), t)], ValuePiece(ifd, t))
  <2>1. IsWritten(B, ifd, start, tags, to, name, next)
    BY <1>1, <1>2, <1>3 DEF IsWritten
  <2> QED
    BY <1>1, <1>2, <2>1, DirectoryWritten, ZenonT(60)
<1>5. \A x, p : LiesAt(B, x, p) => LiesAt(s, o + x, p)
  BY <1>3 DEF Holds
<1>6. ASSUME NEW x, NEW p, LiesAt(B, x, p)
      PROVE  Slice(tiff, o + x, p.len) = p.what /\ Found(tiff, o + x, p.len) # {}
  BY <1>1, <1>5, <1>6, SliceFinds
<1>7. Slice(tiff, o, 2) = m + L
  <2>1. Piece(2, m + L).len = 2 /\ Piece(2, m + L).what = m + L /\ o + 0 = o
    BY DEF Piece
  <2> QED
    BY <1>4, <1>6, <2>1
<1> DEFINE ERec(t) == EntryOf(ifd, t, start).what
           PRec(k) == Pointer(tags[k], to[k]).what
<1>8. PICK asc : asc = Ascending(T)
  OBVIOUS
<1>9. /\ \A n \in 1 .. m : asc[n] \in T
      /\ \A t \in T : Rank(T, t) \in 1 .. m /\ asc[Rank(T, t)] = t
  <2>1. IsFiniteSet(T) /\ T \subseteq Nat
    BY <1>1, OutsideTags
  <2> QED
    BY <1>1, <1>8, <2>1, AscendingTags
<1>10. ASSUME NEW n \in 1 .. m
       PROVE  /\ Slice(tiff, o + 2 + 12 * (n - 1), 12) = ERec(asc[n])
              /\ Found(tiff, o + 2 + 12 * (n - 1), 12) # {}
  <2>1. EntryPieces(ifd, start)[n] = EntryOf(ifd, asc[n], start)
    BY <1>1, <1>8, Zenon DEF EntryPieces
  <2>2. EntryOf(ifd, asc[n], start).len = 12
    <3>1. asc[n] \in DOMAIN ifd \ Pointers
      BY <1>1, <1>9
    <3>2. PICK t : t = asc[n]
      OBVIOUS
    <3>3. EntryOf(ifd, t, start).len = 12
      BY <3>1, <3>2, Twelve
    <3> QED
      BY <3>2, <3>3
  <2>3. Slice(tiff, o + (2 + 12 * (n - 1)), 12) = ERec(asc[n]) /\ Found(tiff, o + (2 + 12 * (n - 1)), 12) # {}
    BY <1>4, <1>6, <2>1, <2>2
  <2>4. o + (2 + 12 * (n - 1)) = o + 2 + 12 * (n - 1)
    OBVIOUS
  <2> QED
    BY <2>3, <2>4
<1>11. ASSUME NEW k \in 1 .. L
       PROVE  /\ Slice(tiff, o + 2 + 12 * (m + k - 1), 12) = PRec(k)
              /\ Found(tiff, o + 2 + 12 * (m + k - 1), 12) # {}
  <2>1. PointerPieces(tags, to)[k] = Pointer(tags[k], to[k])
    BY <1>1, Zenon DEF PointerPieces
  <2>2. Pointer(tags[k], to[k]).len = 12
    BY DEF Pointer, Piece
  <2>3. /\ Slice(tiff, o + (2 + 12 * m + 12 * (k - 1)), 12) = PRec(k)
        /\ Found(tiff, o + (2 + 12 * m + 12 * (k - 1)), 12) # {}
    BY <1>4, <1>6, <2>1, <2>2
  <2>4. o + (2 + 12 * m + 12 * (k - 1)) = o + 2 + 12 * (m + k - 1)
    BY <1>2
  <2> QED
    BY <2>3, <2>4
<1>12. ASSUME NEW t \in T
       PROVE  ERec(t).tag = t /\ ConvertValue(tiff, ERec(t)) = ifd[t]
  <2>1. ERec(t).tag = t
    BY DEF EntryOf, Piece
  <2>2. ASSUME t \in Outside(ifd)
        PROVE  Slice(tiff, start + V[Rank(Outside(ifd), t)], ValuePiece(ifd, t).len) = ifd[t].data
    <3>1. PICK v : v = V[Rank(Outside(ifd), t)]
      OBVIOUS
    <3>2. v \in Nat
      <4>1. IsFiniteSet(Outside(ifd)) /\ Outside(ifd) \subseteq Nat
        BY OutsideTags
      <4>2. Rank(Outside(ifd), t) \in 1 .. Cardinality(Outside(ifd))
        BY <2>2, <4>1, RanksTaken
      <4>3. Pieces(Values(ifd))
        BY ValuesWritten DEF Solid
      <4>4. LiesAt(Values(ifd), v, ValuePiece(ifd, t))
        BY <1>1, <2>2, <3>1, ValuesWritten
      <4>5. PICK j \in 1 .. Len(Values(ifd)) : Offsets(Values(ifd))[j] = v
        BY <4>4 DEF LiesAt
      <4>6. j \in 1 .. Len(Values(ifd)) + 1
        BY <4>3, LengthType
      <4> QED
        BY <4>3, <4>5, <4>6, OffsetsStep
    <3>3. o + (2 + 12 * m + (12 * L + NextIfd(name)) + v) = start + v
      BY <1>2, <3>2
    <3>4. Slice(tiff, o + (2 + 12 * m + (12 * L + NextIfd(name)) + v), ValuePiece(ifd, t).len) = ValuePiece(ifd, t).what
      BY <1>4, <1>6, <2>2, <3>1
    <3>5. ValuePiece(ifd, t).what = ifd[t].data
      BY DEF ValuePiece, Piece
    <3> QED
      BY <3>1, <3>3, <3>4, <3>5
  <2>3. t \in DOMAIN ifd \ Pointers
    BY <1>1
  <2>4. ConvertValue(tiff, EntryOf(ifd, t, start).what) = ifd[t]
    BY <1>1, <2>2, <2>3, Converted
  <2> QED
    BY <2>1, <2>4
<1>13. ASSUME NEW k \in 1 .. L PROVE PRec(k).tag = tags[k] /\ PRec(k).value = to[k] /\ tags[k] \in Pointers \cap DOMAIN ifd
  <2>1. PRec(k).tag = tags[k] /\ PRec(k).value = to[k]
    BY DEF Pointer, Piece
  <2>2. k \in DOMAIN tags
    BY <1>1 DEF PointersOf
  <2>3. tags[k] \in Members(tags)
    BY <2>2 DEF Members
  <2> QED
    BY <2>1, <2>3 DEF PointersOf
<1> HIDE DEF ERec, PRec
<1> DEFINE all == EntriesAt(tiff, o)
<1>14. G = [t \in {e.tag : e \in all} |-> IF t \in Pointers THEN (CHOOSE e \in all : e.tag = t).value
                                         ELSE ConvertValue(tiff, CHOOSE e \in all : e.tag = t)]
  <2>1. G = GetIfd(tiff, o)
    BY <1>1
  <2> QED
    BY <2>1, Zenon DEF GetIfd
<1>15. all = {Slice(tiff, o + 2 + 12 * x, 12) : x \in 0 .. m + L - 1}
  <2> DEFINE at(x) == o + 2 + 12 * x
  <2>1. all = {Slice(tiff, at(x), 12) : x \in {y \in 0 .. Slice(tiff, o, 2) - 1 : Found(tiff, at(y), 12) # {}}}
    BY Zenon DEF EntriesAt
  <2>2. 0 .. Slice(tiff, o, 2) - 1 = 0 .. m + L - 1
    <3>1. (m + L) - 1 = m + L - 1
      BY <1>2
    <3> QED
      BY <1>7, <3>1
  <2>3. ASSUME NEW y \in 0 .. m + L - 1 PROVE Found(tiff, at(y), 12) # {}
    <3>1. CASE y < m
      <4>1. y + 1 \in 1 .. m /\ (y + 1) - 1 = y
        BY <1>2, <3>1
      <4> QED
        BY <1>10, <4>1
    <3>2. CASE ~(y < m)
      <4>1. y - m + 1 \in 1 .. L /\ m + (y - m + 1) - 1 = y
        BY <1>2, <3>2
      <4> QED
        BY <1>11, <4>1
    <3> QED
      BY <3>1, <3>2
  <2>4. {y \in 0 .. Slice(tiff, o, 2) - 1 : Found(tiff, at(y), 12) # {}} = 0 .. m + L - 1
    <3> HIDE DEF at
    <3> QED
      BY <2>2, <2>3
  <2> QED
    BY <2>1, <2>4, Zenon
<1> HIDE DEF all
<1>16. ASSUME NEW e \in all PROVE (\E t \in T : e = ERec(t)) \/ (\E k \in 1 .. L : e = PRec(k))
  <2>1. PICK x \in 0 .. m + L - 1 : e = Slice(tiff, o + 2 + 12 * x, 12)
    BY <1>15
  <2>2. CASE x < m
    <3>1. x + 1 \in 1 .. m /\ (x + 1) - 1 = x
      BY <1>2, <2>2
    <3>2. e = ERec(asc[x + 1])
      BY <1>10, <2>1, <3>1
    <3> QED
      BY <1>9, <3>1, <3>2
  <2>3. CASE ~(x < m)
    <3>1. x - m + 1 \in 1 .. L /\ m + (x - m + 1) - 1 = x
      BY <1>2, <2>3
    <3>2. e = PRec(x - m + 1)
      BY <1>11, <2>1, <3>1
    <3> QED
      BY <3>1, <3>2
  <2> QED
    BY <2>2, <2>3
<1>17. ASSUME NEW t \in T PROVE ERec(t) \in all
  <2>1. PICK n \in 1 .. m : asc[n] = t
    BY <1>9
  <2>2. n - 1 \in 0 .. m + L - 1
    BY <1>2
  <2>3. Slice(tiff, o + 2 + 12 * (n - 1), 12) = ERec(t)
    BY <1>10, <2>1
  <2> QED
    BY <1>15, <2>2, <2>3
<1>18. ASSUME NEW k \in 1 .. L PROVE PRec(k) \in all
  <2>1. m + k - 1 \in 0 .. m + L - 1
    BY <1>2
  <2>2. Slice(tiff, o + 2 + 12 * (m + k - 1), 12) = PRec(k)
    BY <1>11
  <2> QED
    BY <1>15, <2>1, <2>2
<1>19. {e.tag : e \in all} = DOMAIN ifd
  <2>1. ASSUME NEW e \in all PROVE e.tag \in DOMAIN ifd
    BY <1>1, <1>12, <1>13, <1>16
  <2>2. ASSUME NEW t \in DOMAIN ifd PROVE \E e \in all : e.tag = t
    <3>1. CASE t \in Pointers
      <4>1. PICK k \in 1 .. L : tags[k] = t
        BY <1>1, <3>1 DEF PointersOf, Members
      <4> QED
        BY <1>13, <1>18, <4>1
    <3>2. CASE t \notin Pointers
      BY <1>1, <1>12, <1>17, <3>2
    <3> QED
      BY <3>1, <3>2
  <2> QED
    BY <2>1, <2>2
<1> DEFINE entry(t) == CHOOSE e \in all : e.tag = t
<1>20. ASSUME NEW t \in T PROVE entry(t) = ERec(t)
  <2>1. ASSUME NEW e \in all, e.tag = t PROVE e = ERec(t)
    <3>1. CASE \E k \in 1 .. L : e = PRec(k)
      BY <1>1, <1>13, <2>1, <3>1
    <3>2. CASE \E u \in T : e = ERec(u)
      BY <1>12, <2>1, <3>2
    <3> QED
      BY <1>16, <3>1, <3>2
  <2> QED
    BY <1>12, <1>17, <2>1
<1>21. ASSUME NEW k \in 1 .. L PROVE entry(tags[k]) = PRec(k)
  <2>1. ASSUME NEW e \in all, e.tag = tags[k] PROVE e = PRec(k)
    <3>1. CASE \E j \in 1 .. L : e = PRec(j)
      <4>1. PICK j \in 1 .. L : e = PRec(j)
        BY <3>1
      <4>2. tags[j] = tags[k]
        BY <1>13, <2>1, <4>1
      <4>3. j = k
        BY <1>1, <4>2 DEF PointersOf, Distinct
      <4> QED
        BY <4>1, <4>3
    <3>2. CASE \E u \in T : e = ERec(u)
      BY <1>1, <1>12, <1>13, <2>1, <3>2
    <3> QED
      BY <1>16, <3>1, <3>2
  <2> QED
    BY <1>13, <1>18, <2>1
<1>22. G = [t \in {e.tag : e \in all} |-> IF t \in Pointers THEN entry(t).value ELSE ConvertValue(tiff, entry(t))]
  BY <1>14, Zenon
<1> HIDE DEF entry
<1>23. DOMAIN G = DOMAIN ifd
  BY <1>19, <1>22
<1>24. \A t \in DOMAIN ifd : G[t] = IF t \in Pointers THEN entry(t).value ELSE ConvertValue(tiff, entry(t))
  BY <1>19, <1>22
<1>25. \A t \in DOMAIN ifd \ Pointers : G[t] = ifd[t]
  BY <1>1, <1>12, <1>20, <1>24
<1>26. \A k \in 1 .. L : G[tags[k]] = to[k]
  BY <1>13, <1>21, <1>24
<1>27. ASSUME NextIfd(name) > 0
       PROVE  /\ Slice(tiff, o + 2 + 12 * Cardinality(DOMAIN G), 4) = next
              /\ Found(tiff, o + 2 + 12 * Cardinality(DOMAIN G), 4) # {}
  <2>1. Piece(4, next).len = 4 /\ Piece(4, next).what = next
    BY DEF Piece
  <2>2. Slice(tiff, o + (2 + 12 * m + 12 * L), 4) = next /\ Found(tiff, o + (2 + 12 * m + 12 * L), 4) # {}
    BY <1>4, <1>6, <1>27, <2>1
  <2>3. o + (2 + 12 * m + 12 * L) = o + 2 + 12 * (m + L)
    BY <1>2
  <2> QED
    BY <1>2, <1>23, <2>2, <2>3
<1> QED
  BY <1>1, <1>23, <1>25, <1>26, <1>27

-----------------------------------------------------------------------------
(* The directories of a dictionary *)

LEMMA PointersFinite == IsFiniteSet(Pointers) /\ Pointers \subseteq Nat
<1>1. Pointers \in SUBSET Nat /\ \A t \in Pointers : t <= 50000
  BY DEF Pointers, ExifTag, GPSTag, InteroperabilityTag, Thumbnail, ThumbnailLength
<1> QED
  BY <1>1, FS_BoundedSetOfNaturals

LEMMA DirectoryPlain ==
  ASSUME NEW ifd, Plain(ifd), NEW tags \in Seq(Pointers), Distinct(tags), NEW name, NEW is, NEW dir,
         dir = Directory(name, is, ifd, tags)
  PROVE  /\ dir.name = name /\ dir.is = is /\ dir.pointers = tags
         /\ Plain(dir.ifd) /\ PointersOf(dir.ifd, tags)
         /\ DOMAIN dir.ifd = (DOMAIN ifd \ Pointers) \cup Members(tags)
         /\ \A t \in DOMAIN ifd \ Pointers : dir.ifd[t] = ifd[t]
<1>1. PICK M, T, new : /\ M = Members(tags) /\ T = DOMAIN ifd \ Pointers
                       /\ new = [t \in T \cup M |-> IF t \in M THEN Missing ELSE ifd[t]]
  OBVIOUS
<1>2. dir = [name |-> name, is |-> is, pointers |-> tags, ifd |-> new]
  BY <1>1, Zenon DEF Directory, Members
<1>3. dir.name = name /\ dir.is = is /\ dir.pointers = tags /\ dir.ifd = new
  BY <1>2
<1>4. M \subseteq Pointers
  BY <1>1 DEF Members
<1>5. DOMAIN new = T \cup M /\ \A t \in T : new[t] = ifd[t]
  BY <1>1, <1>4
<1>6. DOMAIN new \ Pointers = T /\ DOMAIN new \cap Pointers = M
  BY <1>1, <1>4, <1>5
<1>7. IsFiniteSet(DOMAIN new) /\ DOMAIN new \subseteq Nat
  <2>1. IsFiniteSet(T) /\ T \subseteq Nat
    BY <1>1, OutsideTags
  <2>2. IsFiniteSet(M) /\ M \subseteq Nat
    BY <1>4, PointersFinite, FS_Subset
  <2>3. IsFiniteSet(T \cup M)
    BY <2>1, <2>2, FS_Union
  <2> QED
    BY <1>5, <2>1, <2>2, <2>3
<1>8. Plain(new)
  BY <1>1, <1>5, <1>6, <1>7 DEF Plain
<1>9. PointersOf(new, tags)
  BY <1>1, <1>6 DEF PointersOf
<1> QED
  BY <1>1, <1>3, <1>5, <1>8, <1>9

\* A directory that can be written and read.
Writable(dir) ==
  Plain(dir.ifd) /\ PointersOf(dir.ifd, dir.pointers) /\ dir.is \in BOOLEAN

Targets(at, tags, thumbnail) == [k \in 1 .. Len(tags) |-> Target(at, tags[k], thumbnail)]

NextOf(dirs, at, n) == IF n = 1 /\ dirs[5].is THEN TiffHeaderLength + at[5] ELSE 0

StartOf(dir, offset) == TiffHeaderLength + offset + EntriesLength(dir.ifd, dir.name)

LEMMA DictPieces ==
  ASSUME NEW dir, Writable(dir), NEW offset
  PROVE  /\ DictToBytes(dir.ifd, dir.name, offset).entries =
               <<Piece(2, Cardinality(DOMAIN dir.ifd))>> \o EntryPieces(dir.ifd, StartOf(dir, offset))
         /\ DictToBytes(dir.ifd, dir.name, offset).values = Values(dir.ifd)
<1>1. PICK T : T = DOMAIN dir.ifd \ Pointers
  OBVIOUS
<1>2. IsFiniteSet(T) /\ T \subseteq Nat
  BY <1>1, OutsideTags DEF Writable
<1>3. DOMAIN Ascending(T) = 1 .. Cardinality(T)
  BY <1>2, AscendingTags
<1>4. [n \in DOMAIN Ascending(T) |-> EntryOf(dir.ifd, Ascending(T)[n], StartOf(dir, offset))] =
        EntryPieces(dir.ifd, StartOf(dir, offset))
  BY <1>1, <1>3, Zenon DEF EntryPieces
<1>5. PICK E, V : /\ E = <<Piece(2, Cardinality(DOMAIN dir.ifd))>> \o EntryPieces(dir.ifd, StartOf(dir, offset))
                  /\ V = Values(dir.ifd)
  OBVIOUS
<1>6. DictToBytes(dir.ifd, dir.name, offset) = [entries |-> E, values |-> V]
  BY <1>1, <1>4, <1>5, Zenon DEF DictToBytes, StartOf
<1> QED
  BY <1>5, <1>6

LEMMA BytesWritten ==
  ASSUME NEW dirs, NEW n \in 1 .. 5, Writable(dirs[n]), NEW at, NEW thumbnail,
         NEW b, b = Bytes(dirs, at, n, thumbnail)
  PROVE  /\ Solid(b) /\ Length(b) = DirLength(dirs[n]) /\ DirLength(dirs[n]) \in Nat
         /\ dirs[n].is =>
              b = DirectoryPieces(dirs[n].ifd, StartOf(dirs[n], at[n]), dirs[n].pointers,
                                  Targets(at, dirs[n].pointers, thumbnail), dirs[n].name, NextOf(dirs, at, n))
<1>1. PICK dir, tags, m : /\ dir = dirs[n] /\ tags = dir.pointers /\ m = Cardinality(DOMAIN dir.ifd \ Pointers)
  OBVIOUS
<1>2. Plain(dir.ifd) /\ PointersOf(dir.ifd, tags) /\ dir.is \in BOOLEAN /\ Writable(dir)
  BY <1>1 DEF Writable
<1>3. Len(tags) \in Nat /\ DOMAIN tags = 1 .. Len(tags) /\ m \in Nat /\ Cardinality(DOMAIN dir.ifd) \in Nat
  <2>1. Len(tags) \in Nat /\ m \in Nat /\ Cardinality(DOMAIN dir.ifd) = m + Len(tags)
    BY <1>1, <1>2, PointersCounted
  <2>2. DOMAIN tags = 1 .. Len(tags)
    BY <1>2 DEF PointersOf
  <2> QED
    BY <2>1, <2>2
<1>4. CASE ~dir.is
  <2>1. b = <<>> /\ DirLength(dir) = 0
    BY <1>1, <1>4, Zenon DEF Bytes, DirLength
  <2>2. Solid(<<>>)
    BY NoPieces DEF Solid
  <2> QED
    BY <1>1, <1>4, <2>1, <2>2, NoPieces
<1>5. CASE dir.is
  <2>1. PICK A : A = PointerPieces(tags, Targets(at, tags, thumbnail))
                       \o (IF NextIfd(dir.name) > 0 THEN <<Piece(4, NextOf(dirs, at, n))>> ELSE <<>>)
    OBVIOUS
  <2>2. Appended(dirs, at, n, thumbnail) = A
    <3>1. [k \in DOMAIN tags |-> Pointer(tags[k], Target(at, tags[k], thumbnail))] =
            PointerPieces(tags, Targets(at, tags, thumbnail))
      <4>1. \A k \in 1 .. Len(tags) : Targets(at, tags, thumbnail)[k] = Target(at, tags[k], thumbnail)
        BY DEF Targets
      <4> QED
        BY <1>3, <4>1, Zenon DEF PointerPieces
    <3> QED
      BY <1>1, <2>1, <3>1, Zenon DEF Appended, NextOf
  <2>3. PICK ifd, name : ifd = dir.ifd /\ name = dir.name
    OBVIOUS
  <2>4. PICK set : set = DictToBytes(dir.ifd, dir.name, at[n])
    OBVIOUS
  <2>5. b = (set.entries \o A) \o set.values
    BY <1>1, <1>5, <2>2, <2>4, Zenon DEF Bytes
  <2>6. /\ set.entries = <<Piece(2, Cardinality(DOMAIN dir.ifd))>> \o EntryPieces(dir.ifd, StartOf(dir, at[n]))
        /\ set.values = Values(dir.ifd)
    BY <1>2, <2>4, DictPieces, Zenon
  <2>7. b = DirectoryPieces(ifd, StartOf(dir, at[n]), tags, Targets(at, tags, thumbnail), name, NextOf(dirs, at, n))
    BY <2>1, <2>3, <2>5, <2>6, Zenon DEF DirectoryPieces
  <2>8. /\ Solid(b)
        /\ Length(b) = 2 + 12 * m + (12 * Len(tags) + NextIfd(name)) + Length(Values(ifd))
    <3>1. Plain(ifd) /\ m = Cardinality(DOMAIN ifd \ Pointers) /\ Len(tags) \in Nat
      BY <1>1, <1>2, <1>3, <2>3
    <3>2. PICK start, to, next :
            start = StartOf(dir, at[n]) /\ to = Targets(at, tags, thumbnail) /\ next = NextOf(dirs, at, n)
      OBVIOUS
    <3>3. IsWritten(b, ifd, start, tags, to, name, next)
      BY <2>7, <3>1, <3>2 DEF IsWritten
    <3> QED
      BY <3>1, <3>3, DirectoryLength
  <2>9. PICK zero : zero = DictToBytes(dir.ifd, dir.name, 0)
    OBVIOUS
  <2>10. DirLength(dir) = Length(zero.entries) + 12 * Len(tags) + NextIfd(dir.name) + Length(zero.values)
    BY <1>1, <1>5, <2>9, Zenon DEF DirLength
  <2>11. /\ zero.entries = <<Piece(2, Cardinality(DOMAIN dir.ifd))>> \o EntryPieces(dir.ifd, StartOf(dir, 0))
         /\ zero.values = Values(dir.ifd)
    BY <1>2, <2>9, DictPieces, Zenon
  <2>12. Length(zero.entries) = 2 + 12 * m
    <3>1. PICK E, c, start :
            E = zero.entries /\ c = Cardinality(DOMAIN ifd) /\ start = StartOf(dir, 0)
      OBVIOUS
    <3>2. E = <<Piece(2, c)>> \o EntryPieces(ifd, start)
      BY <2>3, <2>11, <3>1
    <3>3. Plain(ifd) /\ m = Cardinality(DOMAIN ifd \ Pointers) /\ c \in Nat
      BY <1>1, <1>2, <1>3, <2>3, <3>1
    <3>4. Length(E) = 2 + 12 * Cardinality(DOMAIN ifd \ Pointers)
      BY <3>2, <3>3, EntriesWritten
    <3> QED
      BY <3>1, <3>3, <3>4
  <2>13. Length(Values(dir.ifd)) \in Nat
    BY <1>2, ValuesWritten, LengthType DEF Solid
  <2>14. NextIfd(dir.name) \in Nat
    BY DEF NextIfd
  <2>15. DirLength(dir) = Length(b) /\ DirLength(dir) \in Nat
    BY <1>3, <2>3, <2>8, <2>10, <2>11, <2>12, <2>13, <2>14
  <2> QED
    BY <1>1, <2>3, <2>7, <2>8, <2>15
<1> QED
  BY <1>2, <1>4, <1>5

LEMMA BeginsStep ==
  ASSUME NEW dirs, DOMAIN dirs = 1 .. 5, \A n \in 1 .. 5 : DirLength(dirs[n]) \in Nat, NEW at, at = Begins(dirs)
  PROVE  /\ at[1] = 0 /\ \A n \in 1 .. 6 : at[n] \in Nat
         /\ \A n \in 1 .. 5 : at[n + 1] = at[n] + DirLength(dirs[n])
<1>1. PICK q : q = [n \in 1 .. 5 |-> Piece(DirLength(dirs[n]), dirs[n].name)]
  OBVIOUS
<1>2. q = [n \in 1 .. 5 |-> q[n]] /\ \A n \in 1 .. 5 : q[n].len = DirLength(dirs[n])
  BY <1>1 DEF Piece
<1>3. Pieces(q) /\ Len(q) = 5
  <2>1. \A n \in 1 .. 5 : q[n].len \in Nat
    BY <1>2
  <2> QED
    BY <1>2, <2>1, PiecesOf
<1>4. at = Offsets(q)
  BY <1>1, Zenon DEF Begins
<1>5. /\ at[1] = 0 /\ \A n \in 1 .. 5 + 1 : at[n] \in Nat
      /\ \A n \in 1 .. 5 : at[n + 1] = at[n] + q[n].len
  BY <1>3, <1>4, OffsetsStep
<1>6. 5 + 1 = 6
  OBVIOUS
<1> QED
  BY <1>2, <1>5, <1>6

-----------------------------------------------------------------------------
(* The file *)

IsJoined(w, h, b1, b2, b3, b4, b5, t) ==
  /\ Solid(h) /\ Solid(b1) /\ Solid(b2) /\ Solid(b3) /\ Solid(b4) /\ Solid(b5) /\ Solid(t)
  /\ w = h \o b1 \o b2 \o b3 \o b4 \o b5 \o t

LEMMA Joined ==
  ASSUME NEW h, NEW b1, NEW b2, NEW b3, NEW b4, NEW b5, NEW t, NEW w, IsJoined(w, h, b1, b2, b3, b4, b5, t)
  PROVE  /\ Solid(w)
         /\ \A x, p : LiesAt(h, x, p) => LiesAt(w, x, p)
         /\ Holds(w, Length(h), b1)
         /\ Holds(w, Length(h) + Length(b1), b2)
         /\ Holds(w, Length(h) + Length(b1) + Length(b2), b3)
         /\ Holds(w, Length(h) + Length(b1) + Length(b2) + Length(b3), b4)
         /\ Holds(w, Length(h) + Length(b1) + Length(b2) + Length(b3) + Length(b4), b5)
         /\ Holds(w, Length(h) + Length(b1) + Length(b2) + Length(b3) + Length(b4) + Length(b5), t)
<1>1. PICK w1, w2, w3, w4, w5 : /\ w1 = h \o b1 /\ w2 = w1 \o b2 /\ w3 = w2 \o b3 /\ w4 = w3 \o b4 /\ w5 = w4 \o b5
                                /\ w = w5 \o t
  BY DEF IsJoined
<1> USE DEF IsJoined
<1>2. /\ Solid(w1) /\ Length(w1) = Length(h) + Length(b1) /\ Holds(w1, Length(h), b1)
      /\ \A o, c : Holds(h, o, c) => Holds(w1, o, c)
  BY <1>1, HoldsBoth
<1>3. /\ Solid(w2) /\ Length(w2) = Length(w1) + Length(b2) /\ Holds(w2, Length(w1), b2)
      /\ \A o, c : Holds(w1, o, c) => Holds(w2, o, c)
  BY <1>1, <1>2, HoldsBoth
<1>4. /\ Solid(w3) /\ Length(w3) = Length(w2) + Length(b3) /\ Holds(w3, Length(w2), b3)
      /\ \A o, c : Holds(w2, o, c) => Holds(w3, o, c)
  BY <1>1, <1>3, HoldsBoth
<1>5. /\ Solid(w4) /\ Length(w4) = Length(w3) + Length(b4) /\ Holds(w4, Length(w3), b4)
      /\ \A o, c : Holds(w3, o, c) => Holds(w4, o, c)
  BY <1>1, <1>4, HoldsBoth
<1>6. /\ Solid(w5) /\ Length(w5) = Length(w4) + Length(b5) /\ Holds(w5, Length(w4), b5)
      /\ \A o, c : Holds(w4, o, c) => Holds(w5, o, c)
  BY <1>1, <1>5, HoldsBoth
<1>7. /\ Solid(w) /\ Holds(w, Length(w5), t)
      /\ \A o, c : Holds(w5, o, c) => Holds(w, o, c)
  BY <1>1, <1>6, HoldsBoth
<1>8. ASSUME NEW x, NEW p, LiesAt(h, x, p) PROVE LiesAt(w, x, p)
  <2>1. /\ Pieces(h) /\ Pieces(b1) /\ Pieces(b2) /\ Pieces(b3) /\ Pieces(b4) /\ Pieces(b5) /\ Pieces(t)
        /\ Pieces(w1) /\ Pieces(w2) /\ Pieces(w3) /\ Pieces(w4) /\ Pieces(w5)
    BY <1>2, <1>3, <1>4, <1>5, <1>6 DEF Solid
  <2>2. LiesAt(w1, x, p)
    BY <1>1, <1>8, <2>1, AtLeft
  <2>3. LiesAt(w2, x, p)
    BY <1>1, <2>1, <2>2, AtLeft
  <2>4. LiesAt(w3, x, p)
    BY <1>1, <2>1, <2>3, AtLeft
  <2>5. LiesAt(w4, x, p)
    BY <1>1, <2>1, <2>4, AtLeft
  <2>6. LiesAt(w5, x, p)
    BY <1>1, <2>1, <2>5, AtLeft
  <2> QED
    BY <1>1, <2>1, <2>6, AtLeft
<1>9. Holds(w, Length(h), b1)
  BY <1>2, <1>3, <1>4, <1>5, <1>6, <1>7, Zenon
<1>10. Holds(w, Length(w1), b2)
  BY <1>3, <1>4, <1>5, <1>6, <1>7, Zenon
<1>11. Holds(w, Length(w2), b3)
  BY <1>4, <1>5, <1>6, <1>7, Zenon
<1>12. Holds(w, Length(w3), b4)
  BY <1>5, <1>6, <1>7, Zenon
<1>13. Holds(w, Length(w4), b5)
  BY <1>6, <1>7, Zenon
<1> QED
  BY <1>2, <1>3, <1>4, <1>5, <1>6, <1>7, <1>8, <1>9, <1>10, <1>11, <1>12, <1>13, Zenon

Dumped(w, dirs, at, thumbnail) ==
  /\ DOMAIN dirs = 1 .. 5 /\ \A n \in 1 .. 5 : Writable(dirs[n])
  /\ dirs[5].is => thumbnail.len \in Nat /\ thumbnail.len > 0
  /\ at = Begins(dirs) /\ w = Written(dirs, at, thumbnail)

LEMMA FileWritten ==
  ASSUME NEW dirs, NEW at, NEW thumbnail, NEW w, Dumped(w, dirs, at, thumbnail)
  PROVE  /\ Solid(w) /\ at[1] = 0 /\ \A n \in 1 .. 6 : at[n] \in Nat
         /\ LiesAt(w, 0, Piece(8, 8))
         /\ \A n \in 1 .. 5 : Holds(w, 8 + at[n], Bytes(dirs, at, n, thumbnail))
         /\ dirs[5].is => LiesAt(w, 8 + at[6], thumbnail)
<1>1. PICK h, b1, b2, b3, b4, b5, t :
         /\ h = <<Piece(8, 8)>>
         /\ b1 = Bytes(dirs, at, 1, thumbnail) /\ b2 = Bytes(dirs, at, 2, thumbnail)
         /\ b3 = Bytes(dirs, at, 3, thumbnail) /\ b4 = Bytes(dirs, at, 4, thumbnail)
         /\ b5 = Bytes(dirs, at, 5, thumbnail)
         /\ t = (IF dirs[5].is THEN <<thumbnail>> ELSE <<>>)
  OBVIOUS
<1>2. w = h \o b1 \o b2 \o b3 \o b4 \o b5 \o t
  BY <1>1, Zenon DEF Written, TiffHeaderLength, Dumped
<1>3. \A n \in 1 .. 5 : /\ Solid(Bytes(dirs, at, n, thumbnail)) /\ DirLength(dirs[n]) \in Nat
                        /\ Length(Bytes(dirs, at, n, thumbnail)) = DirLength(dirs[n])
  BY BytesWritten DEF Dumped
<1>4. /\ Solid(b1) /\ Solid(b2) /\ Solid(b3) /\ Solid(b4) /\ Solid(b5)
      /\ Length(b1) = DirLength(dirs[1]) /\ Length(b2) = DirLength(dirs[2]) /\ Length(b3) = DirLength(dirs[3])
      /\ Length(b4) = DirLength(dirs[4]) /\ Length(b5) = DirLength(dirs[5])
  BY <1>1, <1>3
<1>5. /\ at[1] = 0 /\ \A n \in 1 .. 6 : at[n] \in Nat
      /\ \A n \in 1 .. 5 : at[n + 1] = at[n] + DirLength(dirs[n])
  BY <1>3, BeginsStep DEF Dumped
<1>6. /\ at[2] = at[1] + Length(b1) /\ at[3] = at[2] + Length(b2) /\ at[4] = at[3] + Length(b3)
      /\ at[5] = at[4] + Length(b4) /\ at[6] = at[5] + Length(b5)
  <2>1. at[1 + 1] = at[1] + DirLength(dirs[1]) /\ at[2 + 1] = at[2] + DirLength(dirs[2])
        /\ at[3 + 1] = at[3] + DirLength(dirs[3]) /\ at[4 + 1] = at[4] + DirLength(dirs[4])
        /\ at[5 + 1] = at[5] + DirLength(dirs[5])
    BY <1>5
  <2> QED
    BY <1>4, <2>1
<1>7. Piece(8, 8).len = 8
  BY DEF Piece
<1>8. Solid(h) /\ Length(h) = 8 /\ LiesAt(h, 0, Piece(8, 8))
  <2>1. Pieces(h) /\ Len(h) = 1 /\ h[1] = Piece(8, 8) /\ Length(h) = 8
    BY <1>1, <1>7, OnePiece
  <2>2. Offsets(h)[1] = 0
    BY <2>1, OffsetsStep
  <2>3. Solid(h)
    BY <1>7, <2>1 DEF Solid
  <2>4. LiesAt(h, 0, Piece(8, 8))
    BY <2>1, <2>2 DEF LiesAt
  <2> QED
    BY <2>1, <2>3, <2>4
<1>9. Solid(t) /\ (dirs[5].is => LiesAt(t, 0, thumbnail))
  <2>1. CASE dirs[5].is
    <3>1. t = <<thumbnail>>
      BY <1>1, <2>1
    <3>2. Pieces(t) /\ Len(t) = 1 /\ t[1] = thumbnail /\ thumbnail.len > 0
      BY <2>1, <3>1, OnePiece DEF Dumped
    <3>3. Offsets(t)[1] = 0
      BY <3>2, OffsetsStep
    <3>4. Solid(t)
      BY <2>1, <3>2 DEF Solid
    <3>5. LiesAt(t, 0, thumbnail)
      BY <3>2, <3>3 DEF LiesAt
    <3> QED
      BY <3>4, <3>5
  <2>2. CASE ~dirs[5].is
    <3>1. t = <<>>
      BY <1>1, <2>2
    <3>2. Solid(t)
      BY <3>1, NoPieces DEF Solid
    <3> QED
      BY <2>2, <3>2
  <2> QED
    BY <2>1, <2>2
<1>10. /\ Solid(w)
       /\ \A x, p : LiesAt(h, x, p) => LiesAt(w, x, p)
       /\ Holds(w, Length(h), b1)
       /\ Holds(w, Length(h) + Length(b1), b2)
       /\ Holds(w, Length(h) + Length(b1) + Length(b2), b3)
       /\ Holds(w, Length(h) + Length(b1) + Length(b2) + Length(b3), b4)
       /\ Holds(w, Length(h) + Length(b1) + Length(b2) + Length(b3) + Length(b4), b5)
       /\ Holds(w, Length(h) + Length(b1) + Length(b2) + Length(b3) + Length(b4) + Length(b5), t)
  <2>1. IsJoined(w, h, b1, b2, b3, b4, b5, t)
    BY <1>2, <1>4, <1>8, <1>9 DEF IsJoined
  <2> QED
    BY <2>1, Joined
<1>11. \A n \in 1 .. 5 : Length(Bytes(dirs, at, n, thumbnail)) \in Nat
  BY <1>3
<1>12. Length(b1) \in Nat /\ Length(b2) \in Nat /\ Length(b3) \in Nat /\ Length(b4) \in Nat /\ Length(b5) \in Nat
  BY <1>1, <1>11
<1>13. /\ Length(h) = 8 + at[1] /\ Length(h) + Length(b1) = 8 + at[2]
       /\ Length(h) + Length(b1) + Length(b2) = 8 + at[3]
       /\ Length(h) + Length(b1) + Length(b2) + Length(b3) = 8 + at[4]
       /\ Length(h) + Length(b1) + Length(b2) + Length(b3) + Length(b4) = 8 + at[5]
       /\ Length(h) + Length(b1) + Length(b2) + Length(b3) + Length(b4) + Length(b5) = 8 + at[6]
  BY <1>5, <1>6, <1>8, <1>12
<1>14. /\ Holds(w, 8 + at[1], b1) /\ Holds(w, 8 + at[2], b2) /\ Holds(w, 8 + at[3], b3)
       /\ Holds(w, 8 + at[4], b4) /\ Holds(w, 8 + at[5], b5) /\ Holds(w, 8 + at[6], t)
  BY <1>10, <1>13
<1>15. ASSUME NEW n \in 1 .. 5 PROVE Holds(w, 8 + at[n], Bytes(dirs, at, n, thumbnail))
  <2>1. n = 1 \/ n = 2 \/ n = 3 \/ n = 4 \/ n = 5
    OBVIOUS
  <2> QED
    BY <1>1, <1>14, <2>1
<1>16. ASSUME dirs[5].is PROVE LiesAt(w, 8 + at[6], thumbnail)
  <2>1. LiesAt(w, 8 + at[6] + 0, thumbnail)
    BY <1>9, <1>14, <1>16 DEF Holds
  <2>2. at[6] \in Nat
    BY <1>5
  <2>3. 8 + at[6] + 0 = 8 + at[6]
    BY <2>2
  <2> QED
    BY <2>1, <2>3
<1> QED
  BY <1>5, <1>8, <1>10, <1>15, <1>16

\* What load finds of a directory.
LEMMA DirectoryRead ==
  ASSUME NEW dirs, NEW at, NEW thumbnail, NEW w, Dumped(w, dirs, at, thumbnail), NEW n \in 1 .. 5, dirs[n].is,
         NEW G, G = GetIfd(File(w), 8 + at[n])
  PROVE  /\ DOMAIN G = DOMAIN dirs[n].ifd
         /\ \A t \in DOMAIN G \ Pointers : G[t] = dirs[n].ifd[t]
         /\ \A t \in DOMAIN G \cap Pointers : G[t] = Target(at, t, thumbnail)
         /\ NextIfd(dirs[n].name) > 0 =>
              /\ Slice(File(w), 8 + at[n] + 2 + 12 * Cardinality(DOMAIN G), 4) = NextOf(dirs, at, n)
              /\ Found(File(w), 8 + at[n] + 2 + 12 * Cardinality(DOMAIN G), 4) # {}
<1>1. PICK dir, ifd, tags, to, name, next, b, start, o :
         /\ dir = dirs[n] /\ ifd = dir.ifd /\ tags = dir.pointers /\ to = Targets(at, tags, thumbnail)
         /\ name = dir.name /\ next = NextOf(dirs, at, n) /\ b = Bytes(dirs, at, n, thumbnail)
         /\ start = StartOf(dir, at[n]) /\ o = 8 + at[n]
  OBVIOUS
<1>2. Solid(w) /\ at[n] \in Nat /\ Holds(w, o, b)
  <2>1. n \in 1 .. 6
    OBVIOUS
  <2> QED
    BY <1>1, <2>1, FileWritten
<1>3. Plain(ifd) /\ PointersOf(ifd, tags) /\ Writable(dirs[n])
  BY <1>1 DEF Writable, Dumped
<1>4. b = DirectoryPieces(ifd, start, tags, to, name, next)
  BY <1>1, <1>3, BytesWritten
<1>5. o \in Nat
  BY <1>1, <1>2
<1>6. start = o + (2 + 12 * Cardinality(DOMAIN ifd) + NextIfd(name))
  <2>1. start = 8 + at[n] + (2 + 12 * Cardinality(DOMAIN ifd) + NextIfd(name))
    BY <1>1, Zenon DEF StartOf, EntriesLength, TiffHeaderLength
  <2> QED
    BY <1>1, <2>1
<1>7. G = GetIfd(File(w), o)
  BY <1>1
<1>8. Holds(w, o, DirectoryPieces(ifd, start, tags, to, name, next))
  BY <1>2, <1>4
<1>9. /\ DOMAIN G = DOMAIN ifd
      /\ \A t \in DOMAIN ifd \ Pointers : G[t] = ifd[t]
      /\ \A k \in 1 .. Len(tags) : G[tags[k]] = to[k]
      /\ NextIfd(name) > 0 => /\ Slice(File(w), o + 2 + 12 * Cardinality(DOMAIN G), 4) = next
                              /\ Found(File(w), o + 2 + 12 * Cardinality(DOMAIN G), 4) # {}
  BY <1>2, <1>3, <1>5, <1>6, <1>7, <1>8, IfdRead
<1>10. ASSUME NEW t \in DOMAIN G \cap Pointers PROVE G[t] = Target(at, t, thumbnail)
  <2>1. t \in Members(tags) /\ DOMAIN tags = 1 .. Len(tags)
    BY <1>3, <1>9, <1>10 DEF PointersOf
  <2>2. PICK k \in 1 .. Len(tags) : tags[k] = t
    BY <2>1 DEF Members
  <2>3. to[k] = Target(at, tags[k], thumbnail)
    BY <1>1 DEF Targets
  <2> QED
    BY <1>9, <2>2, <2>3
<1> QED
  BY <1>1, <1>9, <1>10

-----------------------------------------------------------------------------
(* The dictionary *)

\* The directory says what the IFD says.
Carries(dir, ifd) ==
  /\ DOMAIN dir.ifd \ Pointers = DOMAIN ifd \ Pointers
  /\ \A t \in DOMAIN ifd \ Pointers : dir.ifd[t] = ifd[t]

LEMMA DictionaryPlain ==
  ASSUME NEW d, IsDictionary(d), ~ExifThrows(d), ~Shortened(d), NEW ifd \in Ifds
  PROVE  Plain(d[ifd])
<1>1. /\ IsFiniteSet(DOMAIN d[ifd]) /\ DOMAIN d[ifd] \subseteq Nat
      /\ \A t \in DOMAIN d[ifd] \ Pointers : Fits(TagType[t], d[ifd][t])
  BY DEF IsDictionary
<1>2. \A t \in DOMAIN d[ifd] \ Pointers :
        ~(Kind(TagType[t]) = "numbers" /\ d[ifd][t].kind = "string") /\ ~d[ifd][t].wide
  BY Zenon DEF ExifThrows
<1>3. ASSUME NEW t \in DOMAIN d[ifd] \ Pointers PROVE d[ifd][t].kind = Kind(TagType[t]) /\ d[ifd][t].wide = FALSE
  <2>1. d[ifd][t].kind = Kind(TagType[t])
    BY <1>1, <1>2, <1>3, Zenon DEF Fits
  <2>2. d[ifd][t].wide \in BOOLEAN /\ ~d[ifd][t].wide
    BY <1>1, <1>2, <1>3, Zenon DEF Fits
  <2> QED
    BY <2>1, <2>2
<1>4. \A t \in DOMAIN d[ifd] \ Pointers : ~NoValue(TagType[t], d[ifd][t])
  BY Zenon DEF Shortened
<1> QED
  BY <1>1, <1>3, <1>4 DEF Plain

IsDirectory(dir, name, is, ifd, tags) ==
  Plain(ifd) /\ tags \in Seq(Pointers) /\ Distinct(tags) /\ is \in BOOLEAN /\ dir = Directory(name, is, ifd, tags)

LEMMA OneDirectory ==
  ASSUME NEW ifd, NEW tags, NEW name, NEW is, NEW dir, IsDirectory(dir, name, is, ifd, tags)
  PROVE  /\ Writable(dir) /\ dir.is = is /\ dir.name = name /\ Carries(dir, ifd)
         /\ DOMAIN dir.ifd \cap Pointers = Members(tags)
<1>1. /\ dir.name = name /\ dir.is = is /\ dir.pointers = tags
      /\ Plain(dir.ifd) /\ PointersOf(dir.ifd, tags)
      /\ DOMAIN dir.ifd = (DOMAIN ifd \ Pointers) \cup Members(tags)
      /\ \A t \in DOMAIN ifd \ Pointers : dir.ifd[t] = ifd[t]
  BY DirectoryPlain DEF IsDirectory
<1>2. Members(tags) \subseteq Pointers /\ is \in BOOLEAN
  BY DEF Members, IsDirectory
<1> QED
  BY <1>1, <1>2 DEF Writable, Carries

LEMMA DirectoriesOf ==
  ASSUME NEW d, IsDictionary(d), ~ExifThrows(d), ~Shortened(d), NEW dirs, dirs = Directories(d)
  PROVE  /\ DOMAIN dirs = 1 .. 5 /\ \A n \in 1 .. 5 : Writable(dirs[n])
         /\ Carries(dirs[1], d.zeroth) /\ Carries(dirs[2], d.exif) /\ Carries(dirs[3], d.gps)
         /\ Carries(dirs[4], d.interop) /\ Carries(dirs[5], d.first)
         /\ dirs[1].is /\ dirs[1].name = "0th"
         /\ dirs[2].is <=> DOMAIN d.exif # {} \/ DOMAIN d.interop # {}
         /\ dirs[3].is <=> DOMAIN d.gps # {}
         /\ dirs[4].is <=> DOMAIN d.interop # {}
         /\ dirs[5].is <=> d.thumbnail # Missing
         /\ ExifTag \in DOMAIN dirs[1].ifd <=> dirs[2].is
         /\ GPSTag \in DOMAIN dirs[1].ifd <=> dirs[3].is
         /\ InteroperabilityTag \in DOMAIN dirs[2].ifd <=> dirs[4].is
         /\ Thumbnail \in DOMAIN dirs[5].ifd /\ ThumbnailLength \in DOMAIN dirs[5].ifd
<1>1. PICK interopIs, exifIs, gpsIs, thumbIs :
         /\ interopIs = (DOMAIN d.interop # {}) /\ exifIs = (DOMAIN d.exif # {} \/ interopIs)
         /\ gpsIs = (DOMAIN d.gps # {}) /\ thumbIs = (d.thumbnail # Missing)
  OBVIOUS
<1>2. interopIs \in BOOLEAN /\ exifIs \in BOOLEAN /\ gpsIs \in BOOLEAN /\ thumbIs \in BOOLEAN
  BY <1>1
<1>3. PICK tags1, tags2 :
         /\ tags1 = (IF exifIs THEN <<ExifTag>> ELSE <<>>) \o (IF gpsIs THEN <<GPSTag>> ELSE <<>>)
         /\ tags2 = IF interopIs THEN <<InteroperabilityTag>> ELSE <<>>
  OBVIOUS
<1>4. dirs = <<Directory("0th", TRUE, d.zeroth, tags1), Directory("Exif", exifIs, d.exif, tags2),
               Directory("GPS", gpsIs, d.gps, <<>>), Directory("Interop", interopIs, d.interop, <<>>),
               Directory("1st", thumbIs, d.first, <<Thumbnail, ThumbnailLength>>)>>
  BY <1>1, <1>3, Zenon DEF Directories
<1>5. /\ DOMAIN dirs = 1 .. 5
      /\ dirs[1] = Directory("0th", TRUE, d.zeroth, tags1) /\ dirs[2] = Directory("Exif", exifIs, d.exif, tags2)
      /\ dirs[3] = Directory("GPS", gpsIs, d.gps, <<>>) /\ dirs[4] = Directory("Interop", interopIs, d.interop, <<>>)
      /\ dirs[5] = Directory("1st", thumbIs, d.first, <<Thumbnail, ThumbnailLength>>)
  BY <1>4
<1>6. Plain(d.zeroth) /\ Plain(d.exif) /\ Plain(d.gps) /\ Plain(d.interop) /\ Plain(d.first)
  BY DictionaryPlain DEF Ifds
<1>7. /\ ExifTag \in Pointers /\ GPSTag \in Pointers /\ InteroperabilityTag \in Pointers
      /\ Thumbnail \in Pointers /\ ThumbnailLength \in Pointers
      /\ ExifTag # GPSTag /\ Thumbnail # ThumbnailLength
  BY DEF Pointers, ExifTag, GPSTag, InteroperabilityTag, Thumbnail, ThumbnailLength
<1>8. /\ tags1 \in Seq(Pointers) /\ Distinct(tags1)
      /\ ExifTag \in Members(tags1) <=> exifIs
      /\ GPSTag \in Members(tags1) <=> gpsIs
  <2>1. CASE exifIs /\ gpsIs
    <3>1. tags1 = <<ExifTag>> \o <<GPSTag>>
      BY <1>3, <2>1
    <3>2. <<ExifTag>> \in Seq(Pointers) /\ <<GPSTag>> \in Seq(Pointers)
      BY <1>7
    <3>3. tags1 \in Seq(Pointers) /\ Len(tags1) = 2 /\ tags1[1] = ExifTag /\ tags1[2] = GPSTag
      BY <3>1, <3>2
    <3>4. DOMAIN tags1 = {1, 2}
      BY <3>3
    <3> QED
      BY <1>7, <2>1, <3>3, <3>4 DEF Distinct, Members
  <2>2. CASE exifIs /\ ~gpsIs
    <3>1. tags1 = <<ExifTag>>
      BY <1>3, <2>2
    <3> QED
      BY <1>7, <2>2, <3>1 DEF Distinct, Members
  <2>3. CASE ~exifIs /\ gpsIs
    <3>1. tags1 = <<GPSTag>>
      BY <1>3, <2>3
    <3> QED
      BY <1>7, <2>3, <3>1 DEF Distinct, Members
  <2>4. CASE ~exifIs /\ ~gpsIs
    <3>1. tags1 = <<>>
      BY <1>3, <2>4
    <3> QED
      BY <1>7, <2>4, <3>1 DEF Distinct, Members
  <2> QED
    BY <1>2, <2>1, <2>2, <2>3, <2>4
<1>9. /\ tags2 \in Seq(Pointers) /\ Distinct(tags2)
      /\ InteroperabilityTag \in Members(tags2) <=> interopIs
  <2>1. CASE interopIs
    <3>1. tags2 = <<InteroperabilityTag>>
      BY <1>3, <2>1
    <3> QED
      BY <1>7, <2>1, <3>1 DEF Distinct, Members
  <2>2. CASE ~interopIs
    <3>1. tags2 = <<>>
      BY <1>3, <2>2
    <3> QED
      BY <1>7, <2>2, <3>1 DEF Distinct, Members
  <2> QED
    BY <1>2, <2>1, <2>2
<1>10. PICK none, both : none = <<>> /\ both = <<Thumbnail, ThumbnailLength>>
  OBVIOUS
<1>11. /\ none \in Seq(Pointers) /\ Distinct(none)
       /\ both \in Seq(Pointers) /\ Distinct(both) /\ Members(both) = {Thumbnail, ThumbnailLength}
  BY <1>7, <1>10 DEF Distinct, Members
<1>12. /\ Writable(dirs[1]) /\ dirs[1].is = TRUE /\ dirs[1].name = "0th" /\ Carries(dirs[1], d.zeroth)
       /\ DOMAIN dirs[1].ifd \cap Pointers = Members(tags1)
  <2>1. IsDirectory(dirs[1], "0th", TRUE, d.zeroth, tags1)
    BY <1>5, <1>6, <1>8 DEF IsDirectory
  <2>2. PICK yes : yes = TRUE
    OBVIOUS
  <2>3. IsDirectory(dirs[1], "0th", yes, d.zeroth, tags1)
    BY <2>1, <2>2
  <2>4. /\ Writable(dirs[1]) /\ dirs[1].is = yes /\ dirs[1].name = "0th" /\ Carries(dirs[1], d.zeroth)
        /\ DOMAIN dirs[1].ifd \cap Pointers = Members(tags1)
    BY <2>3, OneDirectory
  <2> QED
    BY <2>2, <2>4
<1>13. /\ Writable(dirs[2]) /\ dirs[2].is = exifIs /\ Carries(dirs[2], d.exif)
       /\ DOMAIN dirs[2].ifd \cap Pointers = Members(tags2)
  <2>1. IsDirectory(dirs[2], "Exif", exifIs, d.exif, tags2)
    BY <1>2, <1>5, <1>6, <1>9 DEF IsDirectory
  <2> QED
    BY <2>1, OneDirectory
<1>14. Writable(dirs[3]) /\ dirs[3].is = gpsIs /\ Carries(dirs[3], d.gps)
  <2>1. IsDirectory(dirs[3], "GPS", gpsIs, d.gps, none)
    BY <1>2, <1>5, <1>6, <1>10, <1>11 DEF IsDirectory
  <2> QED
    BY <1>11, <2>1, OneDirectory
<1>15. Writable(dirs[4]) /\ dirs[4].is = interopIs /\ Carries(dirs[4], d.interop)
  <2>1. IsDirectory(dirs[4], "Interop", interopIs, d.interop, none)
    BY <1>2, <1>5, <1>6, <1>10, <1>11 DEF IsDirectory
  <2> QED
    BY <1>11, <2>1, OneDirectory
<1>16. /\ Writable(dirs[5]) /\ dirs[5].is = thumbIs /\ Carries(dirs[5], d.first)
       /\ DOMAIN dirs[5].ifd \cap Pointers = {Thumbnail, ThumbnailLength}
  <2>1. IsDirectory(dirs[5], "1st", thumbIs, d.first, both)
    BY <1>2, <1>5, <1>6, <1>10, <1>11 DEF IsDirectory
  <2> QED
    BY <1>11, <2>1, OneDirectory
<1>17. \A n \in 1 .. 5 : Writable(dirs[n])
  <2> TAKE n \in 1 .. 5
  <2>1. n = 1 \/ n = 2 \/ n = 3 \/ n = 4 \/ n = 5
    OBVIOUS
  <2> QED
    BY <1>12, <1>13, <1>14, <1>15, <1>16, <2>1
<1>18. /\ dirs[2].is <=> DOMAIN d.exif # {} \/ DOMAIN d.interop # {}
       /\ dirs[3].is <=> DOMAIN d.gps # {}
       /\ dirs[4].is <=> DOMAIN d.interop # {}
       /\ dirs[5].is <=> d.thumbnail # Missing
  BY <1>1, <1>13, <1>14, <1>15, <1>16, Zenon
<1>19. /\ ExifTag \in DOMAIN dirs[1].ifd <=> dirs[2].is
       /\ GPSTag \in DOMAIN dirs[1].ifd <=> dirs[3].is
       /\ InteroperabilityTag \in DOMAIN dirs[2].ifd <=> dirs[4].is
       /\ Thumbnail \in DOMAIN dirs[5].ifd /\ ThumbnailLength \in DOMAIN dirs[5].ifd
  BY <1>7, <1>8, <1>9, <1>12, <1>13, <1>14, <1>15, <1>16, Zenon
<1> QED
  BY <1>5, <1>12, <1>13, <1>14, <1>15, <1>16, <1>17, <1>18, <1>19, Zenon

\* load finds in what dump has written what dump was given: every value of every
\* directory, wherever it was put, and the thumbnail, unless a Long has no numbers.
LEMMA ReadBack ==
  ASSUME NEW d, IsDictionary(d), ~ExifThrows(d), ~Shortened(d)
  PROVE  Said(ExifLoad(Dump(d))) = Said(d)
<1>1. PICK dirs, at, thumbnail, w :
         /\ dirs = Directories(d) /\ at = Begins(dirs)
         /\ thumbnail = (IF d.thumbnail = Missing THEN Piece(0, Missing) ELSE GetThumbnail(d.thumbnail))
         /\ w = Written(dirs, at, thumbnail)
  OBVIOUS
<1>2. Dump(d) = w
  BY <1>1, Zenon DEF Dump
<1> DEFINE tiff == File(w)
           zeroth == GetIfd(tiff, Slice(tiff, 0, 8))
           behind == TiffHeaderLength + 2 + 12 * Cardinality(DOMAIN zeroth)
           firstAt == Slice(tiff, behind, 4)
           exifIfd == IF ExifTag \in DOMAIN zeroth THEN GetIfd(tiff, zeroth[ExifTag]) ELSE Empty
           gpsIfd == IF GPSTag \in DOMAIN zeroth THEN GetIfd(tiff, zeroth[GPSTag]) ELSE Empty
           interopIfd == IF InteroperabilityTag \in DOMAIN exifIfd
                         THEN GetIfd(tiff, exifIfd[InteroperabilityTag]) ELSE Empty
           first == IF firstAt = 0 \/ Found(tiff, behind, 4) = {} THEN Empty ELSE GetIfd(tiff, firstAt)
           pic == IF {Thumbnail, ThumbnailLength} \subseteq DOMAIN first
                  THEN [len |-> first[ThumbnailLength], apps |-> 0, jpeg |-> TRUE,
                        picture |-> Slice(tiff, first[Thumbnail], first[ThumbnailLength])]
                  ELSE Missing
           r == ExifLoad(w)
<1>3. /\ DOMAIN dirs = 1 .. 5 /\ \A n \in 1 .. 5 : Writable(dirs[n])
      /\ Carries(dirs[1], d.zeroth) /\ Carries(dirs[2], d.exif) /\ Carries(dirs[3], d.gps)
      /\ Carries(dirs[4], d.interop) /\ Carries(dirs[5], d.first)
      /\ dirs[1].is /\ dirs[1].name = "0th"
      /\ dirs[2].is <=> DOMAIN d.exif # {} \/ DOMAIN d.interop # {}
      /\ dirs[3].is <=> DOMAIN d.gps # {}
      /\ dirs[4].is <=> DOMAIN d.interop # {}
      /\ dirs[5].is <=> d.thumbnail # Missing
      /\ ExifTag \in DOMAIN dirs[1].ifd <=> dirs[2].is
      /\ GPSTag \in DOMAIN dirs[1].ifd <=> dirs[3].is
      /\ InteroperabilityTag \in DOMAIN dirs[2].ifd <=> dirs[4].is
      /\ Thumbnail \in DOMAIN dirs[5].ifd /\ ThumbnailLength \in DOMAIN dirs[5].ifd
  BY <1>1, DirectoriesOf
<1>4. dirs[5].is => /\ thumbnail.len = d.thumbnail.len - d.thumbnail.apps /\ thumbnail.what = d.thumbnail.picture
                    /\ thumbnail.len \in Nat /\ thumbnail.len > 0
                    /\ [len |-> thumbnail.len, apps |-> 0, jpeg |-> TRUE, picture |-> thumbnail.what] # Missing
  <2> HAVE dirs[5].is
  <2>1. d.thumbnail # Missing
    BY <1>3
  <2>2. thumbnail = Piece(d.thumbnail.len - d.thumbnail.apps, d.thumbnail.picture)
    BY <1>1, <2>1 DEF GetThumbnail
  <2>3. thumbnail.len = d.thumbnail.len - d.thumbnail.apps /\ thumbnail.what = d.thumbnail.picture
    BY <2>2 DEF Piece
  <2>4. /\ d.thumbnail.len \in Nat /\ d.thumbnail.apps \in Nat /\ d.thumbnail.apps < d.thumbnail.len
        /\ [len |-> d.thumbnail.len - d.thumbnail.apps, apps |-> 0, jpeg |-> TRUE,
            picture |-> d.thumbnail.picture] # Missing
    BY <2>1, Zenon DEF IsDictionary
  <2> QED
    BY <2>3, <2>4
<1>5. /\ Solid(w) /\ at[1] = 0 /\ \A n \in 1 .. 6 : at[n] \in Nat
      /\ LiesAt(w, 0, Piece(8, 8))
      /\ dirs[5].is => LiesAt(w, 8 + at[6], thumbnail)
  <2>1. Dumped(w, dirs, at, thumbnail)
    BY <1>1, <1>3, <1>4 DEF Dumped
  <2> QED
    BY <2>1, FileWritten
<1>6. ASSUME NEW n \in 1 .. 5, dirs[n].is, NEW G, G = GetIfd(tiff, 8 + at[n])
      PROVE  /\ DOMAIN G = DOMAIN dirs[n].ifd
             /\ \A t \in DOMAIN G \ Pointers : G[t] = dirs[n].ifd[t]
             /\ \A t \in DOMAIN G \cap Pointers : G[t] = Target(at, t, thumbnail)
             /\ NextIfd(dirs[n].name) > 0 =>
                  /\ Slice(tiff, 8 + at[n] + 2 + 12 * Cardinality(DOMAIN G), 4) = NextOf(dirs, at, n)
                  /\ Found(tiff, 8 + at[n] + 2 + 12 * Cardinality(DOMAIN G), 4) # {}
  <2>1. Dumped(w, dirs, at, thumbnail)
    BY <1>1, <1>3, <1>4 DEF Dumped
  <2>2. G = GetIfd(File(w), 8 + at[n])
    BY <1>1, <1>6
  <2>3. /\ DOMAIN G = DOMAIN dirs[n].ifd
        /\ \A t \in DOMAIN G \ Pointers : G[t] = dirs[n].ifd[t]
        /\ \A t \in DOMAIN G \cap Pointers : G[t] = Target(at, t, thumbnail)
        /\ NextIfd(dirs[n].name) > 0 =>
             /\ Slice(File(w), 8 + at[n] + 2 + 12 * Cardinality(DOMAIN G), 4) = NextOf(dirs, at, n)
             /\ Found(File(w), 8 + at[n] + 2 + 12 * Cardinality(DOMAIN G), 4) # {}
    BY <1>6, <2>1, <2>2, DirectoryRead
  <2> QED
    BY <1>1, <2>3
<1>7. /\ ExifTag \in Pointers /\ GPSTag \in Pointers /\ InteroperabilityTag \in Pointers
      /\ Thumbnail \in Pointers /\ ThumbnailLength \in Pointers
      /\ Target(at, ExifTag, thumbnail) = 8 + at[2] /\ Target(at, GPSTag, thumbnail) = 8 + at[3]
      /\ Target(at, InteroperabilityTag, thumbnail) = 8 + at[4]
      /\ Target(at, Thumbnail, thumbnail) = 8 + at[6]
      /\ Target(at, ThumbnailLength, thumbnail) = thumbnail.len
  BY DEF Pointers, Target, ExifTag, GPSTag, InteroperabilityTag, Thumbnail, ThumbnailLength, TiffHeaderLength
<1>8. Slice(tiff, 0, 8) = 8
  <2>1. Piece(8, 8).len = 8 /\ Piece(8, 8).what = 8
    BY DEF Piece
  <2> QED
    BY <1>1, <1>5, <2>1, SliceFinds
<1>9. r = [zeroth |-> zeroth, exif |-> exifIfd, gps |-> gpsIfd, interop |-> interopIfd, first |-> first,
           thumbnail |-> pic]
  BY Zenon DEF ExifLoad
<1>10. r = ExifLoad(w) /\ tiff = File(w)
  OBVIOUS
<1>11. /\ zeroth = GetIfd(tiff, Slice(tiff, 0, 8))
       /\ behind = TiffHeaderLength + 2 + 12 * Cardinality(DOMAIN zeroth) /\ firstAt = Slice(tiff, behind, 4)
       /\ exifIfd = (IF ExifTag \in DOMAIN zeroth THEN GetIfd(tiff, zeroth[ExifTag]) ELSE Empty)
       /\ gpsIfd = (IF GPSTag \in DOMAIN zeroth THEN GetIfd(tiff, zeroth[GPSTag]) ELSE Empty)
       /\ interopIfd = (IF InteroperabilityTag \in DOMAIN exifIfd
                        THEN GetIfd(tiff, exifIfd[InteroperabilityTag]) ELSE Empty)
       /\ first = (IF firstAt = 0 \/ Found(tiff, behind, 4) = {} THEN Empty ELSE GetIfd(tiff, firstAt))
       /\ pic = (IF {Thumbnail, ThumbnailLength} \subseteq DOMAIN first
                 THEN [len |-> first[ThumbnailLength], apps |-> 0, jpeg |-> TRUE,
                       picture |-> Slice(tiff, first[Thumbnail], first[ThumbnailLength])]
                 ELSE Missing)
  OBVIOUS
<1> HIDE DEF tiff, zeroth, behind, firstAt, exifIfd, gpsIfd, interopIfd, first, pic, r
<1>12. /\ r["zeroth"] = zeroth /\ r["exif"] = exifIfd /\ r["gps"] = gpsIfd /\ r["interop"] = interopIfd
       /\ r["first"] = first /\ r.thumbnail = pic
  BY <1>9
<1>13. DOMAIN Empty = {}
  BY DEF Empty
<1> DEFINE Same(got, ifd) ==
      DOMAIN got \ Pointers = DOMAIN ifd \ Pointers /\ \A t \in DOMAIN ifd \ Pointers : got[t] = ifd[t]
<1>14. 8 + at[1] = 8 /\ at[2] \in Nat /\ at[3] \in Nat /\ at[4] \in Nat /\ at[5] \in Nat /\ at[6] \in Nat
  BY <1>5
<1>15. /\ DOMAIN zeroth = DOMAIN dirs[1].ifd
       /\ \A t \in DOMAIN zeroth \ Pointers : zeroth[t] = dirs[1].ifd[t]
       /\ \A t \in DOMAIN zeroth \cap Pointers : zeroth[t] = Target(at, t, thumbnail)
       /\ firstAt = NextOf(dirs, at, 1) /\ Found(tiff, behind, 4) # {}
  <2>1. zeroth = GetIfd(tiff, 8 + at[1]) /\ 1 \in 1 .. 5
    BY <1>8, <1>11, <1>14
  <2>2. /\ DOMAIN zeroth = DOMAIN dirs[1].ifd
        /\ \A t \in DOMAIN zeroth \ Pointers : zeroth[t] = dirs[1].ifd[t]
        /\ \A t \in DOMAIN zeroth \cap Pointers : zeroth[t] = Target(at, t, thumbnail)
        /\ NextIfd(dirs[1].name) > 0 =>
             /\ Slice(tiff, 8 + at[1] + 2 + 12 * Cardinality(DOMAIN zeroth), 4) = NextOf(dirs, at, 1)
             /\ Found(tiff, 8 + at[1] + 2 + 12 * Cardinality(DOMAIN zeroth), 4) # {}
    BY <1>3, <1>6, <2>1
  <2>3. NextIfd(dirs[1].name) > 0
    BY <1>3 DEF NextIfd
  <2>4. behind = 8 + 2 + 12 * Cardinality(DOMAIN zeroth) /\ firstAt = Slice(tiff, behind, 4)
    BY <1>11 DEF TiffHeaderLength
  <2>5. 8 + at[1] + 2 + 12 * Cardinality(DOMAIN zeroth) = 8 + 2 + 12 * Cardinality(DOMAIN zeroth)
    BY <1>14
  <2> QED
    BY <2>2, <2>3, <2>4, <2>5
<1>16. Same(zeroth, d.zeroth)
  BY <1>3, <1>15 DEF Carries
<1>17. Same(exifIfd, d.exif) /\ (dirs[4].is <=> InteroperabilityTag \in DOMAIN exifIfd)
       /\ (dirs[4].is => exifIfd[InteroperabilityTag] = 8 + at[4])
  <2>1. CASE dirs[2].is
    <3>1. zeroth[ExifTag] = 8 + at[2] /\ exifIfd = GetIfd(tiff, 8 + at[2]) /\ 2 \in 1 .. 5
      BY <1>3, <1>7, <1>11, <1>15, <2>1
    <3>2. /\ DOMAIN exifIfd = DOMAIN dirs[2].ifd
          /\ \A t \in DOMAIN exifIfd \ Pointers : exifIfd[t] = dirs[2].ifd[t]
          /\ \A t \in DOMAIN exifIfd \cap Pointers : exifIfd[t] = Target(at, t, thumbnail)
      BY <1>6, <2>1, <3>1
    <3>3. Same(exifIfd, d.exif)
      BY <1>3, <3>2 DEF Carries
    <3> QED
      BY <1>3, <1>7, <3>2, <3>3
  <2>2. CASE ~dirs[2].is
    <3>1. exifIfd = Empty
      BY <1>3, <1>11, <1>15, <2>2
    <3>2. DOMAIN d.exif = {} /\ ~dirs[4].is
      BY <1>3, <2>2
    <3> QED
      BY <1>13, <3>1, <3>2
  <2> QED
    BY <2>1, <2>2
<1>18. Same(gpsIfd, d.gps)
  <2>1. CASE dirs[3].is
    <3>1. zeroth[GPSTag] = 8 + at[3] /\ gpsIfd = GetIfd(tiff, 8 + at[3]) /\ 3 \in 1 .. 5
      BY <1>3, <1>7, <1>11, <1>15, <2>1
    <3>2. DOMAIN gpsIfd = DOMAIN dirs[3].ifd /\ \A t \in DOMAIN gpsIfd \ Pointers : gpsIfd[t] = dirs[3].ifd[t]
      BY <1>6, <2>1, <3>1
    <3> QED
      BY <1>3, <3>2 DEF Carries
  <2>2. CASE ~dirs[3].is
    <3>1. gpsIfd = Empty
      BY <1>3, <1>11, <1>15, <2>2
    <3>2. DOMAIN d.gps = {}
      BY <1>3, <2>2
    <3> QED
      BY <1>13, <3>1, <3>2
  <2> QED
    BY <2>1, <2>2
<1>19. Same(interopIfd, d.interop)
  <2>1. CASE dirs[4].is
    <3>1. interopIfd = GetIfd(tiff, 8 + at[4]) /\ 4 \in 1 .. 5
      BY <1>11, <1>17, <2>1
    <3>2. DOMAIN interopIfd = DOMAIN dirs[4].ifd
          /\ \A t \in DOMAIN interopIfd \ Pointers : interopIfd[t] = dirs[4].ifd[t]
      BY <1>6, <2>1, <3>1
    <3> QED
      BY <1>3, <3>2 DEF Carries
  <2>2. CASE ~dirs[4].is
    <3>1. interopIfd = Empty
      BY <1>11, <1>17, <2>2
    <3>2. DOMAIN d.interop = {}
      BY <1>3, <2>2
    <3> QED
      BY <1>13, <3>1, <3>2
  <2> QED
    BY <2>1, <2>2
<1>20. CASE dirs[5].is
  <2>1. firstAt = 8 + at[5] /\ firstAt # 0
    BY <1>14, <1>15, <1>20 DEF NextOf, TiffHeaderLength
  <2>2. first = GetIfd(tiff, 8 + at[5]) /\ 5 \in 1 .. 5
    BY <1>11, <1>15, <2>1
  <2>3. /\ DOMAIN first = DOMAIN dirs[5].ifd
        /\ \A t \in DOMAIN first \ Pointers : first[t] = dirs[5].ifd[t]
        /\ \A t \in DOMAIN first \cap Pointers : first[t] = Target(at, t, thumbnail)
    BY <1>6, <1>20, <2>2
  <2>4. Same(first, d.first)
    BY <1>3, <2>3 DEF Carries
  <2>5. {Thumbnail, ThumbnailLength} \subseteq DOMAIN first
        /\ first[Thumbnail] = 8 + at[6] /\ first[ThumbnailLength] = thumbnail.len
    BY <1>3, <1>7, <2>3
  <2>6. Slice(tiff, 8 + at[6], thumbnail.len) = thumbnail.what
    BY <1>5, <1>10, <1>20, SliceFinds
  <2>7. pic = [len |-> thumbnail.len, apps |-> 0, jpeg |-> TRUE, picture |-> thumbnail.what]
    BY <1>11, <2>5, <2>6
  <2>8. pic # Missing /\ pic.picture = d.thumbnail.picture /\ d.thumbnail # Missing
    BY <1>3, <1>4, <1>20, <2>7
  <2> HIDE DEF Same
  <2>9. \A ifd \in Ifds : Same(r[ifd], d[ifd])
    BY <1>12, <1>16, <1>17, <1>18, <1>19, <2>4 DEF Ifds
  <2>10. \A ifd \in Ifds :
           [t \in DOMAIN r[ifd] \ Pointers |-> r[ifd][t]] = [t \in DOMAIN d[ifd] \ Pointers |-> d[ifd][t]]
    BY <2>9 DEF Same
  <2>11. Said(r) = <<[ifd \in Ifds |-> [t \in DOMAIN r[ifd] \ Pointers |-> r[ifd][t]]], pic.picture>>
    BY <1>12, <2>8, Zenon DEF Said
  <2>12. Said(d) = <<[ifd \in Ifds |-> [t \in DOMAIN d[ifd] \ Pointers |-> d[ifd][t]]], d.thumbnail.picture>>
    BY <2>8, Zenon DEF Said
  <2>13. Said(r) = Said(d)
    BY <2>8, <2>10, <2>11, <2>12, Zenon
  <2> QED
    BY <1>2, <1>10, <2>13
<1>21. CASE ~dirs[5].is
  <2>1. firstAt = 0
    BY <1>15, <1>21 DEF NextOf
  <2>2. first = Empty
    BY <1>11, <2>1
  <2>3. pic = Missing /\ d.thumbnail = Missing
    BY <1>3, <1>11, <1>13, <1>21, <2>2
  <2> HIDE DEF Same
  <2>4. \A ifd \in Ifds \ {"first"} : Same(r[ifd], d[ifd])
    BY <1>12, <1>16, <1>17, <1>18, <1>19 DEF Ifds
  <2> DEFINE Kept(x) == [ifd \in Ifds |->
                           LET tags == IF ifd = "first" /\ x.thumbnail = Missing THEN {} ELSE DOMAIN x[ifd] \ Pointers
                           IN [t \in tags |-> x[ifd][t]]]
  <2>5. \A ifd \in Ifds : Kept(r)[ifd] = Kept(d)[ifd]
    <3> TAKE ifd \in Ifds
    <3>1. CASE ifd = "first"
      <4>1. Kept(r)[ifd] = [t \in {} |-> r[ifd][t]] /\ Kept(d)[ifd] = [t \in {} |-> d[ifd][t]]
        BY <1>12, <2>3, <3>1
      <4> QED
        BY <4>1
    <3>2. CASE ifd # "first"
      <4>1. /\ Kept(r)[ifd] = [t \in DOMAIN r[ifd] \ Pointers |-> r[ifd][t]]
            /\ Kept(d)[ifd] = [t \in DOMAIN d[ifd] \ Pointers |-> d[ifd][t]]
        BY <3>2
      <4>2. Same(r[ifd], d[ifd])
        BY <2>4, <3>2
      <4> QED
        BY <4>1, <4>2 DEF Same
    <3> QED
      BY <3>1, <3>2
  <2>6. Kept(r) = [ifd \in Ifds |-> Kept(r)[ifd]] /\ Kept(d) = [ifd \in Ifds |-> Kept(d)[ifd]]
    OBVIOUS
  <2>7. Said(r) = <<Kept(r), Missing>> /\ Said(d) = <<Kept(d), Missing>>
    BY <1>12, <2>3, Zenon DEF Said
  <2> HIDE DEF Kept
  <2>8. Kept(r) = Kept(d)
    BY <2>5, <2>6
  <2> QED
    BY <1>2, <1>10, <2>7, <2>8
<1> QED
  BY <1>20, <1>21
=============================================================================
