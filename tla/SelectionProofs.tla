-------------------------- MODULE SelectionProofs --------------------------
(***************************************************************************)
(* What the proofs about the upload widget need to know of sequences: the  *)
(* elements, the order and the length of a selection from one, of one with *)
(* an element put in or taken out, and of one in the reversed order.       *)
(***************************************************************************)
EXTENDS Selection, SequenceTheorems, FiniteSetTheorems, WellFoundedInduction, TLAPS

\* The least number of a set.
LEMMA LeastNumber ==
  ASSUME NEW S, S \subseteq Nat, S # {}
  PROVE  \E x \in S : \A y \in S : x <= y
<1> DEFINE R == OpToRel(<, Nat)
<1>1. IsWellFoundedOn(R, Nat)
  BY NatLessThanWellFounded
<1>2. PICK x \in S : \A y \in S : ~(<<y, x>> \in R)
  BY <1>1, WFMin
<1>3. ASSUME NEW y \in S PROVE x <= y
  <2>1. x \in Nat /\ y \in Nat
    OBVIOUS
  <2>2. ~(y < x)
    BY <1>2, <2>1, Zenon DEF OpToRel
  <2> QED
    BY <2>1, <2>2
<1> QED
  BY <1>3

LEMMA SeqOfLarger ==
  ASSUME NEW S, NEW T, S \subseteq T, NEW s \in Seq(S)
  PROVE  s \in Seq(T)
<1>1. \A n \in 1 .. Len(s) : s[n] \in T
  BY ElementOfSeq
<1> QED
  BY <1>1

Places(s, S) == {i \in DOMAIN s : s[i] \in S}
Rank(at, i) == Cardinality({j \in at : j <= i})

LEMMA UpToSize ==
  ASSUME NEW n \in Nat
  PROVE  IsFiniteSet(1 .. n) /\ Cardinality(1 .. n) = n
<1>1. IsFiniteSet(1 .. n) /\ Cardinality(1 .. n) = IF 1 > n THEN 0 ELSE n - 1 + 1
  BY FS_Interval
<1>2. (IF 1 > n THEN 0 ELSE n - 1 + 1) = n
  OBVIOUS
<1> QED
  BY <1>1, <1>2

LEMMA PlacesFinite ==
  ASSUME NEW T, NEW s \in Seq(T), NEW S
  PROVE  /\ Places(s, S) \subseteq 1 .. Len(s) /\ IsFiniteSet(Places(s, S))
         /\ Cardinality(Places(s, S)) \in 0 .. Len(s)
<1>1. Places(s, S) \in SUBSET (1 .. Len(s)) /\ Len(s) \in Nat
  BY DEF Places
<1>2. IsFiniteSet(1 .. Len(s)) /\ Cardinality(1 .. Len(s)) = Len(s)
  BY <1>1, UpToSize
<1>3. IsFiniteSet(Places(s, S)) /\ Cardinality(Places(s, S)) <= Len(s)
  BY <1>1, <1>2, FS_Subset
<1>4. Cardinality(Places(s, S)) \in Nat
  BY <1>3, FS_CardinalityType
<1> QED
  BY <1>1, <1>3, <1>4

\* Among finitely many numbers there is, for every n up to their number, one that is the n-th.
LEMMA RanksTaken ==
  ASSUME NEW at, at \subseteq Nat, IsFiniteSet(at)
  PROVE  /\ \A i \in at : Rank(at, i) \in 1 .. Cardinality(at)
         /\ \A i, j \in at : i < j => Rank(at, i) < Rank(at, j)
         /\ \A n \in 1 .. Cardinality(at) : \E i \in at : Rank(at, i) = n
<1> DEFINE upto(i) == {j \in at : j <= i}
           rank == [i \in at |-> Rank(at, i)]
<1>1. Cardinality(at) \in Nat
  BY FS_CardinalityType
<1>2. ASSUME NEW i \in at
      PROVE  /\ upto(i) \in SUBSET at /\ IsFiniteSet(upto(i)) /\ Cardinality(upto(i)) \in Nat
             /\ Cardinality(upto(i)) <= Cardinality(at) /\ Cardinality(upto(i)) # 0
  <2>1. upto(i) \in SUBSET at /\ i \in upto(i)
    OBVIOUS
  <2>2. IsFiniteSet(upto(i)) /\ Cardinality(upto(i)) <= Cardinality(at)
    BY <2>1, FS_Subset
  <2>3. Cardinality(upto(i)) \in Nat
    BY <2>2, FS_CardinalityType
  <2>4. Cardinality(upto(i)) # 0
    BY <2>1, <2>2, FS_EmptySet
  <2> QED
    BY <2>1, <2>2, <2>3, <2>4
<1>3. ASSUME NEW i \in at, NEW j \in at, i < j
      PROVE  Cardinality(upto(i)) < Cardinality(upto(j))
  <2>1. upto(i) \in SUBSET upto(j) /\ j \in upto(j) /\ j \notin upto(i)
    <3>1. i \in Nat /\ j \in Nat
      OBVIOUS
    <3>2. ASSUME NEW x \in at, x <= i PROVE x <= j
      <4>1. x \in Nat
        OBVIOUS
      <4> QED
        BY <1>3, <3>1, <3>2, <4>1
    <3>3. j <= j /\ ~(j <= i)
      BY <1>3, <3>1
    <3> QED
      BY <3>2, <3>3
  <2>2. upto(i) # upto(j)
    BY <2>1
  <2> HIDE DEF upto
  <2>3. Cardinality(upto(i)) <= Cardinality(upto(j)) /\ Cardinality(upto(i)) # Cardinality(upto(j))
    BY <1>2, <2>1, <2>2, FS_Subset
  <2> QED
    BY <1>2, <2>3
<1>4. \A i \in at : Rank(at, i) = Cardinality(upto(i))
  BY DEF Rank
<1> HIDE DEF upto
<1>5. \A i \in at : Rank(at, i) \in 1 .. Cardinality(at)
  BY <1>1, <1>2, <1>4
<1>6. \A i, j \in at : i < j => Rank(at, i) < Rank(at, j)
  BY <1>3, <1>4
<1>7. rank \in Injection(at, 1 .. Cardinality(at))
  <2>1. rank \in [at -> 1 .. Cardinality(at)]
    BY <1>5
  <2>2. ASSUME NEW i \in at, NEW j \in at, i # j PROVE rank[i] # rank[j]
    <3>1. i < j \/ j < i
      BY <2>2
    <3>2. Rank(at, i) < Rank(at, j) \/ Rank(at, j) < Rank(at, i)
      BY <1>6, <3>1
    <3>3. Rank(at, i) \in Nat /\ Rank(at, j) \in Nat
      BY <1>5
    <3> QED
      BY <3>2, <3>3
  <2> QED
    BY <2>1, <2>2 DEF Injection, IsInjective
<1>8. IsFiniteSet(1 .. Cardinality(at)) /\ Cardinality(1 .. Cardinality(at)) = Cardinality(at)
  BY <1>1, UpToSize
<1>9. rank \in Surjection(at, 1 .. Cardinality(at))
  BY <1>7, <1>8, FS_Injection
<1>10. \A n \in 1 .. Cardinality(at) : \E i \in at : rank[i] = n
  BY <1>9 DEF Surjection
<1> QED
  BY <1>5, <1>6, <1>10

LEMMA OnlyAt ==
  ASSUME NEW T, NEW s \in Seq(T), NEW S, NEW n \in 1 .. Cardinality(Places(s, S))
  PROVE  \E i \in Places(s, S) : Rank(Places(s, S), i) = n /\ Only(s, S)[n] = s[i]
<1> DEFINE at == Places(s, S)
           place == CHOOSE i \in at : Rank(at, i) = n
<1>1. at \subseteq Nat /\ IsFiniteSet(at) /\ Cardinality(at) \in Nat
  BY PlacesFinite
<1>2. \E i \in at : Rank(at, i) = n
  BY <1>1, RanksTaken
<1>3. place \in at /\ Rank(at, place) = n
  BY <1>2
<1>4. Only(s, S)[n] = s[place]
  BY DEF Only, Places, Rank
<1> QED
  BY <1>3, <1>4

\* The selection from a sequence: its elements, its length.
LEMMA OnlyProperties ==
  ASSUME NEW T, NEW s \in Seq(T), NEW S
  PROVE  /\ Only(s, S) \in Seq(T \cap S)
         /\ Len(Only(s, S)) = Cardinality(Places(s, S))
         /\ DOMAIN Only(s, S) = 1 .. Cardinality(Places(s, S))
<1> DEFINE k == Cardinality(Places(s, S))
<1>1. k \in Nat
  BY PlacesFinite
<1>2. Only(s, S) = [n \in 1 .. k |-> Only(s, S)[n]]
  BY DEF Only, Places
<1>3. ASSUME NEW n \in 1 .. k PROVE Only(s, S)[n] \in T \cap S
  <2>1. PICK i \in Places(s, S) : Only(s, S)[n] = s[i]
    BY OnlyAt
  <2>2. i \in 1 .. Len(s) /\ s[i] \in S
    BY DEF Places
  <2> QED
    BY <2>1, <2>2, ElementOfSeq
<1> HIDE DEF k
<1>4. Only(s, S) \in [1 .. k -> T \cap S]
  BY <1>2, <1>3
<1>5. Only(s, S) \in Seq(T \cap S) /\ Len(Only(s, S)) = k
  BY <1>1, <1>4
<1> QED
  BY <1>4, <1>5 DEF k

\* The selection keeps the order.
LEMMA OnlyOrdered ==
  ASSUME NEW T, NEW s \in Seq(T), NEW S
  PROVE  \E place \in [DOMAIN Only(s, S) -> Places(s, S)] :
           /\ \A n \in DOMAIN Only(s, S) : Only(s, S)[n] = s[place[n]]
           /\ \A m, n \in DOMAIN Only(s, S) : m < n => place[m] < place[n]
           /\ \A i \in Places(s, S) : \E n \in DOMAIN Only(s, S) : place[n] = i
<1> DEFINE at == Places(s, S)
           k == Cardinality(at)
           o == Only(s, S)
<1>1. Places(s, S) \subseteq Nat /\ IsFiniteSet(Places(s, S)) /\ Cardinality(Places(s, S)) \in Nat
  <2>1. Places(s, S) \subseteq 1 .. Len(s) /\ IsFiniteSet(Places(s, S)) /\ Cardinality(Places(s, S)) \in 0 .. Len(s)
    BY PlacesFinite
  <2> QED
    BY <2>1
<1>2. DOMAIN Only(s, S) = 1 .. Cardinality(Places(s, S))
  BY OnlyProperties
<1>3. /\ \A i \in at : Rank(at, i) \in 1 .. k
      /\ \A i, j \in at : i < j => Rank(at, i) < Rank(at, j)
  BY <1>1, RanksTaken
<1>4. \A n \in 1 .. k : \E i \in at : Rank(at, i) = n /\ o[n] = s[i]
  BY OnlyAt
<1>5. at \subseteq Nat /\ k \in Nat /\ DOMAIN o = 1 .. k
  BY <1>1, <1>2
<1> HIDE DEF k, at, o
<1> DEFINE place == [n \in 1 .. k |-> CHOOSE i \in at : Rank(at, i) = n /\ o[n] = s[i]]
<1>6. \A n \in 1 .. k : place[n] \in at /\ Rank(at, place[n]) = n /\ o[n] = s[place[n]]
  BY <1>4
<1>7. place \in [1 .. k -> at]
  BY <1>6
<1> HIDE DEF place
<1>12. \A n \in 1 .. k : place[n] \in Nat
  BY <1>5, <1>7
<1>13. \A n \in 1 .. k : Rank(at, place[n]) = n
  BY <1>6
<1>14. \A n \in 1 .. k : o[n] = s[place[n]]
  BY <1>6
<1>8. \A i \in at : Rank(at, i) \in Nat
  BY <1>3, <1>5
<1>9. ASSUME NEW i \in at, NEW j \in at, Rank(at, i) = Rank(at, j) PROVE i = j
  <2>1. i \in Nat /\ j \in Nat /\ Rank(at, i) \in Nat
    BY <1>5, <1>8
  <2>2. ~(i < j) /\ ~(j < i)
    BY <1>3, <1>9, <2>1
  <2> QED
    BY <2>1, <2>2
<1>10. ASSUME NEW m \in 1 .. k, NEW n \in 1 .. k, m < n PROVE place[m] < place[n]
  <2>1. place[m] \in Nat /\ place[n] \in Nat /\ m \in Nat /\ n \in Nat
    BY <1>5, <1>12
  <2>2. place[m] # place[n]
    BY <1>13, <1>10, <2>1
  <2>3. ~(place[n] < place[m])
    BY <1>3, <1>7, <1>13, <1>10, <2>1
  <2> QED
    BY <2>1, <2>2, <2>3
<1>11. ASSUME NEW i \in at PROVE \E n \in 1 .. k : place[n] = i
  BY <1>3, <1>6, <1>9
<1>15. /\ place \in [DOMAIN o -> at]
       /\ \A n \in DOMAIN o : o[n] = s[place[n]]
       /\ \A m, n \in DOMAIN o : m < n => place[m] < place[n]
       /\ \A i \in at : \E n \in DOMAIN o : place[n] = i
  BY <1>5, <1>7, <1>10, <1>11, <1>14
<1> QED
  BY <1>15, Zenon DEF at, o

\* The elements of the selection, which come once if they came once.
LEMMA OnlyElements ==
  ASSUME NEW T, NEW s \in Seq(T), NEW S
  PROVE  /\ \A e : (\E n \in DOMAIN Only(s, S) : Only(s, S)[n] = e) <=> (e \in S /\ \E i \in DOMAIN s : s[i] = e)
         /\ (\A i, j \in DOMAIN s : s[i] = s[j] => i = j)
              => \A m, n \in DOMAIN Only(s, S) : Only(s, S)[m] = Only(s, S)[n] => m = n
<1>1. PICK place \in [DOMAIN Only(s, S) -> Places(s, S)] :
         /\ \A n \in DOMAIN Only(s, S) : Only(s, S)[n] = s[place[n]]
         /\ \A m, n \in DOMAIN Only(s, S) : m < n => place[m] < place[n]
         /\ \A i \in Places(s, S) : \E n \in DOMAIN Only(s, S) : place[n] = i
  BY OnlyOrdered
<1>2. \A n \in DOMAIN Only(s, S) : place[n] \in DOMAIN s /\ s[place[n]] \in S /\ place[n] \in Nat
  BY <1>1 DEF Places
<1>3. \A e : (\E n \in DOMAIN Only(s, S) : Only(s, S)[n] = e) <=> (e \in S /\ \E i \in DOMAIN s : s[i] = e)
  BY <1>1, <1>2 DEF Places
<1>4. ASSUME \A i, j \in DOMAIN s : s[i] = s[j] => i = j,
             NEW m \in DOMAIN Only(s, S), NEW n \in DOMAIN Only(s, S), Only(s, S)[m] = Only(s, S)[n]
      PROVE  m = n
  <2>1. place[m] = place[n]
    BY <1>1, <1>2, <1>4
  <2>2. m \in Nat /\ n \in Nat
    <3>1. DOMAIN Only(s, S) = 1 .. Cardinality(Places(s, S))
      BY OnlyProperties
    <3> QED
      BY <3>1
  <2>3. ~(m < n) /\ ~(n < m)
    BY <1>1, <1>2, <2>1
  <2> QED
    BY <2>2, <2>3
<1> QED
  BY <1>3, <1>4

LEMMA SmallerIsOther ==
  ASSUME NEW p \in Nat, NEW q \in Nat, p < q
  PROVE  p # q /\ ~(q < p) /\ ~(p < p)
  OBVIOUS

\* Two sequences that list the same elements in the order of their numbers are the same.
LEMMA SameOrder ==
  ASSUME NEW S, NEW a \in Seq(S), NEW b \in Seq(S), NEW number \in [S -> Nat],
         \A m, n \in DOMAIN a : m < n => number[a[m]] < number[a[n]],
         \A m, n \in DOMAIN b : m < n => number[b[m]] < number[b[n]],
         \A m \in DOMAIN a : \E n \in DOMAIN b : b[n] = a[m],
         \A n \in DOMAIN b : \E m \in DOMAIN a : a[m] = b[n]
  PROVE  \A n \in DOMAIN a : n \in DOMAIN b /\ b[n] = a[n]
<1> DEFINE Wrong == {n \in DOMAIN a : ~(n \in DOMAIN b /\ b[n] = a[n])}
<1>1. /\ DOMAIN a = 1 .. Len(a) /\ Len(a) \in Nat /\ \A n \in DOMAIN a : a[n] \in S
      /\ DOMAIN b = 1 .. Len(b) /\ Len(b) \in Nat /\ \A n \in DOMAIN b : b[n] \in S
  OBVIOUS
<1>16. DOMAIN a \subseteq Nat /\ DOMAIN b \subseteq Nat
  BY <1>1
<1>17. /\ \A m \in DOMAIN a, n \in Nat : m < n /\ n \in DOMAIN b => m \in DOMAIN b
       /\ \A m \in DOMAIN b, n \in Nat : m < n /\ n \in DOMAIN a => m \in DOMAIN a
       /\ \A m \in DOMAIN b, n \in DOMAIN a : ~(m < n) => n \in DOMAIN b
  BY <1>1
<1>2. SUFFICES ASSUME Wrong # {} PROVE FALSE
  OBVIOUS
<1>3. Wrong \subseteq Nat
  BY <1>1
<1>4. PICK n \in Wrong : \A m \in Wrong : n <= m
  BY <1>2, <1>3, LeastNumber
<1> HIDE DEF Wrong
<1>5. n \in DOMAIN a /\ n \in Nat /\ \A m \in DOMAIN a : m < n => m \in DOMAIN b /\ b[m] = a[m]
  BY <1>1, <1>4, SMTT(30) DEF Wrong
<1>6. PICK k \in DOMAIN b : b[k] = a[n]
  BY <1>5
<1>7. \A x \in S : number[x] \in Nat
  OBVIOUS
<1>8. ~(k < n)
  <2>1. SUFFICES ASSUME k < n PROVE FALSE
    OBVIOUS
  <2>2. k \in DOMAIN a /\ b[k] = a[k]
    BY <1>5, <1>17, <2>1
  <2>3. number[a[k]] < number[a[n]] /\ number[a[n]] \in Nat
    BY <1>1, <1>5, <1>7, <2>1, <2>2
  <2> QED
    BY <1>6, <2>2, <2>3
<1>9. n \in DOMAIN b /\ k \in Nat
  BY <1>5, <1>8, <1>16, <1>17
<1>10. n < k
  <2>1. k # n
    BY <1>4, <1>6 DEF Wrong
  <2> QED
    BY <1>5, <1>8, <1>9, <2>1
<1>11. PICK j \in DOMAIN a : a[j] = b[n]
  BY <1>9
<1>12. number[b[n]] < number[a[n]] /\ number[a[n]] \in Nat /\ number[b[n]] \in Nat
  BY <1>1, <1>5, <1>6, <1>7, <1>9, <1>10
<1>18. number[b[n]] # number[a[n]] /\ ~(number[a[n]] < number[b[n]]) /\ ~(number[b[n]] < number[b[n]])
  BY <1>12, SmallerIsOther
<1>13. j < n
  <2>1. j \in Nat /\ j # n
    BY <1>11, <1>18, <1>16
  <2>2. ~(n < j)
    <3>1. SUFFICES ASSUME n < j PROVE FALSE
      OBVIOUS
    <3>2. number[a[n]] < number[a[j]]
      BY <1>5, <3>1
    <3> QED
      BY <1>11, <1>18, <3>2
  <2> QED
    BY <1>5, <2>1, <2>2
<1>14. b[j] = a[j] /\ j \in DOMAIN b
  BY <1>5, <1>13
<1>15. number[b[j]] < number[b[n]]
  BY <1>9, <1>13, <1>14
<1> QED
  BY <1>11, <1>14, <1>15, <1>18

-----------------------------------------------------------------------------
(* An element put in or taken out. *)

LEMMA RemoveAtProperties ==
  ASSUME NEW T, NEW s \in Seq(T), NEW n \in 1 .. Len(s)
  PROVE  /\ Seqs!RemoveAt(s, n) \in Seq(T) /\ Len(Seqs!RemoveAt(s, n)) = Len(s) - 1
         /\ \A i \in 1 .. Len(s) - 1 : Seqs!RemoveAt(s, n)[i] = IF i < n THEN s[i] ELSE s[i + 1]
<1> DEFINE before == SubSeq(s, 1, n - 1)
           behind == SubSeq(s, n + 1, Len(s))
<1>1. Len(s) \in Nat /\ \A i \in 1 .. Len(s) : s[i] \in T
  OBVIOUS
<1>2. before \in Seq(T) /\ Len(before) = n - 1 /\ \A i \in 1 .. n - 1 : before[i] = s[i]
  BY <1>1
<1>3. behind \in Seq(T) /\ Len(behind) = Len(s) - n /\ \A i \in 1 .. Len(s) - n : behind[i] = s[i + n]
  BY <1>1
<1> HIDE DEF before, behind
<1>4. /\ before \o behind \in Seq(T) /\ Len(before \o behind) = Len(before) + Len(behind)
      /\ \A i \in 1 .. Len(before) + Len(behind) :
           (before \o behind)[i] = IF i <= Len(before) THEN before[i] ELSE behind[i - Len(before)]
  BY <1>2, <1>3, ConcatProperties
<1>5. Seqs!RemoveAt(s, n) = before \o behind
  BY DEF Seqs!RemoveAt, before, behind
<1> DEFINE both == before \o behind
<1> HIDE DEF both
<1>6. both \in Seq(T) /\ Len(both) = Len(s) - 1
  BY <1>1, <1>2, <1>3, <1>4 DEF both
<1>7. ASSUME NEW i \in 1 .. Len(s) - 1 PROVE both[i] = IF i < n THEN s[i] ELSE s[i + 1]
  <2>1. CASE i < n
    <3>1. i \in 1 .. n - 1 /\ i \in 1 .. Len(before) + Len(behind) /\ i <= Len(before)
      BY <1>1, <1>2, <1>3, <2>1
    <3> QED
      BY <1>2, <1>4, <2>1, <3>1 DEF both
  <2>2. CASE ~(i < n)
    <3>1. /\ i \in 1 .. Len(before) + Len(behind) /\ ~(i <= Len(before))
          /\ i - Len(before) \in 1 .. Len(s) - n /\ (i - Len(before)) + n = i + 1
      BY <1>1, <1>2, <1>3, <2>2
    <3>2. both[i] = behind[i - Len(before)]
      BY <1>4, <3>1 DEF both
    <3> QED
      BY <1>3, <2>2, <3>1, <3>2
  <2> QED
    BY <2>1, <2>2
<1> QED
  BY <1>5, <1>6, <1>7 DEF both

LEMMA InsertAtProperties ==
  ASSUME NEW T, NEW s \in Seq(T), NEW n \in 1 .. Len(s) + 1, NEW e \in T
  PROVE  /\ Seqs!InsertAt(s, n, e) \in Seq(T) /\ Len(Seqs!InsertAt(s, n, e)) = Len(s) + 1
         /\ DOMAIN Seqs!InsertAt(s, n, e) = 1 .. Len(s) + 1
         /\ \A i \in 1 .. Len(s) + 1 :
              Seqs!InsertAt(s, n, e)[i] = IF i < n THEN s[i] ELSE IF i = n THEN e ELSE s[i - 1]
<1> DEFINE before == SubSeq(s, 1, n - 1)
           behind == SubSeq(s, n, Len(s))
           first == before \o <<e>>
           all == first \o behind
<1>1. Len(s) \in Nat /\ n \in Nat /\ \A i \in 1 .. Len(s) : s[i] \in T
  OBVIOUS
<1>2. before \in Seq(T) /\ Len(before) = n - 1 /\ \A i \in 1 .. n - 1 : before[i] = s[i]
  BY <1>1
<1>3. behind \in Seq(T) /\ Len(behind) = Len(s) + 1 - n /\ \A i \in 1 .. Len(s) + 1 - n : behind[i] = s[i + n - 1]
  BY <1>1
<1>4. <<e>> \in Seq(T) /\ Len(<<e>>) = 1 /\ <<e>>[1] = e
  OBVIOUS
<1> HIDE DEF before, behind
<1>5. /\ first \in Seq(T) /\ Len(first) = n
      /\ \A i \in 1 .. n : first[i] = IF i <= Len(before) THEN before[i] ELSE <<e>>[i - Len(before)]
  <2>1. /\ before \o <<e>> \in Seq(T) /\ Len(before \o <<e>>) = Len(before) + Len(<<e>>)
        /\ \A i \in 1 .. Len(before) + Len(<<e>>) :
             (before \o <<e>>)[i] = IF i <= Len(before) THEN before[i] ELSE <<e>>[i - Len(before)]
    BY <1>2, <1>4, ConcatProperties
  <2>2. Len(before) + Len(<<e>>) = n
    BY <1>1, <1>2, <1>4
  <2> QED
    BY <2>1, <2>2
<1>6. \A i \in 1 .. n : first[i] = IF i < n THEN s[i] ELSE e
  <2>1. ASSUME NEW i \in 1 .. n, i < n PROVE first[i] = s[i]
    <3>1. i <= Len(before) /\ i \in 1 .. n - 1
      BY <1>1, <1>2, <2>1
    <3> QED
      BY <1>2, <1>5, <3>1
  <2>2. ASSUME NEW i \in 1 .. n, ~(i < n) PROVE first[i] = e
    <3>1. ~(i <= Len(before)) /\ i - Len(before) = 1
      BY <1>1, <1>2, <2>2
    <3> QED
      BY <1>4, <1>5, <3>1
  <2> QED
    BY <2>1, <2>2
<1> HIDE DEF first
<1>7. /\ all \in Seq(T) /\ Len(all) = Len(s) + 1
      /\ \A i \in 1 .. Len(s) + 1 : all[i] = IF i <= Len(first) THEN first[i] ELSE behind[i - Len(first)]
  <2>1. /\ first \o behind \in Seq(T) /\ Len(first \o behind) = Len(first) + Len(behind)
        /\ \A i \in 1 .. Len(first) + Len(behind) :
             (first \o behind)[i] = IF i <= Len(first) THEN first[i] ELSE behind[i - Len(first)]
    BY <1>3, <1>5, ConcatProperties
  <2>2. Len(first) + Len(behind) = Len(s) + 1
    BY <1>1, <1>3, <1>5
  <2> QED
    BY <2>1, <2>2
<1>8. Seqs!InsertAt(s, n, e) = all
  BY DEF Seqs!InsertAt, before, first, behind
<1> HIDE DEF all
<1>9. ASSUME NEW i \in 1 .. Len(s) + 1
      PROVE  all[i] = IF i < n THEN s[i] ELSE IF i = n THEN e ELSE s[i - 1]
  <2>1. CASE i <= n
    <3>1. i \in 1 .. n /\ i <= Len(first)
      BY <1>1, <1>5, <2>1
    <3>2. all[i] = IF i < n THEN s[i] ELSE e
      BY <1>6, <1>7, <3>1
    <3>3. i < n \/ i = n
      BY <1>1, <2>1
    <3> QED
      BY <3>2, <3>3
  <2>2. CASE ~(i <= n)
    <3>1. ~(i <= Len(first)) /\ i - Len(first) \in 1 .. Len(s) + 1 - n /\ (i - Len(first)) + n - 1 = i - 1
      BY <1>1, <1>5, <2>2
    <3>2. all[i] = behind[i - Len(first)] /\ behind[i - Len(first)] = s[(i - Len(first)) + n - 1]
      BY <1>3, <1>7, <3>1
    <3>3. ~(i < n) /\ i # n
      BY <1>1, <2>2
    <3> QED
      BY <3>1, <3>2, <3>3
  <2> QED
    BY <2>1, <2>2
<1> QED
  BY <1>7, <1>8, <1>9

LEMMA ReverseProperties ==
  ASSUME NEW T, NEW s \in Seq(T)
  PROVE  /\ Seqs!Reverse(s) \in Seq(T) /\ Len(Seqs!Reverse(s)) = Len(s)
         /\ DOMAIN Seqs!Reverse(s) = 1 .. Len(s)
         /\ \A i \in 1 .. Len(s) : Seqs!Reverse(s)[i] = s[Len(s) - i + 1]
<1>1. Len(s) \in Nat /\ Seqs!Reverse(s) = [i \in 1 .. Len(s) |-> s[(Len(s) - i) + 1]]
  BY DEF Seqs!Reverse
<1>2. ASSUME NEW i \in 1 .. Len(s) PROVE s[(Len(s) - i) + 1] \in T
  BY <1>1
<1> DEFINE r == [i \in 1 .. Len(s) |-> s[(Len(s) - i) + 1]]
<1>3. r \in [1 .. Len(s) -> T]
  BY <1>2
<1>4. r \in Seq(T) /\ Len(r) = Len(s)
  BY <1>1, <1>3
<1> QED
  BY <1>1, <1>4

-----------------------------------------------------------------------------
(* The elements of a list and their order. *)

Distinct(s) == \A i, j \in DOMAIN s : s[i] = s[j] => i = j
Members(s) == {s[i] : i \in DOMAIN s}
Precedes(s, a, b) == \E i, j \in DOMAIN s : i < j /\ s[i] = a /\ s[j] = b

\* A selection.
LEMMA OnlyOrder ==
  ASSUME NEW T, NEW s \in Seq(T), NEW S
  PROVE  /\ Members(Only(s, S)) = Members(s) \cap S
         /\ Distinct(s) => Distinct(Only(s, S))
         /\ \A a, b : Precedes(Only(s, S), a, b) => Precedes(s, a, b) /\ a \in S /\ b \in S
<1>1. Members(Only(s, S)) = Members(s) \cap S
  BY OnlyElements DEF Members
<1>2. Distinct(s) => Distinct(Only(s, S))
  BY OnlyElements DEF Distinct
<1>3. PICK place \in [DOMAIN Only(s, S) -> Places(s, S)] :
         /\ \A n \in DOMAIN Only(s, S) : Only(s, S)[n] = s[place[n]]
         /\ \A m, n \in DOMAIN Only(s, S) : m < n => place[m] < place[n]
         /\ \A i \in Places(s, S) : \E n \in DOMAIN Only(s, S) : place[n] = i
  BY OnlyOrdered
<1>4. ASSUME NEW a, NEW b, Precedes(Only(s, S), a, b) PROVE Precedes(s, a, b) /\ a \in S /\ b \in S
  <2>1. PICK m, n \in DOMAIN Only(s, S) : m < n /\ Only(s, S)[m] = a /\ Only(s, S)[n] = b
    BY <1>4 DEF Precedes
  <2>2. place[m] \in Places(s, S) /\ place[n] \in Places(s, S) /\ place[m] < place[n]
        /\ s[place[m]] = a /\ s[place[n]] = b
    BY <1>3, <2>1
  <2> QED
    BY <2>2 DEF Precedes, Places
<1> QED
  BY <1>1, <1>2, <1>4

\* An element put in.
LEMMA InsertOrder ==
  ASSUME NEW T, NEW s \in Seq(T), NEW n \in 1 .. Len(s) + 1, NEW e \in T
  PROVE  /\ Members(Seqs!InsertAt(s, n, e)) = Members(s) \cup {e}
         /\ Distinct(s) /\ e \notin Members(s) => Distinct(Seqs!InsertAt(s, n, e))
         /\ \A a, b : Precedes(Seqs!InsertAt(s, n, e), a, b) =>
              \/ Precedes(s, a, b)
              \/ b = e /\ \E i \in 1 .. Len(s) : i < n /\ s[i] = a
              \/ a = e /\ \E i \in 1 .. Len(s) : n <= i /\ s[i] = b
<1> DEFINE t == Seqs!InsertAt(s, n, e)
<1>1. /\ DOMAIN t = 1 .. Len(s) + 1 /\ DOMAIN s = 1 .. Len(s) /\ Len(s) \in Nat /\ n \in Nat
      /\ \A i \in 1 .. Len(s) + 1 : t[i] = IF i < n THEN s[i] ELSE IF i = n THEN e ELSE s[i - 1]
  BY InsertAtProperties
<1> HIDE DEF t
<1>2. /\ \A i \in DOMAIN t : i < n => i \in DOMAIN s /\ t[i] = s[i]
      /\ \A i \in DOMAIN t : n < i => i - 1 \in DOMAIN s /\ n <= i - 1 /\ t[i] = s[i - 1]
      /\ n \in DOMAIN t /\ t[n] = e
      /\ \A i \in DOMAIN t : i < n \/ i = n \/ n < i
      /\ DOMAIN t \subseteq Nat /\ DOMAIN s \subseteq Nat
  <2>1. \A i \in DOMAIN t : i \in Nat
    BY <1>1
  <2>2. \A i \in DOMAIN t : i < n => i \in DOMAIN s /\ t[i] = s[i]
    BY <1>1
  <2>3. \A i \in DOMAIN t : n < i => i - 1 \in DOMAIN s /\ n <= i - 1 /\ t[i] = s[i - 1]
    BY <1>1
  <2>4. n \in DOMAIN t /\ t[n] = e
    BY <1>1
  <2> QED
    BY <1>1, <2>1, <2>2, <2>3, <2>4
<1>3. Members(t) = Members(s) \cup {e}
  <2>1. ASSUME NEW i \in DOMAIN t PROVE t[i] \in Members(s) \cup {e}
    BY <1>2 DEF Members
  <2>2. ASSUME NEW i \in DOMAIN s PROVE s[i] \in Members(t)
    <3>1. CASE i < n
      <4>1. i \in DOMAIN t
        BY <1>1
      <4> QED
        BY <1>2, <3>1, <4>1 DEF Members
    <3>2. CASE ~(i < n)
      <4>1. i + 1 \in DOMAIN t /\ n < i + 1 /\ (i + 1) - 1 = i
        BY <1>1, <3>2
      <4> QED
        BY <1>2, <4>1 DEF Members
    <3> QED
      BY <3>1, <3>2
  <2>3. e \in Members(t)
    BY <1>2 DEF Members
  <2> QED
    BY <2>1, <2>2, <2>3 DEF Members
<1>4. ASSUME Distinct(s), e \notin Members(s) PROVE Distinct(t)
  <2>1. SUFFICES ASSUME NEW i \in DOMAIN t, NEW j \in DOMAIN t, t[i] = t[j] PROVE i = j
    BY DEF Distinct
  <2>2. i \in Nat /\ j \in Nat
    BY <1>2
  <2>3. CASE i = n \/ j = n
    <3>1. \A k \in DOMAIN t : k # n => t[k] \in Members(s)
      BY <1>2 DEF Members
    <3> QED
      BY <1>2, <1>4, <2>1, <2>3, <3>1
  <2>4. CASE i < n /\ j < n
    BY <1>2, <1>4, <2>1, <2>4 DEF Distinct
  <2>5. CASE n < i /\ n < j
    <3>1. i - 1 = j - 1
      BY <1>2, <1>4, <2>1, <2>5 DEF Distinct
    <3> QED
      BY <2>2, <3>1
  <2>6. CASE i < n /\ n < j
    <3>1. i = j - 1 /\ n <= j - 1
      BY <1>2, <1>4, <2>1, <2>6 DEF Distinct
    <3> QED
      BY <1>1, <2>2, <2>6, <3>1
  <2>7. CASE j < n /\ n < i
    <3>1. j = i - 1 /\ n <= i - 1
      BY <1>2, <1>4, <2>1, <2>7 DEF Distinct
    <3> QED
      BY <1>1, <2>2, <2>7, <3>1
  <2> QED
    BY <1>2, <2>3, <2>4, <2>5, <2>6, <2>7
<1>5. ASSUME NEW a, NEW b, Precedes(t, a, b)
      PROVE  \/ Precedes(s, a, b)
             \/ b = e /\ \E i \in 1 .. Len(s) : i < n /\ s[i] = a
             \/ a = e /\ \E i \in 1 .. Len(s) : n <= i /\ s[i] = b
  <2>1. PICK i, j \in DOMAIN t : i < j /\ t[i] = a /\ t[j] = b
    BY <1>5 DEF Precedes
  <2>2. i \in Nat /\ j \in Nat
    BY <1>2
  <2>3. CASE i < n /\ j < n
    BY <1>2, <2>1, <2>3 DEF Precedes
  <2>4. CASE n < i /\ n < j
    <3>1. i - 1 < j - 1
      BY <2>1, <2>2
    <3> QED
      BY <1>2, <2>1, <2>4, <3>1 DEF Precedes
  <2>5. CASE i < n /\ n < j
    <3>1. i < j - 1
      BY <1>1, <1>2, <2>2, <2>5
    <3> QED
      BY <1>2, <2>1, <2>5, <3>1 DEF Precedes
  <2>6. CASE j = n
    <3>1. i < n
      BY <2>1, <2>6
    <3> QED
      BY <1>1, <1>2, <2>1, <2>6, <3>1
  <2>7. CASE i = n
    <3>1. n < j
      BY <2>1, <2>7
    <3> QED
      BY <1>1, <1>2, <2>1, <2>7, <3>1
  <2>8. ~(n < i /\ j < n)
    BY <1>1, <2>1, <2>2
  <2> QED
    BY <1>2, <2>3, <2>4, <2>5, <2>6, <2>7, <2>8
<1> QED
  BY <1>3, <1>4, <1>5 DEF t

\* The reversed order.
LEMMA ReverseOrder ==
  ASSUME NEW T, NEW s \in Seq(T)
  PROVE  /\ Members(Seqs!Reverse(s)) = Members(s)
         /\ Distinct(s) => Distinct(Seqs!Reverse(s))
         /\ \A a, b : Precedes(Seqs!Reverse(s), a, b) => Precedes(s, b, a)
<1> DEFINE r == Seqs!Reverse(s)
           turn(i) == Len(s) - i + 1
<1>1. /\ DOMAIN r = 1 .. Len(s) /\ DOMAIN s = 1 .. Len(s) /\ Len(s) \in Nat
      /\ \A i \in 1 .. Len(s) : r[i] = s[turn(i)]
  BY ReverseProperties
<1>2. \A i \in 1 .. Len(s) : turn(i) \in 1 .. Len(s) /\ turn(turn(i)) = i
  BY <1>1
<1>3. \A i, j \in 1 .. Len(s) : (turn(i) = turn(j) => i = j) /\ (i < j => turn(j) < turn(i))
  BY <1>1
<1> HIDE DEF r, turn
<1>4. Members(r) = Members(s)
  BY <1>1, <1>2 DEF Members
<1>5. Distinct(s) => Distinct(r)
  BY <1>1, <1>2, <1>3 DEF Distinct
<1>6. \A a, b : Precedes(r, a, b) => Precedes(s, b, a)
  BY <1>1, <1>2, <1>3 DEF Precedes
<1> QED
  BY <1>4, <1>5, <1>6 DEF r

\* An element in front, or at the end.
LEMMA AppendOrder ==
  ASSUME NEW T, NEW s \in Seq(T), NEW e \in T
  PROVE  /\ Append(s, e) \in Seq(T) /\ Members(Append(s, e)) = Members(s) \cup {e}
         /\ Distinct(s) /\ e \notin Members(s) => Distinct(Append(s, e))
         /\ \A a, b : Precedes(Append(s, e), a, b) => Precedes(s, a, b) \/ b = e
<1> DEFINE t == Append(s, e)
<1>1. /\ Append(s, e) \in Seq(T) /\ DOMAIN t = 1 .. Len(s) + 1 /\ DOMAIN s = 1 .. Len(s) /\ Len(s) \in Nat
      /\ t[Len(s) + 1] = e /\ \A i \in 1 .. Len(s) : t[i] = s[i]
  OBVIOUS
<1>2. /\ \A i \in DOMAIN t : (i \in DOMAIN s /\ t[i] = s[i]) \/ i = Len(s) + 1
      /\ \A i \in DOMAIN s : i \in DOMAIN t
      /\ Len(s) + 1 \in DOMAIN t
      /\ \A i \in DOMAIN t : ~(Len(s) + 1 < i)
  BY <1>1
<1> HIDE DEF t
<1>3. Members(t) = Members(s) \cup {e}
  BY <1>1, <1>2 DEF Members
<1>4. Distinct(s) /\ e \notin Members(s) => Distinct(t)
  BY <1>1, <1>2 DEF Members, Distinct
<1>5. \A a, b : Precedes(t, a, b) => Precedes(s, a, b) \/ b = e
  BY <1>1, <1>2 DEF Precedes
<1> QED
  BY <1>1, <1>3, <1>4, <1>5 DEF t

LEMMA FrontOrder ==
  ASSUME NEW T, NEW s \in Seq(T), NEW e \in T
  PROVE  /\ <<e>> \o s \in Seq(T) /\ Members(<<e>> \o s) = Members(s) \cup {e}
         /\ Distinct(s) /\ e \notin Members(s) => Distinct(<<e>> \o s)
         /\ \A a, b : Precedes(<<e>> \o s, a, b) => Precedes(s, a, b) \/ a = e
<1> DEFINE t == <<e>> \o s
<1>1. /\ t \in Seq(T) /\ Len(t) = 1 + Len(s) /\ DOMAIN s = 1 .. Len(s) /\ Len(s) \in Nat
      /\ t[1] = e /\ \A i \in 1 .. Len(s) : t[i + 1] = s[i]
  OBVIOUS
<1> HIDE DEF t
<1>2. DOMAIN t = 1 .. Len(s) + 1
  BY <1>1
<1>3. /\ \A i \in DOMAIN t : i = 1 \/ (i - 1 \in DOMAIN s /\ t[i] = s[i - 1])
      /\ \A i \in DOMAIN s : i + 1 \in DOMAIN t
      /\ 1 \in DOMAIN t
      /\ \A i, j \in DOMAIN t : (i < j => i - 1 < j - 1 /\ j # 1) /\ (i - 1 = j - 1 => i = j)
  <2>1. \A i \in DOMAIN t : i # 1 => i - 1 \in DOMAIN s /\ (i - 1) + 1 = i
    BY <1>1, <1>2
  <2>2. \A i \in DOMAIN t : i = 1 \/ (i - 1 \in DOMAIN s /\ t[i] = s[i - 1])
    BY <1>1, <2>1
  <2> QED
    BY <1>1, <1>2, <2>2
<1>4. Members(t) = Members(s) \cup {e}
  <2>1. \A i \in DOMAIN t : t[i] \in Members(s) \cup {e}
    BY <1>1, <1>3 DEF Members
  <2>2. \A i \in DOMAIN s : s[i] \in Members(t)
    BY <1>1, <1>3 DEF Members
  <2>3. e \in Members(t)
    BY <1>1, <1>3 DEF Members
  <2> QED
    BY <2>1, <2>2, <2>3 DEF Members
<1>5. Distinct(s) /\ e \notin Members(s) => Distinct(t)
  <2>1. SUFFICES ASSUME Distinct(s), e \notin Members(s), NEW i \in DOMAIN t, NEW j \in DOMAIN t, t[i] = t[j]
                 PROVE  i = j
    BY DEF Distinct
  <2>2. CASE i = 1 \/ j = 1
    BY <1>1, <1>3, <2>1, <2>2 DEF Members
  <2>3. CASE i # 1 /\ j # 1
    <3>1. i - 1 = j - 1
      BY <1>3, <2>1, <2>3 DEF Distinct
    <3> QED
      BY <1>3, <3>1
  <2> QED
    BY <2>2, <2>3
<1>6. \A a, b : Precedes(t, a, b) => Precedes(s, a, b) \/ a = e
  <2>1. SUFFICES ASSUME NEW a, NEW b, Precedes(t, a, b), a # e PROVE Precedes(s, a, b)
    OBVIOUS
  <2>2. PICK i, j \in DOMAIN t : i < j /\ t[i] = a /\ t[j] = b
    BY <2>1 DEF Precedes
  <2>3. i # 1 /\ j # 1 /\ i - 1 < j - 1
    BY <1>1, <1>3, <2>1, <2>2
  <2> QED
    BY <1>3, <2>2, <2>3 DEF Precedes
<1> QED
  BY <1>1, <1>4, <1>5, <1>6 DEF t

\* Two rising lists of the same numbers are the same list.
LEMMA SameNumbers ==
  ASSUME NEW a \in Seq(Nat), NEW b \in Seq(Nat),
         \A m, n \in DOMAIN a : m < n => a[m] < a[n],
         \A m, n \in DOMAIN b : m < n => b[m] < b[n],
         Members(a) = Members(b)
  PROVE  Len(a) = Len(b) /\ \A n \in 1 .. Len(a) : a[n] = b[n]
<1> DEFINE number == [n \in Nat |-> n]
<1>1. /\ DOMAIN a = 1 .. Len(a) /\ Len(a) \in Nat /\ \A n \in DOMAIN a : a[n] \in Nat
      /\ DOMAIN b = 1 .. Len(b) /\ Len(b) \in Nat /\ \A n \in DOMAIN b : b[n] \in Nat
  OBVIOUS
<1>2. number \in [Nat -> Nat] /\ \A n \in Nat : number[n] = n
  OBVIOUS
<1> HIDE DEF number
<1>3. \A m, n \in DOMAIN a : m < n => number[a[m]] < number[a[n]]
  BY <1>1, <1>2
<1>4. \A m, n \in DOMAIN b : m < n => number[b[m]] < number[b[n]]
  BY <1>1, <1>2
<1>5. \A m \in DOMAIN a : \E n \in DOMAIN b : b[n] = a[m]
  <2>1. \A m \in DOMAIN a : a[m] \in Members(b)
    BY DEF Members
  <2> QED
    BY <2>1 DEF Members
<1>6. \A m \in DOMAIN b : \E n \in DOMAIN a : a[n] = b[m]
  <2>1. \A n \in DOMAIN b : b[n] \in Members(a)
    BY DEF Members
  <2> QED
    BY <2>1 DEF Members
<1>7. number \in [Nat -> Nat]
  BY <1>2
<1>8. \A n \in DOMAIN a : n \in DOMAIN b /\ b[n] = a[n]
  BY <1>3, <1>4, <1>5, <1>6, <1>7, SameOrder, ZenonT(40)
<1>9. \A n \in DOMAIN b : n \in DOMAIN a /\ a[n] = b[n]
  BY <1>3, <1>4, <1>5, <1>6, <1>7, SameOrder, ZenonT(40)
<1>10. ~(Len(a) < Len(b))
  BY <1>1, <1>9
<1>11. ~(Len(b) < Len(a))
  BY <1>1, <1>8
<1>12. Len(a) = Len(b)
  <2>1. Len(a) \in Nat /\ Len(b) \in Nat
    BY <1>1
  <2> QED
    BY <1>10, <1>11, <2>1
<1> QED
  BY <1>1, <1>8, <1>12

\* A rising list of the numbers up to k counts.
LEMMA Counting ==
  ASSUME NEW q \in Seq(Nat), NEW k \in Nat, Members(q) = 1 .. k,
         \A m, n \in DOMAIN q : m < n => q[m] < q[n]
  PROVE  Len(q) = k /\ \A n \in 1 .. k : q[n] = n
<1> DEFINE b == [n \in 1 .. k |-> n]
<1>1. b \in Seq(Nat) /\ Len(b) = k /\ DOMAIN b = 1 .. k /\ \A n \in 1 .. k : b[n] = n /\ n \in Nat
  OBVIOUS
<1> HIDE DEF b
<1>2. Members(q) = Members(b)
  BY <1>1 DEF Members
<1>3. \A m, n \in DOMAIN b : m < n => b[m] < b[n]
  BY <1>1
<1>4. Len(q) = Len(b) /\ \A n \in 1 .. Len(q) : q[n] = b[n]
  BY <1>1, <1>2, <1>3, SameNumbers
<1> QED
  BY <1>1, <1>4

\* A list of the numbers up to k that rises but for the one at place p counts the others.
LEMMA CountingBut ==
  ASSUME NEW q \in Seq(Nat), NEW k \in Nat, Members(q) = 1 .. k, Distinct(q), NEW p \in 1 .. Len(q),
         \A m, n \in DOMAIN q : m < n /\ m # p /\ n # p => q[m] < q[n]
  PROVE  /\ Len(q) = k
         /\ \A n \in 1 .. k : n < p => q[n] = IF n < q[p] THEN n ELSE n + 1
         /\ \A n \in 1 .. k : p < n => q[n] = IF n - 1 < q[p] THEN n - 1 ELSE n
<1> DEFINE a == Seqs!RemoveAt(q, p)
           o == q[p]
           b == [n \in 1 .. k - 1 |-> IF n < o THEN n ELSE n + 1]
           skip(n) == IF n < p THEN n ELSE n + 1
<1>1. DOMAIN q = 1 .. Len(q) /\ Len(q) \in Nat /\ \A n \in DOMAIN q : q[n] \in Nat /\ n \in Nat
  OBVIOUS
<1>2. \A n \in DOMAIN q : q[n] \in 1 .. k
  BY DEF Members
<1>3. o \in 1 .. k /\ p \in DOMAIN q /\ p \in Nat
  BY <1>1, <1>2
<1>4. a \in Seq(Nat) /\ Len(a) = Len(q) - 1 /\ \A n \in 1 .. Len(q) - 1 : a[n] = IF n < p THEN q[n] ELSE q[n + 1]
  BY RemoveAtProperties
<1> HIDE DEF a
<1>18. DOMAIN a = 1 .. Len(q) - 1
  BY <1>4
<1>5. DOMAIN a = 1 .. Len(q) - 1 /\ \A n \in DOMAIN a : a[n] = q[skip(n)]
  BY <1>4, <1>18, SMTT(30)
<1>6. /\ \A n \in DOMAIN a : skip(n) \in DOMAIN q /\ skip(n) # p /\ n \in Nat
      /\ \A m, n \in DOMAIN a : m < n => skip(m) < skip(n)
  BY <1>1, <1>3, <1>5
<1>7. \A n \in DOMAIN q : n # p => \E m \in DOMAIN a : skip(m) = n
  <2>1. ASSUME NEW n \in DOMAIN q, n < p PROVE n \in DOMAIN a /\ skip(n) = n
    BY <1>1, <1>3, <1>5, <2>1
  <2>2. ASSUME NEW n \in DOMAIN q, p < n PROVE n - 1 \in DOMAIN a /\ skip(n - 1) = n
    BY <1>1, <1>3, <1>5, <2>2
  <2>3. \A n \in DOMAIN q : n # p => n < p \/ p < n
    BY <1>1, <1>3
  <2> QED
    BY <2>1, <2>2, <2>3
<1>8. b \in Seq(Nat) /\ Len(b) = k - 1 /\ DOMAIN b = 1 .. k - 1
  <2>1. k - 1 \in Nat
    BY <1>3
  <2>2. \A n \in 1 .. k - 1 : (IF n < o THEN n ELSE n + 1) \in Nat
    OBVIOUS
  <2>3. b \in [1 .. k - 1 -> Nat]
    BY <2>2
  <2> QED
    BY <2>1, <2>3
<1>9. \A n \in 1 .. k - 1 : b[n] = (IF n < o THEN n ELSE n + 1) /\ n \in Nat
  BY <1>3
<1> HIDE DEF a, b, o, skip
<1>10. \A m, n \in DOMAIN a : m < n => a[m] < a[n]
  BY <1>5, <1>6
<1>11. \A m, n \in DOMAIN b : m < n => b[m] < b[n]
  <2>1. SUFFICES ASSUME NEW m \in 1 .. k - 1, NEW n \in 1 .. k - 1, m < n PROVE b[m] < b[n]
    BY <1>8
  <2>2. b[m] = (IF m < o THEN m ELSE m + 1) /\ b[n] = (IF n < o THEN n ELSE n + 1)
    BY <1>9
  <2>3. m \in Nat /\ n \in Nat /\ o \in Nat
    BY <1>3
  <2> QED
    BY <2>1, <2>2, <2>3
<1>12. Members(a) = (1 .. k) \ {o}
  <2>1. ASSUME NEW n \in DOMAIN a PROVE a[n] \in (1 .. k) \ {o}
    <3>1. skip(n) \in DOMAIN q /\ skip(n) # p /\ a[n] = q[skip(n)]
      BY <1>5, <1>6
    <3> QED
      BY <1>2, <1>3, <3>1 DEF Distinct, o
  <2>2. ASSUME NEW x \in (1 .. k) \ {o} PROVE x \in Members(a)
    <3>1. PICK n \in DOMAIN q : q[n] = x
      BY DEF Members
    <3>2. n # p
      BY <3>1 DEF o
    <3> QED
      BY <1>5, <1>7, <3>1, <3>2 DEF Members
  <2> QED
    BY <2>1, <2>2 DEF Members
<1>13. Members(b) = (1 .. k) \ {o}
  <2>1. ASSUME NEW n \in DOMAIN b PROVE b[n] \in (1 .. k) \ {o}
    <3>1. n \in 1 .. k - 1 /\ b[n] = IF n < o THEN n ELSE n + 1
      BY <1>8, <1>9
    <3> QED
      BY <1>3, <3>1
  <2>2. ASSUME NEW x \in (1 .. k) \ {o} PROVE x \in Members(b)
    <3>1. CASE x < o
      <4>1. x \in DOMAIN b /\ b[x] = x
        BY <1>3, <1>8, <1>9, <3>1
      <4> QED
        BY <4>1 DEF Members
    <3>2. CASE ~(x < o)
      <4>1. x - 1 \in DOMAIN b /\ b[x - 1] = x
        BY <1>3, <1>8, <1>9, <3>2
      <4> QED
        BY <4>1 DEF Members
    <3> QED
      BY <3>1, <3>2
  <2> QED
    BY <2>1, <2>2 DEF Members
<1>14. Len(a) = Len(b) /\ \A n \in 1 .. Len(a) : a[n] = b[n]
  <2>1. a \in Seq(Nat) /\ b \in Seq(Nat)
    BY <1>4, <1>8
  <2>2. Members(a) = Members(b)
    BY <1>12, <1>13
  <2> QED
    BY <1>10, <1>11, <2>1, <2>2, SameNumbers
<1>15. Len(q) = k
  <2>1. Len(q) - 1 = k - 1
    BY <1>4, <1>8, <1>14
  <2>2. Len(q) \in Nat /\ k \in Nat
    BY <1>1
  <2> QED
    BY <2>1, <2>2
<1>16. ASSUME NEW n \in 1 .. k, n < p PROVE q[n] = IF n < o THEN n ELSE n + 1
  <2>1. n \in 1 .. k - 1 /\ n \in DOMAIN a /\ n \in 1 .. Len(a)
    BY <1>1, <1>4, <1>5, <1>15, <1>16
  <2>2. a[n] = q[n]
    BY <1>4, <1>5, <1>16, <2>1
  <2> QED
    BY <1>9, <1>14, <2>1, <2>2
<1>17. ASSUME NEW n \in 1 .. k, p < n PROVE q[n] = IF n - 1 < o THEN n - 1 ELSE n
  <2>1. n - 1 \in 1 .. k - 1 /\ n - 1 \in DOMAIN a /\ n - 1 \in 1 .. Len(a) /\ ~(n - 1 < p) /\ (n - 1) + 1 = n
    BY <1>1, <1>3, <1>4, <1>5, <1>15, <1>17
  <2>2. a[n - 1] = q[n]
    BY <1>4, <1>5, <2>1
  <2>3. a[n - 1] = b[n - 1] /\ b[n - 1] = IF n - 1 < o THEN n - 1 ELSE (n - 1) + 1
    BY <1>9, <1>14, <2>1
  <2> QED
    BY <2>1, <2>2, <2>3
<1> QED
  BY <1>15, <1>16, <1>17 DEF o

\* The place of an element in the selection, counted in the whole list.
LEMMA OnlyRank ==
  ASSUME NEW T, NEW s \in Seq(T), NEW S, NEW i \in DOMAIN s, s[i] \in S
  PROVE  LET n == 1 + Cardinality({j \in DOMAIN s : s[j] \in S /\ j < i})
         IN  n \in DOMAIN Only(s, S) /\ Only(s, S)[n] = s[i]
<1> DEFINE at == Places(s, S)
           below == {j \in DOMAIN s : s[j] \in S /\ j < i}
<1>1. DOMAIN s = 1 .. Len(s) /\ Len(s) \in Nat
  OBVIOUS
<1>2. at \subseteq Nat /\ IsFiniteSet(at) /\ i \in at
  BY <1>1, PlacesFinite DEF Places
<1>3. below \subseteq at
  BY DEF Places
<1>4. IsFiniteSet(below) /\ Cardinality(below) \in Nat
  BY <1>2, <1>3, FS_Subset, FS_CardinalityType
<1>5. {j \in at : j <= i} = below \cup {i}
  <2>1. \A j \in at : j <= i <=> j < i \/ j = i
    BY <1>2
  <2> QED
    BY <1>2, <2>1 DEF Places
<1>6. i \notin below
  BY <1>1
<1> HIDE DEF below
<1>7. Cardinality(below \cup {i}) = Cardinality(below) + 1
  BY <1>4, <1>6, FS_AddElement
<1>8. Rank(at, i) = 1 + Cardinality(below)
  <2>1. Rank(at, i) = Cardinality(below) + 1
    BY <1>5, <1>7 DEF Rank
  <2> QED
    BY <1>4, <2>1
<1>9. /\ \A j \in at : Rank(at, j) \in 1 .. Cardinality(at)
      /\ \A j, l \in at : j < l => Rank(at, j) < Rank(at, l)
  BY <1>2, RanksTaken
<1>10. DOMAIN Only(s, S) = 1 .. Cardinality(at)
  BY OnlyProperties
<1>11. PICK j \in at : Rank(at, j) = Rank(at, i) /\ Only(s, S)[Rank(at, i)] = s[j]
  BY <1>2, <1>9, OnlyAt
<1> HIDE DEF at
<1>12. j = i
  <2>1. j \in Nat /\ i \in Nat /\ Cardinality(at) \in Nat
    BY <1>2, FS_CardinalityType
  <2>2. ~(j < i) /\ ~(i < j)
    BY <1>2, <1>9, <1>11, <2>1
  <2> QED
    BY <2>1, <2>2
<1> QED
  BY <1>2, <1>8, <1>9, <1>10, <1>11, <1>12 DEF below

\* A selection of everything.
LEMMA OnlyAll ==
  ASSUME NEW T, NEW s \in Seq(T), NEW S, Members(s) \subseteq S
  PROVE  Only(s, S) = s
<1> DEFINE o == Only(s, S)
<1>1. PICK place \in [DOMAIN o -> Places(s, S)] :
         /\ \A n \in DOMAIN o : o[n] = s[place[n]]
         /\ \A m, n \in DOMAIN o : m < n => place[m] < place[n]
         /\ \A i \in Places(s, S) : \E n \in DOMAIN o : place[n] = i
  BY OnlyOrdered
<1>2. o \in Seq(T \cap S)
  BY OnlyProperties
<1> HIDE DEF o
<1>3. DOMAIN s = 1 .. Len(s) /\ Len(s) \in Nat /\ Places(s, S) = DOMAIN s
  <2>1. DOMAIN s = 1 .. Len(s) /\ Len(s) \in Nat
    OBVIOUS
  <2>2. Places(s, S) = DOMAIN s
    BY Zenon DEF Places, Members
  <2> QED
    BY <2>1, <2>2
<1>4. DOMAIN o = 1 .. Len(o) /\ Len(o) \in Nat
  BY <1>2
<1>5. place \in Seq(Nat) /\ Len(place) = Len(o) /\ DOMAIN place = DOMAIN o
  BY <1>1, <1>3, <1>4
<1>6. Members(place) = 1 .. Len(s)
  BY <1>1, <1>3, <1>5 DEF Members
<1>7. Len(place) = Len(s) /\ \A n \in 1 .. Len(s) : place[n] = n
  BY <1>1, <1>3, <1>5, <1>6, Counting
<1>8. o \in Seq(T)
  BY <1>2, SeqOfLarger, T \cap S \subseteq T
<1>9. Len(o) = Len(s) /\ \A n \in 1 .. Len(o) : o[n] = s[n]
  BY <1>1, <1>4, <1>5, <1>7
<1> QED
  BY <1>8, <1>9, SeqEqual DEF o
============================================================================
