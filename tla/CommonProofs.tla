---------------------------- MODULE CommonProofs ----------------------------
(***************************************************************************)
(* What several components rest on: the arithmetic of unsigned integers    *)
(* with W values, which the lengths, the sequence numbers and the          *)
(* timestamps of nfsrecord.c are, and what the operations on the bucket    *)
(* chains of the two hash tables return.                                   *)
(*                                                                         *)
(* The search of the lookup is a least element of a set of positions,      *)
(* which exists because < is well-founded on Nat; the operations follow    *)
(* from the library's facts about concatenation and subsequences.  The     *)
(* entries of one key are numbered by their ranks among the places of the  *)
(* chain; that the ranks are all taken is a counting argument, and what an *)
(* operation does to the entries of a key follows from the uniqueness of   *)
(* that numbering.                                                         *)
(***************************************************************************)
EXTENDS HashChain, SequenceTheorems, FiniteSetTheorems, TLAPS

\* The remainder is a value of the type and leaves such values alone; and dropping
\* a carry before an addition gives what dropping it after the addition does.
LEMMA Unsigned ==
    ASSUME NEW W, W \in Nat \ {0}
    PROVE  /\ \A n \in Int : n % W \in 0..(W - 1)
           /\ \A n \in 0..(W - 1) : n % W = n
           /\ \A a, b \in Int : (a + (b % W)) % W = (a + b) % W
<1>1. \A n \in Int : n % W \in 0..(W - 1) /\ n = W * (n \div W) + (n % W)
                     /\ n \div W \in Int
  OBVIOUS
<1>2. \A n \in 0..(W - 1) : n % W = n
  OBVIOUS
<1>3. ASSUME NEW a \in Int, NEW b \in Int
      PROVE  (a + (b % W)) % W = (a + b) % W
  <2> DEFINE m == a + (b % W)
             qb == b \div W
             qm == m \div W
             qs == (a + b) \div W
             rm == m % W
             rs == (a + b) % W
  <2>1. b % W \in Int /\ b = W * qb + (b % W) /\ qb \in Int
    BY <1>1
  <2>2. m \in Int /\ m = W * qm + rm /\ qm \in Int /\ rm \in 0..(W - 1)
    <3>1. m \in Int
      BY <2>1
    <3> QED
      BY <1>1, <3>1, Zenon
  <2>3. a + b = W * qs + rs /\ qs \in Int /\ rs \in 0..(W - 1)
    <3>1. a + b \in Int
      OBVIOUS
    <3> QED
      BY <1>1, <3>1, Zenon
  <2>4. a + b = m + W * qb
    BY <2>1
  <2> HIDE DEF m, qb, qm, qs, rm, rs
  <2>5. (W * qm + rm) + W * qb = W * qs + rs
    BY <2>2, <2>3, <2>4, Zenon
  <2> DEFINE e == (qm + qb) - qs
  <2>6. e \in Int /\ W * e = rs - rm /\ W * (-e) = rm - rs
    BY <2>1, <2>2, <2>3, <2>5
  <2> HIDE DEF e
  <2>7. (e >= 1 => W * e >= W) /\ (-e >= 1 => W * (-e) >= W)
    BY <2>6
  <2>8. e = 0
    BY <2>2, <2>3, <2>6, <2>7
  <2> QED
    BY <2>2, <2>3, <2>6, <2>8 DEF rm, rs, m
<1> QED
  BY <1>1, <1>2, <1>3
-----------------------------------------------------------------------------
\* Inserting at the head (nfsrecord.c:991, tcp_reassembly.c:58) moves every
\* entry of the chain by one place and drops none.
LEMMA PushProperties ==
    ASSUME NEW S, NEW chain \in Seq(S), NEW entry \in S
    PROVE  /\ Push(chain, entry) \in Seq(S)
           /\ Len(Push(chain, entry)) = Len(chain) + 1
           /\ \A i \in 1..(Len(chain) + 1) :
                Push(chain, entry)[i] = IF i = 1 THEN entry ELSE chain[i - 1]
<1>1. <<entry>> \in Seq(S) /\ Len(<<entry>>) = 1 /\ <<entry>>[1] = entry
  OBVIOUS
<1>2. Len(chain) \in Nat
  BY LenProperties
<1> QED
  BY <1>1, <1>2, ConcatProperties DEF Push

\* The search loop of the lookup (nfsrecord.c:955, tcp_reassembly.c:23) stops
\* at the first entry with the key, and returns NULL only if there is none.
LEMMA FirstMatchProperties ==
    ASSUME NEW S, NEW chain \in Seq(S), NEW key
    PROVE  LET f == FirstMatch(chain, key) IN
           \/ f = 0 /\ \A i \in 1..Len(chain) : chain[i].key # key
           \/ /\ f \in 1..Len(chain) /\ chain[f].key = key
              /\ \A i \in 1..Len(chain) : chain[i].key = key => f <= i
<1> DEFINE I == {i \in 1..Len(chain) : chain[i].key = key}
<1>1. FirstMatch(chain, key) = IF I # {} THEN Min(I) ELSE 0
  BY DEF FirstMatch, SelectInSeq
<1>2. Len(chain) \in Nat /\ I \subseteq Nat
  BY LenProperties
<1>3. CASE I = {}
  BY <1>1, <1>3
<1>4. CASE I # {}
  <2>1. PICK x \in I : \A y \in I : ~ (<<y, x>> \in OpToRel(<, Nat))
    BY <1>2, <1>4, NatLessThanWellFounded, WFMin
  <2>2. \A y \in I : ~ (y < x)
    <3>1. \A p \in Nat \X Nat : p[1] < p[2] => p \in OpToRel(<, Nat)
      BY Zenon DEF OpToRel
    <3>2. \A y \in I : <<y, x>> \in Nat \X Nat /\ <<y, x>>[1] = y /\ <<y, x>>[2] = x
      BY <1>2
    <3> QED
      BY <2>1, <3>1, <3>2, Zenon
  <2>3. Min(I) \in I /\ \A y \in I : Min(I) <= y
    <3>1. \A y \in I : x <= y
      BY <1>2, <2>2
    <3> QED
      BY <3>1 DEF Min
  <2> QED
    BY <1>1, <1>4, <2>3
<1> QED
  BY <1>3, <1>4

\* Unlinking (nfsrecord.c:958, tcp_reassembly.c:27) takes out the entry the
\* search stopped at and keeps all the others in their order.
LEMMA UnlinkProperties ==
    ASSUME NEW S, NEW chain \in Seq(S), NEW key, FirstMatch(chain, key) # 0
    PROVE  LET f == FirstMatch(chain, key) IN
           /\ Unlink(chain, key) \in Seq(S)
           /\ Len(Unlink(chain, key)) = Len(chain) - 1
           /\ \A i \in 1..(Len(chain) - 1) :
                Unlink(chain, key)[i] = chain[IF i < f THEN i ELSE i + 1]
<1> DEFINE f == FirstMatch(chain, key)
           before == SubSeq(chain, 1, f - 1)
           after == SubSeq(chain, f + 1, Len(chain))
<1>1. Len(chain) \in Nat /\ f \in 1..Len(chain)
  BY FirstMatchProperties, LenProperties
<1>2. \A i \in 1..Len(chain) : chain[i] \in S
  BY ElementOfSeq
<1>3. /\ before \in Seq(S) /\ Len(before) = f - 1
      /\ \A i \in 1..(f - 1) : before[i] = chain[i]
  <2>1. \A i \in 1..(f - 1) : chain[i] \in S
    BY <1>1, <1>2
  <2> HIDE DEF f
  <2>2. /\ before \in Seq(S)
        /\ Len(before) = IF 1 <= f - 1 THEN (f - 1) - 1 + 1 ELSE 0
        /\ \A i \in 1..((f - 1) - 1 + 1) : before[i] = chain[1 + i - 1]
    BY <1>1, <2>1, SubSeqProperties
  <2> QED
    BY <1>1, <2>2
<1>4. /\ after \in Seq(S) /\ Len(after) = Len(chain) - f
      /\ \A i \in 1..(Len(chain) - f) : after[i] = chain[i + f]
  <2>1. \A i \in (f + 1)..Len(chain) : chain[i] \in S
    BY <1>1, <1>2
  <2> HIDE DEF f
  <2>2. /\ after \in Seq(S)
        /\ Len(after) = IF f + 1 <= Len(chain) THEN Len(chain) - (f + 1) + 1 ELSE 0
        /\ \A i \in 1..(Len(chain) - (f + 1) + 1) : after[i] = chain[(f + 1) + i - 1]
    BY <1>1, <2>1, SubSeqProperties
  <2> QED
    BY <1>1, <2>2
<1>5. Unlink(chain, key) = before \o after
  BY DEF Unlink, RemoveAt
<1> HIDE DEF f, before, after
<1>6. /\ before \o after \in Seq(S)
      /\ Len(before \o after) = Len(before) + Len(after)
      /\ \A i \in 1..(Len(before) + Len(after)) :
            (before \o after)[i] =
                IF i <= Len(before) THEN before[i] ELSE after[i - Len(before)]
  BY <1>3, <1>4, ConcatProperties
<1>7. ASSUME NEW i \in 1..(Len(chain) - 1)
      PROVE  (before \o after)[i] = chain[IF i < f THEN i ELSE i + 1]
  <2>1. /\ i \in 1..(Len(before) + Len(after)) /\ i \in Int /\ f \in Int
        /\ Len(before) = f - 1
    BY <1>1, <1>3, <1>4
  <2>2. (before \o after)[i] =
            IF i <= Len(before) THEN before[i] ELSE after[i - Len(before)]
    BY <1>6, <2>1
  <2>3. CASE i < f
    <3>1. i \in 1..(f - 1) /\ i <= Len(before)
      BY <2>1, <2>3
    <3> QED
      BY <1>3, <2>2, <2>3, <3>1
  <2>4. CASE ~ (i < f)
    <3>1. /\ i - (f - 1) \in 1..(Len(chain) - f)
          /\ (i - (f - 1)) + f = i + 1
          /\ ~ (i <= Len(before))
      BY <1>1, <2>1, <2>4
    <3>2. after[i - (f - 1)] = chain[(i - (f - 1)) + f]
      BY <1>4, <3>1
    <3> QED
      BY <2>1, <2>2, <2>4, <3>1, <3>2
  <2> QED
    BY <2>3, <2>4
<1> QED
  BY <1>1, <1>3, <1>4, <1>5, <1>6, <1>7 DEF f

\* h numbers the members of S from 1 to n, in increasing order.
Numbers(h, n, S) ==
    /\ h \in [1..n -> S]
    /\ \A i \in S : \E r \in 1..n : h[r] = i
    /\ \A r, s \in 1..n : r < s => h[r] < h[s]

\* A numbering of a finite set of positions in increasing order is the only one.
LEMMA NthUnique ==
    ASSUME NEW S \in SUBSET Nat, NEW n \in Nat, NEW h, Numbers(h, n, S)
    PROVE  /\ Cardinality(S) = n
           /\ \A r \in 1..n : Nth(S, r) = h[r]
<1> USE DEF Numbers
<1>1. \A r, s \in 1..n : h[r] <= h[s] <=> r <= s
  <2> SUFFICES ASSUME NEW r \in 1..n, NEW s \in 1..n PROVE h[r] <= h[s] <=> r <= s
    OBVIOUS
  <2>1. h[r] \in Nat /\ h[s] \in Nat
    OBVIOUS
  <2>2. r < s \/ r = s \/ s < r
    OBVIOUS
  <2> QED
    BY <2>1, <2>2
<1>2. \A r, s \in 1..n : h[r] = h[s] => r = s
  <2> SUFFICES ASSUME NEW r \in 1..n, NEW s \in 1..n, h[r] = h[s] PROVE r = s
    OBVIOUS
  <2>1. h[r] \in Nat /\ h[s] \in Nat
    OBVIOUS
  <2> QED
    BY <2>1, <1>1
<1>3. ASSUME NEW m \in 0..n, NEW T, \A i : i \in T <=> \E r \in 1..m : h[r] = i
      PROVE  Cardinality(T) = m
  <2> DEFINE g == [r \in 1..m |-> h[r]]
  <2>1. g \in Bijection(1..m, T)
    <3>1. g \in [1..m -> T] /\ \A i \in T : \E r \in 1..m : g[r] = i
      BY <1>3
    <3>2. \A r, s \in 1..m : g[r] = g[s] => r = s
      BY <1>2
    <3> HIDE DEF g
    <3> QED
      BY <3>1, <3>2 DEF Bijection, Injection, Surjection, IsInjective
  <2>2. ExistsBijection(1..m, T)
    BY <2>1 DEF ExistsBijection
  <2> QED
    BY <2>2, FS_CountingElements
<1>4. \A s \in 1..n : Cardinality({j \in S : j <= h[s]}) = s
  <2> SUFFICES ASSUME NEW s \in 1..n
               PROVE  Cardinality({j \in S : j <= h[s]}) = s
    OBVIOUS
  <2>1. \A i : i \in {j \in S : j <= h[s]} <=> \E r \in 1..s : h[r] = i
    <3> SUFFICES ASSUME NEW i
                 PROVE  i \in S /\ i <= h[s] <=> \E r \in 1..s : h[r] = i
      OBVIOUS
    <3>1. ASSUME i \in S, i <= h[s] PROVE \E r \in 1..s : h[r] = i
      <4>1. PICK r \in 1..n : h[r] = i
        BY <3>1
      <4>2. r <= s
        BY <1>1, <3>1, <4>1
      <4> QED
        BY <4>1, <4>2
    <3>2. ASSUME NEW r \in 1..s, h[r] = i PROVE i \in S /\ i <= h[s]
      <4>1. r \in 1..n /\ r <= s
        OBVIOUS
      <4> QED
        BY <1>1, <3>2, <4>1
    <3> QED
      BY <3>1, <3>2
  <2> QED
    BY <1>3, <2>1
<1>5. Cardinality(S) = n
  <2>1. n \in 0..n
    OBVIOUS
  <2>2. \A i : i \in S <=> \E r \in 1..n : h[r] = i
    <3>1. \A r \in 1..n : h[r] \in S
      OBVIOUS
    <3> QED
      BY <3>1, Zenon
  <2> QED
    BY <1>3, <2>1, <2>2
<1>6. \A r \in 1..n : Nth(S, r) = h[r]
  <2> SUFFICES ASSUME NEW r \in 1..n PROVE Nth(S, r) = h[r]
    OBVIOUS
  <2>1. \A i \in S : Cardinality({j \in S : j <= i}) = r <=> i = h[r]
    BY <1>4
  <2>2. h[r] \in S
    OBVIOUS
  <2> QED
    BY <2>1, <2>2 DEF Nth
<1> QED
  BY <1>5, <1>6

\* Every set of positions of a chain has one, from its first to its last.
LEMMA NthProperties ==
    ASSUME NEW n \in Nat, NEW S \in SUBSET (1..n)
    PROVE  /\ Cardinality(S) \in Nat
           /\ \A r \in 1..Cardinality(S) : Nth(S, r) \in S
           /\ \A i \in S : \E r \in 1..Cardinality(S) : Nth(S, r) = i
           /\ \A r, s \in 1..Cardinality(S) : r < s => Nth(S, r) < Nth(S, s)
<1> DEFINE upTo(i) == {j \in S : j <= i}
           rank == [i \in S |-> Cardinality(upTo(i))]
           card == Cardinality(S)
<1>1. IsFiniteSet(S) /\ card \in Nat
  <2>1. IsFiniteSet(1..n)
    BY FS_Interval
  <2> QED
    BY <2>1, FS_Subset, FS_CardinalityType
<1>2. \A i \in S : /\ IsFiniteSet(upTo(i)) /\ Cardinality(upTo(i)) \in Nat
                   /\ Cardinality(upTo(i)) <= card
  BY <1>1, FS_Subset, FS_CardinalityType
<1>3. \A i, j \in S : i < j => rank[i] < rank[j]
  <2> SUFFICES ASSUME NEW i \in S, NEW j \in S, i < j PROVE rank[i] < rank[j]
    OBVIOUS
  <2>1. upTo(i) \in SUBSET upTo(j) /\ j \in upTo(j) /\ j \notin upTo(i)
    <3>1. i \in Nat /\ j \in Nat /\ \A l \in S : l \in Nat
      OBVIOUS
    <3>2. \A l \in S : l <= i => l <= j
      BY <3>1
    <3>3. ~ (j <= i) /\ j <= j
      BY <3>1
    <3> QED
      BY <3>2, <3>3
  <2>2. /\ IsFiniteSet(upTo(j)) /\ Cardinality(upTo(j)) \in Nat
        /\ Cardinality(upTo(i)) \in Nat
    BY <1>2
  <2>3. /\ Cardinality(upTo(i)) <= Cardinality(upTo(j))
        /\ Cardinality(upTo(j)) = Cardinality(upTo(i)) => upTo(j) = upTo(i)
    <3> HIDE DEF upTo
    <3> QED
      BY <2>1, <2>2, FS_Subset
  <2>4. rank[i] = Cardinality(upTo(i)) /\ rank[j] = Cardinality(upTo(j))
    OBVIOUS
  <2> HIDE DEF upTo, rank
  <2> QED
    BY <2>1, <2>2, <2>3, <2>4
<1>4. rank \in [S -> 1..card]
  <2> SUFFICES ASSUME NEW i \in S PROVE Cardinality(upTo(i)) \in 1..card
    OBVIOUS
  <2>1. upTo(i) # {}
    OBVIOUS
  <2>2. Cardinality(upTo(i)) # 0
    BY <1>2, <2>1, FS_EmptySet
  <2> HIDE DEF upTo
  <2> QED
    BY <1>1, <1>2, <2>2
<1>5. \A i \in S : rank[i] = Cardinality({j \in S : j <= i})
  OBVIOUS
<1> HIDE DEF rank
<1>6. \A i, j \in S : rank[i] = rank[j] => i = j
  <2> SUFFICES ASSUME NEW i \in S, NEW j \in S, rank[i] = rank[j] PROVE i = j
    OBVIOUS
  <2>1. i \in Nat /\ j \in Nat /\ rank[i] \in Nat /\ rank[j] \in Nat
    BY <1>4
  <2> QED
    BY <1>3, <2>1
<1>7. rank \in Injection(S, 1..card)
  BY <1>4, <1>6 DEF Injection, IsInjective
<1>8. rank \in Surjection(S, 1..card)
  <2>1. IsFiniteSet(1..card) /\ Cardinality(1..card) = card
    BY <1>1, FS_Interval
  <2> HIDE DEF card
  <2>2. Cardinality(S) = Cardinality(1..card) <=> rank \in Surjection(S, 1..card)
    BY <1>7, <2>1, FS_Injection
  <2> QED
    BY <2>1, <2>2 DEF card
<1>9. \A r \in 1..card : Nth(S, r) \in S /\ rank[Nth(S, r)] = r
  <2> SUFFICES ASSUME NEW r \in 1..card PROVE Nth(S, r) \in S /\ rank[Nth(S, r)] = r
    OBVIOUS
  <2>1. \E i \in S : rank[i] = r
    BY <1>8 DEF Surjection
  <2>2. Nth(S, r) = CHOOSE i \in S : rank[i] = r
    BY <1>5 DEF Nth
  <2> QED
    BY <2>1, <2>2
<1>10. \A i \in S : rank[i] \in 1..card /\ Nth(S, rank[i]) = i
  BY <1>4, <1>6, <1>9
<1>11. \A r, s \in 1..card : r < s => Nth(S, r) < Nth(S, s)
  <2> SUFFICES ASSUME NEW r \in 1..card, NEW s \in 1..card, r < s
               PROVE  Nth(S, r) < Nth(S, s)
    OBVIOUS
  <2> DEFINE i == Nth(S, r)
             j == Nth(S, s)
  <2>1. i \in S /\ j \in S /\ rank[i] = r /\ rank[j] = s
    BY <1>9
  <2> HIDE DEF i, j
  <2>2. i \in Nat /\ j \in Nat /\ r \in Nat /\ s \in Nat
    BY <2>1
  <2>3. i < j \/ i = j \/ j < i
    BY <2>2
  <2>4. i < j
    BY <1>3, <2>1, <2>2, <2>3
  <2> QED
    BY <2>4 DEF i, j
<1> QED
  BY <1>1, <1>9, <1>10, <1>11

\* The entries with a key, in the order of the chain, and no other ones.
LEMMA EntriesProperties ==
    ASSUME NEW T, NEW chain \in Seq(T), NEW key
    PROVE  LET P == PlacesOf(chain, key)
               E == EntriesOf(chain, key)
           IN  /\ P \in SUBSET (1..Len(chain)) /\ Len(chain) \in Nat
               /\ E \in Seq(T) /\ Len(E) = Cardinality(P) /\ Len(E) \in Nat
               /\ E = [r \in 1..Len(E) |-> chain[Nth(P, r)]]
               /\ \A r \in 1..Len(E) : Nth(P, r) \in P
               /\ \A i \in P : \E r \in 1..Len(E) : Nth(P, r) = i
               /\ \A r, s \in 1..Len(E) : r < s => Nth(P, r) < Nth(P, s)
<1> DEFINE P == PlacesOf(chain, key)
           E == EntriesOf(chain, key)
<1>1. DOMAIN chain = 1..Len(chain) /\ Len(chain) \in Nat
  BY LenProperties
<1>2. P \in SUBSET (1..Len(chain))
  BY <1>1 DEF PlacesOf
<1>3. /\ Cardinality(P) \in Nat
      /\ \A r \in 1..Cardinality(P) : Nth(P, r) \in P
      /\ \A i \in P : \E r \in 1..Cardinality(P) : Nth(P, r) = i
      /\ \A r, s \in 1..Cardinality(P) : r < s => Nth(P, r) < Nth(P, s)
  BY <1>1, <1>2, NthProperties
<1>4. E = [r \in 1..Cardinality(P) |-> chain[Nth(P, r)]]
  BY DEF EntriesOf
<1>5. \A r \in 1..Cardinality(P) : chain[Nth(P, r)] \in T
  BY <1>1, <1>2, <1>3, ElementOfSeq
<1> HIDE DEF P, E
<1>6. E \in Seq(T) /\ Len(E) = Cardinality(P)
  <2>1. E \in [1..Cardinality(P) -> T]
    BY <1>4, <1>5
  <2>2. E \in Seq(T)
    BY <1>3, <2>1, IsASeq
  <2>3. DOMAIN E = 1..Cardinality(P) /\ DOMAIN E = 1..Len(E) /\ Len(E) \in Nat
    BY <1>4, <2>2, LenProperties
  <2> QED
    BY <1>3, <2>2, <2>3
<1> QED
  BY <1>1, <1>2, <1>3, <1>4, <1>6 DEF P, E

\* What the entries are is settled by any increasing numbering of their places.
LEMMA EntriesNumbered ==
    ASSUME NEW T, NEW chain \in Seq(T), NEW key, NEW n \in Nat,
           NEW h, Numbers(h, n, PlacesOf(chain, key))
    PROVE  /\ EntriesOf(chain, key) \in Seq(T)
           /\ Len(EntriesOf(chain, key)) = n
           /\ \A r \in 1..n : EntriesOf(chain, key)[r] = chain[h[r]]
<1>1. DOMAIN chain = 1..Len(chain) /\ Len(chain) \in Nat
  BY LenProperties
<1>2. PlacesOf(chain, key) \in SUBSET Nat
  BY <1>1 DEF PlacesOf
<1>3. /\ Cardinality(PlacesOf(chain, key)) = n
      /\ \A r \in 1..n : Nth(PlacesOf(chain, key), r) = h[r]
  BY <1>2, NthUnique
<1>4. /\ EntriesOf(chain, key) \in Seq(T)
      /\ Len(EntriesOf(chain, key)) = Cardinality(PlacesOf(chain, key))
  BY EntriesProperties
<1>5. \A r \in 1..n : EntriesOf(chain, key)[r] = chain[h[r]]
  BY <1>3 DEF EntriesOf
<1> QED
  BY <1>3, <1>4, <1>5

\* The lookup returns the first entry with the key, or NULL if there is none
\* (nfsrecord.c:955).
LEMMA EntriesFirst ==
    ASSUME NEW T, NEW chain \in Seq(T), NEW key
    PROVE  LET E == EntriesOf(chain, key)
               f == FirstMatch(chain, key)
           IN  /\ f = 0 <=> E = <<>>
               /\ f # 0 => /\ Len(E) > 0 /\ Head(E) = chain[f]
                           /\ Nth(PlacesOf(chain, key), 1) = f
<1> DEFINE P == PlacesOf(chain, key)
           E == EntriesOf(chain, key)
           f == FirstMatch(chain, key)
<1>1. /\ P \in SUBSET (1..Len(chain)) /\ Len(chain) \in Nat
      /\ E \in Seq(T) /\ Len(E) = Cardinality(P) /\ Len(E) \in Nat
      /\ E = [r \in 1..Len(E) |-> chain[Nth(P, r)]]
      /\ \A r \in 1..Len(E) : Nth(P, r) \in P
      /\ \A i \in P : \E r \in 1..Len(E) : Nth(P, r) = i
      /\ \A r, s \in 1..Len(E) : r < s => Nth(P, r) < Nth(P, s)
  BY EntriesProperties
<1>2. \A i : i \in P <=> i \in 1..Len(chain) /\ chain[i].key = key
  BY LenProperties DEF PlacesOf
<1>3. \/ f = 0 /\ \A i \in 1..Len(chain) : chain[i].key # key
      \/ /\ f \in 1..Len(chain) /\ chain[f].key = key
         /\ \A i \in 1..Len(chain) : chain[i].key = key => f <= i
  BY FirstMatchProperties
<1>4. E = <<>> <=> Len(E) = 0
  BY <1>1, EmptySeq
<1> HIDE DEF P, E, f
<1>5. CASE f = 0
  <2>1. P = {}
    BY <1>1, <1>2, <1>3, <1>5
  <2>2. Len(E) = 0
    BY <1>1, <2>1
  <2> QED
    BY <1>4, <1>5, <2>2 DEF P, E, f
<1>6. CASE f # 0
  <2>1. f \in P /\ \A i \in P : f <= i
    BY <1>2, <1>3, <1>6
  <2>2. PICK r \in 1..Len(E) : Nth(P, r) = f
    BY <1>1, <2>1
  <2>3. 1 \in 1..Len(E) /\ r \in Nat /\ (1 < r \/ r = 1)
    BY <1>1
  <2>4. Nth(P, 1) \in P /\ Nth(P, 1) \in Nat /\ f \in Nat
    <3>1. \A i \in P : i \in Nat
      BY <1>1
    <3>2. Nth(P, 1) \in P
      BY <1>1, <2>3
    <3> QED
      BY <2>1, <3>1, <3>2
  <2>5. ~ (Nth(P, 1) < f)
    BY <2>1, <2>4
  <2>6. Nth(P, 1) = f
    BY <1>1, <2>2, <2>3, <2>5
  <2>7. Len(E) > 0 /\ Head(E) = E[1] /\ E[1] = chain[f]
    <3>1. Len(E) > 0 /\ E # <<>>
      BY <1>1, <1>4, <2>3
    <3>2. Head(E) = E[1]
      BY <1>1, <3>1, HeadTailProperties
    <3> QED
      BY <1>1, <2>3, <2>6, <3>1, <3>2
  <2> QED
    BY <1>4, <1>6, <2>6, <2>7 DEF P, E, f
<1> QED
  BY <1>5, <1>6

\* A chain without entries has none with a key.
LEMMA EntriesEmpty ==
    ASSUME NEW key
    PROVE  EntriesOf(<<>>, key) = <<>>
<1>1. <<>> \in Seq({}) /\ Len(<<>>) = 0
  BY EmptySeq
<1>2. /\ PlacesOf(<<>>, key) \in SUBSET (1..Len(<<>>))
      /\ EntriesOf(<<>>, key) \in Seq({})
      /\ Len(EntriesOf(<<>>, key)) = Cardinality(PlacesOf(<<>>, key))
  BY <1>1, EntriesProperties
<1>3. PlacesOf(<<>>, key) = {}
  BY <1>1, <1>2
<1>4. Len(EntriesOf(<<>>, key)) = 0
  BY <1>2, <1>3, FS_EmptySet
<1> QED
  BY <1>2, <1>4, EmptySeq

\* An insertion puts the new entry in front of those of its key and leaves those
\* of the other keys as they were (nfsrecord.c:991).
LEMMA EntriesPush ==
    ASSUME NEW T, NEW chain \in Seq(T), NEW entry \in T, NEW key
    PROVE  EntriesOf(Push(chain, entry), key) =
             IF entry.key = key THEN <<entry>> \o EntriesOf(chain, key)
                                ELSE EntriesOf(chain, key)
<1> DEFINE P == PlacesOf(chain, key)
           E == EntriesOf(chain, key)
           new == Push(chain, entry)
           Q == PlacesOf(new, key)
<1>1. /\ P \in SUBSET (1..Len(chain)) /\ Len(chain) \in Nat
      /\ E \in Seq(T) /\ Len(E) = Cardinality(P) /\ Len(E) \in Nat
      /\ E = [r \in 1..Len(E) |-> chain[Nth(P, r)]]
      /\ \A r \in 1..Len(E) : Nth(P, r) \in P
      /\ \A i \in P : \E r \in 1..Len(E) : Nth(P, r) = i
      /\ \A r, s \in 1..Len(E) : r < s => Nth(P, r) < Nth(P, s)
  BY EntriesProperties
<1>2. /\ new \in Seq(T) /\ Len(new) = Len(chain) + 1
      /\ \A i \in 1..(Len(chain) + 1) :
            new[i] = IF i = 1 THEN entry ELSE chain[i - 1]
  BY PushProperties
<1>3. \A i : i \in P <=> i \in 1..Len(chain) /\ chain[i].key = key
  BY LenProperties DEF PlacesOf
<1>4. \A i : i \in Q <=> i \in 1..Len(new) /\ new[i].key = key
  BY <1>2, LenProperties DEF PlacesOf
<1>5. \A r \in 1..Len(E) : Nth(P, r) \in 1..Len(chain) /\ Nth(P, r) \in Nat
  BY <1>1
<1> HIDE DEF P, E, new, Q
<1>6. \A i : i \in Q <=> \/ i = 1 /\ entry.key = key
                         \/ \E j \in P : i = j + 1
  <2> SUFFICES ASSUME NEW i
               PROVE  i \in Q <=> \/ i = 1 /\ entry.key = key
                                  \/ \E j \in P : i = j + 1
    OBVIOUS
  <2>1. ASSUME i \in Q, i # 1 PROVE \E j \in P : i = j + 1
    <3>1. i \in 1..(Len(chain) + 1) /\ new[i].key = key
      BY <1>2, <1>4, <2>1
    <3>2. i - 1 \in 1..Len(chain) /\ i = (i - 1) + 1
      BY <1>1, <2>1, <3>1
    <3>3. new[i] = chain[i - 1]
      BY <1>2, <2>1, <3>1
    <3> QED
      BY <1>3, <3>1, <3>2, <3>3
  <2>2. 1 \in 1..(Len(chain) + 1) /\ new[1] = entry
    BY <1>1, <1>2
  <2>3. ASSUME NEW j \in P, i = j + 1 PROVE i \in Q
    <3>1. j \in 1..Len(chain) /\ chain[j].key = key
      BY <1>3
    <3>2. j + 1 \in 1..(Len(chain) + 1) /\ (j + 1) - 1 = j /\ j + 1 # 1
      BY <1>1, <3>1
    <3>3. new[j + 1] = chain[j]
      BY <1>2, <3>2
    <3> QED
      BY <1>2, <1>4, <2>3, <3>1, <3>2, <3>3
  <2> QED
    BY <1>2, <1>4, <2>1, <2>2, <2>3
<1>7. CASE entry.key = key
  <2> DEFINE h == [r \in 1..(Len(E) + 1) |-> IF r = 1 THEN 1 ELSE Nth(P, r - 1) + 1]
             n == Len(E) + 1
  <2>1. \A r \in 1..n : r # 1 => r - 1 \in 1..Len(E)
    BY <1>1
  <2>2. \A r \in 1..n : h[r] = IF r = 1 THEN 1 ELSE Nth(P, r - 1) + 1
    OBVIOUS
  <2>3. h \in [1..n -> Q]
    <3> SUFFICES ASSUME NEW r \in 1..n
                 PROVE  (IF r = 1 THEN 1 ELSE Nth(P, r - 1) + 1) \in Q
      OBVIOUS
    <3>1. r # 1 => Nth(P, r - 1) \in P
      BY <1>1, <2>1
    <3> QED
      BY <1>6, <1>7, <3>1
  <2> HIDE DEF h
  <2>4. \A i \in Q : \E r \in 1..n : h[r] = i
    <3> SUFFICES ASSUME NEW i \in Q PROVE \E r \in 1..n : h[r] = i
      OBVIOUS
    <3>1. CASE i = 1
      <4>1. 1 \in 1..n
        BY <1>1
      <4> QED
        BY <2>2, <3>1, <4>1
    <3>2. CASE i # 1
      <4>1. PICK j \in P : i = j + 1
        BY <1>6, <3>2
      <4>2. PICK r \in 1..Len(E) : Nth(P, r) = j
        BY <1>1
      <4>3. r + 1 \in 1..n /\ r + 1 # 1 /\ (r + 1) - 1 = r
        BY <1>1
      <4> QED
        BY <2>2, <4>1, <4>2, <4>3
    <3> QED
      BY <3>1, <3>2
  <2>5. \A r, s \in 1..n : r < s => h[r] < h[s]
    <3> SUFFICES ASSUME NEW r \in 1..n, NEW s \in 1..n, r < s PROVE h[r] < h[s]
      OBVIOUS
    <3>1. r \in Nat /\ s \in Nat /\ s # 1 /\ r >= 1
      OBVIOUS
    <3>2. s - 1 \in 1..Len(E) /\ Nth(P, s - 1) \in 1..Len(chain)
      BY <1>5, <2>1, <3>1
    <3>3. CASE r = 1
      <4>1. 1 < Nth(P, s - 1) + 1
        BY <1>1, <3>2
      <4> QED
        BY <2>2, <3>1, <3>3, <4>1
    <3>4. CASE r # 1
      <4>1. r - 1 \in 1..Len(E) /\ Nth(P, r - 1) \in 1..Len(chain)
        BY <1>5, <2>1, <3>4
      <4>2. r - 1 < s - 1
        BY <3>1
      <4>3. Nth(P, r - 1) < Nth(P, s - 1)
        BY <1>1, <3>2, <4>1, <4>2
      <4>4. Nth(P, r - 1) + 1 < Nth(P, s - 1) + 1
        BY <1>1, <3>2, <4>1, <4>3
      <4> QED
        BY <2>2, <3>1, <3>4, <4>4
    <3> QED
      BY <3>3, <3>4
  <2>6. /\ EntriesOf(new, key) \in Seq(T) /\ Len(EntriesOf(new, key)) = n
        /\ \A r \in 1..n : EntriesOf(new, key)[r] = new[h[r]]
    <3>1. n \in Nat /\ new \in Seq(T)
      BY <1>1, <1>2
    <3>2. Numbers(h, n, PlacesOf(new, key))
      BY <2>3, <2>4, <2>5 DEF Q, Numbers
    <3> HIDE DEF n
    <3> QED
      BY <3>1, <3>2, EntriesNumbered
  <2>7. /\ Push(E, entry) \in Seq(T) /\ Len(Push(E, entry)) = n
        /\ \A r \in 1..n : Push(E, entry)[r] = IF r = 1 THEN entry ELSE E[r - 1]
    <3>1. E \in Seq(T)
      BY <1>1
    <3> QED
      BY <3>1, PushProperties
  <2>8. \A r \in 1..n : new[h[r]] = Push(E, entry)[r]
    <3> SUFFICES ASSUME NEW r \in 1..n PROVE new[h[r]] = Push(E, entry)[r]
      OBVIOUS
    <3>1. CASE r = 1
      <4>1. 1 \in 1..(Len(chain) + 1)
        BY <1>1
      <4> QED
        BY <1>2, <2>2, <2>7, <3>1, <4>1
    <3>2. CASE r # 1
      <4>1. r - 1 \in 1..Len(E) /\ Nth(P, r - 1) \in 1..Len(chain)
        BY <1>5, <2>1, <3>2
      <4>2. /\ Nth(P, r - 1) + 1 \in 1..(Len(chain) + 1) /\ Nth(P, r - 1) + 1 # 1
            /\ (Nth(P, r - 1) + 1) - 1 = Nth(P, r - 1)
        BY <1>1, <4>1
      <4>3. new[Nth(P, r - 1) + 1] = chain[Nth(P, r - 1)]
        BY <1>2, <4>2
      <4>4. E[r - 1] = chain[Nth(P, r - 1)]
        BY <1>1, <4>1
      <4> QED
        BY <2>2, <2>7, <3>2, <4>3, <4>4
    <3> QED
      BY <3>1, <3>2
  <2>9. EntriesOf(new, key) = Push(E, entry)
    BY <2>6, <2>7, <2>8, SeqEqual
  <2> QED
    BY <1>7, <2>9 DEF Push, new, E
<1>8. CASE entry.key # key
  <2> DEFINE h == [r \in 1..Len(E) |-> Nth(P, r) + 1]
  <2>1. \A r \in 1..Len(E) : h[r] = Nth(P, r) + 1
    OBVIOUS
  <2>2. h \in [1..Len(E) -> Q]
    BY <1>1, <1>6
  <2> HIDE DEF h
  <2>3. \A i \in Q : \E r \in 1..Len(E) : h[r] = i
    BY <1>1, <1>6, <1>8, <2>1
  <2>4. \A r, s \in 1..Len(E) : r < s => h[r] < h[s]
    BY <1>1, <1>5, <2>1
  <2>5. /\ EntriesOf(new, key) \in Seq(T) /\ Len(EntriesOf(new, key)) = Len(E)
        /\ \A r \in 1..Len(E) : EntriesOf(new, key)[r] = new[h[r]]
    <3>1. Len(E) \in Nat /\ new \in Seq(T)
      BY <1>1, <1>2
    <3>2. Numbers(h, Len(E), PlacesOf(new, key))
      BY <2>2, <2>3, <2>4 DEF Q, Numbers
    <3> QED
      BY <3>1, <3>2, EntriesNumbered
  <2>6. \A r \in 1..Len(E) : new[h[r]] = chain[Nth(P, r)]
    <3> SUFFICES ASSUME NEW r \in 1..Len(E) PROVE new[h[r]] = chain[Nth(P, r)]
      OBVIOUS
    <3>1. /\ Nth(P, r) + 1 \in 1..(Len(chain) + 1) /\ Nth(P, r) + 1 # 1
          /\ (Nth(P, r) + 1) - 1 = Nth(P, r)
      BY <1>1, <1>5
    <3> QED
      BY <1>2, <2>1, <3>1
  <2>7. EntriesOf(new, key) = E
    BY <1>1, <2>5, <2>6, SeqEqual
  <2> QED
    BY <1>8, <2>7 DEF new, E
<1> QED
  BY <1>7, <1>8

\* A removal takes out the first of the entries of its key and leaves those of
\* the other keys as they were (nfsrecord.c:958).
LEMMA EntriesUnlink ==
    ASSUME NEW T, NEW chain \in Seq(T), NEW k, FirstMatch(chain, k) # 0, NEW key
    PROVE  EntriesOf(Unlink(chain, k), key) =
             IF key = k THEN Tail(EntriesOf(chain, key))
                        ELSE EntriesOf(chain, key)
<1> DEFINE P == PlacesOf(chain, key)
           E == EntriesOf(chain, key)
           f == FirstMatch(chain, k)
           new == Unlink(chain, k)
           Q == PlacesOf(new, key)
<1>1. /\ P \in SUBSET (1..Len(chain)) /\ Len(chain) \in Nat
      /\ E \in Seq(T) /\ Len(E) = Cardinality(P) /\ Len(E) \in Nat
      /\ E = [r \in 1..Len(E) |-> chain[Nth(P, r)]]
      /\ \A r \in 1..Len(E) : Nth(P, r) \in P
      /\ \A i \in P : \E r \in 1..Len(E) : Nth(P, r) = i
      /\ \A r, s \in 1..Len(E) : r < s => Nth(P, r) < Nth(P, s)
  BY EntriesProperties
<1>2. /\ new \in Seq(T) /\ Len(new) = Len(chain) - 1
      /\ \A i \in 1..(Len(chain) - 1) : new[i] = chain[IF i < f THEN i ELSE i + 1]
  BY UnlinkProperties
<1>3. f \in 1..Len(chain) /\ chain[f].key = k
  BY FirstMatchProperties
<1>4. \A i : i \in P <=> i \in 1..Len(chain) /\ chain[i].key = key
  BY LenProperties DEF PlacesOf
<1>5. \A i : i \in Q <=> i \in 1..(Len(chain) - 1) /\ new[i].key = key
  BY <1>2, LenProperties DEF PlacesOf
<1>6. \A r \in 1..Len(E) : Nth(P, r) \in 1..Len(chain) /\ Nth(P, r) \in Nat
  BY <1>1
<1>7. key = k => Len(E) > 0 /\ E # <<>> /\ Nth(P, 1) = f
  BY EntriesFirst, EmptySeq
<1> DEFINE moved(i) == IF i < f THEN i ELSE i - 1
<1> HIDE DEF P, E, f, new, Q
<1>8. \A i \in P : i # f => moved(i) \in Q /\ new[moved(i)] = chain[i]
  <2> SUFFICES ASSUME NEW i \in P, i # f
               PROVE  moved(i) \in Q /\ new[moved(i)] = chain[i]
    OBVIOUS
  <2>1. i \in 1..Len(chain) /\ chain[i].key = key
    BY <1>4
  <2>2. CASE i < f
    <3>1. i \in 1..(Len(chain) - 1) /\ moved(i) = i
      BY <1>1, <1>3, <2>1, <2>2
    <3> QED
      BY <1>2, <1>5, <2>1, <2>2, <3>1
  <2>3. CASE ~ (i < f)
    <3>1. /\ i - 1 \in 1..(Len(chain) - 1) /\ moved(i) = i - 1
          /\ ~ (i - 1 < f) /\ (i - 1) + 1 = i
      BY <1>1, <1>3, <2>1, <2>3
    <3>2. new[i - 1] = chain[i]
      BY <1>2, <3>1
    <3> QED
      BY <1>5, <2>1, <3>1, <3>2
  <2> QED
    BY <2>2, <2>3
<1>9. \A j \in Q : \E i \in P : i # f /\ moved(i) = j
  <2> SUFFICES ASSUME NEW j \in Q PROVE \E i \in P : i # f /\ moved(i) = j
    OBVIOUS
  <2>1. j \in 1..(Len(chain) - 1) /\ new[j].key = key
    BY <1>5
  <2>2. CASE j < f
    <3>1. j \in 1..Len(chain) /\ j # f /\ moved(j) = j
      BY <1>1, <1>3, <2>1, <2>2
    <3>2. new[j] = chain[j]
      BY <1>2, <2>1, <2>2
    <3> QED
      BY <1>4, <2>1, <3>1, <3>2
  <2>3. CASE ~ (j < f)
    <3>1. /\ j + 1 \in 1..Len(chain) /\ j + 1 # f /\ ~ (j + 1 < f)
          /\ (j + 1) - 1 = j
      BY <1>1, <1>3, <2>1, <2>3
    <3>2. new[j] = chain[j + 1] /\ moved(j + 1) = j
      BY <1>2, <2>1, <2>3, <3>1
    <3> QED
      BY <1>4, <2>1, <3>1, <3>2
  <2> QED
    BY <2>2, <2>3
<1>10. \A i, j \in P : i < j /\ i # f /\ j # f => moved(i) < moved(j)
  <2> SUFFICES ASSUME NEW i \in P, NEW j \in P, i < j, i # f, j # f
               PROVE  moved(i) < moved(j)
    OBVIOUS
  <2>1. i \in Int /\ j \in Int /\ f \in Int
    BY <1>1, <1>3
  <2> QED
    BY <2>1
<1> HIDE DEF moved
<1>11. CASE key = k
  <2> DEFINE n == Len(E) - 1
             h == [r \in 1..n |-> moved(Nth(P, r + 1))]
  <2>1. n \in Nat /\ Len(E) = n + 1
    BY <1>1, <1>7, <1>11
  <2>2. \A r \in 1..n : h[r] = moved(Nth(P, r + 1))
    OBVIOUS
  <2> HIDE DEF n, h
  <2>3. \A r \in 1..n : /\ r + 1 \in 1..Len(E) /\ 1 \in 1..Len(E)
                        /\ Nth(P, r + 1) \in P /\ Nth(P, r + 1) # f
    <3> SUFFICES ASSUME NEW r \in 1..n
                 PROVE  /\ r + 1 \in 1..Len(E) /\ 1 \in 1..Len(E)
                        /\ Nth(P, r + 1) \in P /\ Nth(P, r + 1) # f
      OBVIOUS
    <3>1. r + 1 \in 1..Len(E) /\ 1 \in 1..Len(E) /\ 1 < r + 1
      BY <2>1
    <3>2. Nth(P, 1) < Nth(P, r + 1) /\ Nth(P, r + 1) \in P
      BY <1>1, <3>1
    <3>3. Nth(P, 1) \in Nat /\ Nth(P, r + 1) \in Nat
      BY <1>6, <3>1
    <3> QED
      BY <1>7, <1>11, <3>1, <3>2, <3>3
  <2>4. h \in [1..n -> Q]
    <3>1. \A r \in 1..n : moved(Nth(P, r + 1)) \in Q
      BY <1>8, <2>3
    <3> QED
      BY <3>1 DEF h
  <2>5. \A j \in Q : \E r \in 1..n : h[r] = j
    <3> SUFFICES ASSUME NEW j \in Q PROVE \E r \in 1..n : h[r] = j
      OBVIOUS
    <3>1. PICK i \in P : i # f /\ moved(i) = j
      BY <1>9
    <3>2. PICK s \in 1..Len(E) : Nth(P, s) = i
      BY <1>1
    <3>3. s # 1
      BY <1>7, <1>11, <3>1, <3>2
    <3>4. s - 1 \in 1..n /\ (s - 1) + 1 = s
      BY <2>1, <3>3
    <3> QED
      BY <2>2, <3>1, <3>2, <3>4
  <2>6. \A r, s \in 1..n : r < s => h[r] < h[s]
    <3> SUFFICES ASSUME NEW r \in 1..n, NEW s \in 1..n, r < s PROVE h[r] < h[s]
      OBVIOUS
    <3>1. r + 1 \in 1..Len(E) /\ s + 1 \in 1..Len(E) /\ r + 1 < s + 1
      BY <2>3
    <3>2. Nth(P, r + 1) < Nth(P, s + 1)
      BY <1>1, <3>1
    <3> QED
      BY <1>10, <2>2, <2>3, <3>2
  <2>7. /\ EntriesOf(new, key) \in Seq(T) /\ Len(EntriesOf(new, key)) = n
        /\ \A r \in 1..n : EntriesOf(new, key)[r] = new[h[r]]
    <3>1. Numbers(h, n, PlacesOf(new, key))
      BY <2>4, <2>5, <2>6 DEF Q, Numbers
    <3>2. new \in Seq(T)
      BY <1>2
    <3> QED
      BY <2>1, <3>1, <3>2, EntriesNumbered
  <2>8. /\ Tail(E) \in Seq(T) /\ Len(Tail(E)) = n
        /\ \A r \in 1..n : Tail(E)[r] = E[r + 1]
    <3>1. E \in Seq(T) /\ E # <<>>
      BY <1>1, <1>7, <1>11
    <3>2. Len(Tail(E)) = Len(E) - 1
      BY <3>1, HeadTailProperties
    <3> QED
      BY <2>1, <3>1, <3>2, HeadTailProperties DEF n
  <2>9. \A r \in 1..n : EntriesOf(new, key)[r] = Tail(E)[r]
    <3> SUFFICES ASSUME NEW r \in 1..n
                 PROVE  EntriesOf(new, key)[r] = Tail(E)[r]
      OBVIOUS
    <3>1. E[r + 1] = chain[Nth(P, r + 1)]
      BY <1>1, <2>3
    <3>2. new[h[r]] = chain[Nth(P, r + 1)]
      BY <1>8, <2>2, <2>3
    <3> QED
      BY <2>7, <2>8, <3>1, <3>2
  <2>10. EntriesOf(new, key) = Tail(E)
    BY <2>7, <2>8, <2>9, SeqEqual
  <2> QED
    BY <1>11, <2>10 DEF new, E
<1>12. CASE key # k
  <2> DEFINE n == Len(E)
             h == [r \in 1..n |-> moved(Nth(P, r))]
  <2>1. \A i \in P : i # f
    BY <1>3, <1>4, <1>12
  <2>2. \A r \in 1..n : h[r] = moved(Nth(P, r)) /\ Nth(P, r) \in P
    BY <1>1
  <2>3. h \in [1..n -> Q]
    BY <1>8, <2>1, <2>2
  <2> HIDE DEF h
  <2>4. \A j \in Q : \E r \in 1..n : h[r] = j
    BY <1>1, <1>9, <2>2
  <2>5. \A r, s \in 1..n : r < s => h[r] < h[s]
    BY <1>1, <1>10, <2>1, <2>2
  <2>6. /\ EntriesOf(new, key) \in Seq(T) /\ Len(EntriesOf(new, key)) = n
        /\ \A r \in 1..n : EntriesOf(new, key)[r] = new[h[r]]
    <3>1. Numbers(h, n, PlacesOf(new, key))
      BY <2>3, <2>4, <2>5 DEF Q, Numbers
    <3>2. new \in Seq(T) /\ n \in Nat
      BY <1>1, <1>2
    <3> HIDE DEF n
    <3> QED
      BY <3>1, <3>2, EntriesNumbered
  <2>7. \A r \in 1..n : EntriesOf(new, key)[r] = E[r]
    <3> SUFFICES ASSUME NEW r \in 1..n PROVE EntriesOf(new, key)[r] = E[r]
      OBVIOUS
    <3>1. E[r] = chain[Nth(P, r)]
      BY <1>1
    <3>2. new[h[r]] = chain[Nth(P, r)]
      BY <1>8, <2>1, <2>2
    <3> QED
      BY <2>6, <3>1, <3>2
  <2>8. EntriesOf(new, key) = E
    <3>1. E \in Seq(T)
      BY <1>1
    <3> QED
      BY <2>6, <2>7, <3>1, SeqEqual
  <2> QED
    BY <1>12, <2>8 DEF new, E
<1> QED
  BY <1>11, <1>12
=============================================================================
