--------------------------- MODULE XidTableProofs ---------------------------
(***************************************************************************)
(* Proofs about the XID table, for every table size, age limit, set of     *)
(* keys and bound.  IInv is the inductive invariant: types, every entry in *)
(* its bucket, and the exact counter.  The assertion of the cull loop and  *)
(* the validity of its saved pointer follow from it, and so does, with     *)
(* what CommonProofs says of the entries of one key, the refinement of     *)
(* CallMatching.                                                           *)
(***************************************************************************)
EXTENDS XidTable, CommonProofs

IInv ==
    /\ TypeOK
    /\ InItsBucket
    /\ CountExact
    /\ IsFiniteSet(Slots)

\* HASH (nfsrecord.c:111) names a bucket of the table.
LEMMA HashInBuckets == \A k \in Keys : HASH(k) \in Buckets
<1> SUFFICES ASSUME NEW k \in Keys PROVE HASH(k) \in Buckets
  OBVIOUS
<1>1. k.xid \in Nat /\ k.host \in Nat /\ k.port \in Nat
  BY XidTableAssumption DEF Keys
<1>2. \A n \in Nat : n % HASHSIZE \in 0..(HASHSIZE - 1)
  BY XidTableAssumption
<1> DEFINE sum == (k.xid % HASHSIZE) + (k.host % HASHSIZE) + (k.port % HASHSIZE)
<1>3. sum \in Nat
  BY <1>1, <1>2
<1>4. HASH(k) = sum % HASHSIZE
  BY DEF HASH
<1> HIDE DEF sum
<1> QED
  BY <1>2, <1>3, <1>4 DEF Buckets

\* A chain of one more entry adds one place to the table (nfsrecord.c:991).
LEMMA SlotAdded ==
    ASSUME TypeOK, IsFiniteSet(Slots),
           NEW b \in Buckets, NEW chain \in Seq(hash_t),
           Len(chain) = Len(xidHashTable[b]) + 1,
           xidHashTable' = [xidHashTable EXCEPT ![b] = chain]
    PROVE  IsFiniteSet(Slots') /\ Cardinality(Slots') = Cardinality(Slots) + 1
<1> DEFINE s == <<b, Len(chain)>>
<1>1. /\ \A c \in Buckets : xidHashTable[c] \in Seq(hash_t)
      /\ xidHashTable \in [Buckets -> Seq(hash_t)]
  BY DEF TypeOK
<1>2. /\ \A c \in Buckets : DOMAIN xidHashTable[c] = 1..Len(xidHashTable[c])
      /\ \A c \in Buckets : Len(xidHashTable[c]) \in Nat
      /\ DOMAIN chain = 1..Len(chain)
  BY <1>1, LenProperties
<1>3. \A c \in Buckets : xidHashTable'[c] = IF c = b THEN chain ELSE xidHashTable[c]
  BY <1>1
<1>4. \A c \in Buckets : \A i : i \in DOMAIN xidHashTable'[c] <=>
        i \in DOMAIN xidHashTable[c] \/ (c = b /\ i = Len(chain))
  <2>1. \A i : i \in 1..Len(chain) <=> i \in 1..Len(xidHashTable[b]) \/ i = Len(chain)
    BY <1>2
  <2> QED
    BY <1>2, <1>3, <2>1
<1>5. s \notin Slots
  BY <1>2 DEF Slots
<1>6. Slots' = Slots \cup {s}
  <2>1. \A x : x \in Slots <=> \E c \in Buckets : \E i \in DOMAIN xidHashTable[c] : x = <<c, i>>
    BY DEF Slots
  <2>2. \A x : x \in Slots' <=> \E c \in Buckets : \E i \in DOMAIN xidHashTable'[c] : x = <<c, i>>
    BY DEF Slots
  <2> QED
    BY <1>2, <1>4, <2>1, <2>2
<1> QED
  BY <1>5, <1>6, FS_AddElement

\* A chain of one entry less takes one place from the table (nfsrecord.c:958).
LEMMA SlotRemoved ==
    ASSUME TypeOK, IsFiniteSet(Slots),
           NEW b \in Buckets, NEW chain \in Seq(hash_t),
           Len(chain) = Len(xidHashTable[b]) - 1,
           xidHashTable' = [xidHashTable EXCEPT ![b] = chain]
    PROVE  IsFiniteSet(Slots') /\ Cardinality(Slots') = Cardinality(Slots) - 1
<1> DEFINE s == <<b, Len(xidHashTable[b])>>
<1>1. /\ \A c \in Buckets : xidHashTable[c] \in Seq(hash_t)
      /\ xidHashTable \in [Buckets -> Seq(hash_t)]
  BY DEF TypeOK
<1>2. /\ \A c \in Buckets : DOMAIN xidHashTable[c] = 1..Len(xidHashTable[c])
      /\ \A c \in Buckets : Len(xidHashTable[c]) \in Nat
      /\ DOMAIN chain = 1..Len(chain) /\ Len(chain) \in Nat
  BY <1>1, LenProperties
<1>3. \A c \in Buckets : xidHashTable'[c] = IF c = b THEN chain ELSE xidHashTable[c]
  BY <1>1
<1>4. \A c \in Buckets : \A i : i \in DOMAIN xidHashTable'[c] <=>
        i \in DOMAIN xidHashTable[c] /\ ~ (c = b /\ i = Len(xidHashTable[b]))
  <2>1. \A i : i \in 1..Len(chain) <=>
          i \in 1..Len(xidHashTable[b]) /\ i # Len(xidHashTable[b])
    BY <1>2
  <2> QED
    BY <1>2, <1>3, <2>1
<1>5. s \in Slots
  BY <1>2 DEF Slots
<1>6. Slots' = Slots \ {s}
  <2>1. \A x : x \in Slots <=> \E c \in Buckets : \E i \in DOMAIN xidHashTable[c] : x = <<c, i>>
    BY DEF Slots
  <2>2. \A x : x \in Slots' <=> \E c \in Buckets : \E i \in DOMAIN xidHashTable'[c] : x = <<c, i>>
    BY DEF Slots
  <2> QED
    BY <1>2, <1>4, <2>1, <2>2
<1> QED
  BY <1>5, <1>6, FS_RemoveElement

\* The removal shared by the reply and the cull (nfsrecord.c:955-962) keeps
\* every part of the invariant that is about the table alone.
LEMMA RemoveEntryProperties ==
    ASSUME IInv, NEW k \in Keys, Known(k), RemoveEntry(k)
    PROVE  /\ xidHashTable' \in [Buckets -> Seq(hash_t)]
           /\ Len(xidHashTable'[HASH(k)]) = Len(xidHashTable[HASH(k)]) - 1
           /\ xidHashElemCnt' \in Int
           /\ InItsBucket' /\ CountExact' /\ IsFiniteSet(Slots)'
<1> DEFINE b == HASH(k)
           old == xidHashTable[b]
           new == Unlink(old, k)
<1>1. b \in Buckets /\ xidHashTable \in [Buckets -> Seq(hash_t)] /\ old \in Seq(hash_t)
  BY HashInBuckets DEF IInv, TypeOK
<1>2. FirstMatch(old, k) # 0
  BY DEF Known
<1>3. /\ new \in Seq(hash_t)
      /\ Len(new) = Len(old) - 1
      /\ \A i \in 1..(Len(old) - 1) :
            new[i] = old[IF i < FirstMatch(old, k) THEN i ELSE i + 1]
  BY <1>1, <1>2, UnlinkProperties
<1>4. /\ xidHashTable' = [xidHashTable EXCEPT ![b] = new]
      /\ xidHashElemCnt' = xidHashElemCnt - 1
  BY DEF RemoveEntry
<1>5. FirstMatch(old, k) \in 1..Len(old) /\ Len(old) \in Nat
  BY <1>1, <1>2, FirstMatchProperties, LenProperties
<1> HIDE DEF b, old, new
<1>6. IsFiniteSet(Slots') /\ Cardinality(Slots') = Cardinality(Slots) - 1
  BY <1>1, <1>3, <1>4, SlotRemoved DEF IInv, old
<1>7. InItsBucket'
  <2>1. \A i \in DOMAIN new : HASH(new[i].key) = b
    <3>1. DOMAIN new = 1..(Len(old) - 1) /\ DOMAIN old = 1..Len(old)
      BY <1>1, <1>3, LenProperties
    <3>2. \A i \in DOMAIN old : HASH(old[i].key) = b
      BY <1>1 DEF IInv, InItsBucket, old
    <3>3. \A i \in DOMAIN new : \E j \in DOMAIN old : new[i] = old[j]
      BY <1>3, <1>5, <3>1
    <3> QED
      BY <3>2, <3>3
  <2>2. \A c \in Buckets : xidHashTable'[c] = IF c = b THEN new ELSE xidHashTable[c]
    BY <1>1, <1>4
  <2> QED
    BY <2>1, <2>2 DEF IInv, InItsBucket
<1> QED
  BY <1>1, <1>3, <1>4, <1>6, <1>7 DEF IInv, TypeOK, CountExact, b, old

\* In the cull loop the entry looked at is in its own bucket, so that the lookup
\* of its key searches the chain being walked (nfsrecord.c:1012-1015), and
\* finds an entry not after it.
LEMMA CullLookup ==
    ASSUME IInv, Culling
    PROVE  /\ Chain \in Seq(hash_t) /\ cursor \in 1..Len(Chain) /\ Len(Chain) \in Nat
           /\ curr.key \in Keys /\ HASH(curr.key) = CullIndex /\ Known(curr.key)
           /\ FirstMatch(Chain, curr.key) <= cursor
<1>1. CullIndex \in Buckets /\ Chain \in Seq(hash_t)
  BY DEF IInv, TypeOK, Chain
<1>2. DOMAIN Chain = 1..Len(Chain) /\ Len(Chain) \in Nat
  BY <1>1, LenProperties
<1>3. cursor \in 1..Len(Chain) /\ curr \in hash_t
  BY <1>1, <1>2, ElementOfSeq DEF Culling, curr
<1>4. HASH(curr.key) = CullIndex
  BY <1>1, <1>2, <1>3 DEF IInv, InItsBucket, Chain, curr
<1> DEFINE f == FirstMatch(Chain, curr.key)
<1>5. \/ f = 0 /\ \A i \in 1..Len(Chain) : Chain[i].key # curr.key
      \/ /\ f \in 1..Len(Chain)
         /\ \A i \in 1..Len(Chain) : Chain[i].key = curr.key => f <= i
  BY <1>1, FirstMatchProperties
<1>6. f # 0 /\ f <= cursor
  BY <1>2, <1>3, <1>5 DEF curr
<1>7. curr.key \in Keys
  BY <1>3 DEF hash_t
<1> QED
  BY <1>1, <1>2, <1>3, <1>4, <1>6, <1>7 DEF Known, Chain

\* The empty table of the start.
LEMMA InitIInv == Init => IInv
<1> SUFFICES ASSUME Init PROVE IInv
  OBVIOUS
<1>1. /\ \A b \in Buckets : xidHashTable[b] = <<>>
      /\ xidHashTable \in [Buckets -> Seq(hash_t)]
  BY DEF Init
<1>2. Slots = {}
  BY <1>1 DEF Slots
<1>3. IsFiniteSet(Slots) /\ CountExact
  BY <1>2, FS_EmptySet DEF CountExact, Init
<1>4. 0 \in Buckets /\ StartTime \in Times
  BY XidTableAssumption DEF Buckets, Times
<1>5. TypeOK
  BY <1>1, <1>4 DEF TypeOK, Init, Chain
<1> QED
  BY <1>1, <1>3, <1>5 DEF IInv, InItsBucket

\* One step per action: hashInsertXid, the iterations of its cull loop and
\* hashLookupXid each keep the invariant (nfsrecord.c:927-1022).
LEMMA NextIInv == IInv /\ [Next]_vars => IInv'
<1> SUFFICES ASSUME IInv, [Next]_vars PROVE IInv'
  OBVIOUS
<1> USE DEF IInv
<1>1. ASSUME Clock PROVE IInv'
  BY <1>1 DEF Clock, TypeOK, InItsBucket, CountExact, Slots, Chain
<1>2. ASSUME NEW k \in Keys, NEW proc \in Procs, hashInsertXid(k, proc)
      PROVE  IInv'
  <2> DEFINE b == HASH(k)
             old == xidHashTable[b]
             entry == [key |-> k, proc |-> proc, call_time |-> now]
             new == Push(old, entry)
  <2>1. b \in Buckets /\ old \in Seq(hash_t) /\ entry \in hash_t
    BY HashInBuckets DEF TypeOK, hash_t
  <2>2. /\ new \in Seq(hash_t) /\ Len(new) = Len(old) + 1 /\ Len(old) \in Nat
        /\ \A i \in 1..(Len(old) + 1) : new[i] = IF i = 1 THEN entry ELSE old[i - 1]
    <3> HIDE DEF b, old, entry
    <3> QED
      BY <2>1, PushProperties, LenProperties
  <2>3. /\ xidHashTable' = [xidHashTable EXCEPT ![b] = new]
        /\ xidHashElemCnt' = xidHashElemCnt + 1
        /\ cursor' = 1 /\ UNCHANGED <<CullIndex, now, found>>
    BY <1>2 DEF hashInsertXid, Enter, InsertInto
  <2>4. HASH(entry.key) = b
    OBVIOUS
  <2> HIDE DEF b, old, entry, new
  <2>5. IsFiniteSet(Slots') /\ Cardinality(Slots') = Cardinality(Slots) + 1
    BY <2>1, <2>2, <2>3, SlotAdded DEF old
  <2>6. \A c \in Buckets : xidHashTable'[c] = IF c = b THEN new ELSE xidHashTable[c]
    BY <2>1, <2>3 DEF TypeOK
  <2>7. InItsBucket'
    <3>1. DOMAIN new = 1..(Len(old) + 1) /\ DOMAIN old = 1..Len(old)
      BY <2>1, <2>2, LenProperties
    <3>2. \A i \in DOMAIN old : HASH(old[i].key) = b
      BY <2>1 DEF InItsBucket, old
    <3>3. \A i \in DOMAIN new : new[i] = entry \/ \E j \in DOMAIN old : new[i] = old[j]
      BY <2>2, <3>1
    <3>4. \A i \in DOMAIN new : HASH(new[i].key) = b
      BY <2>4, <3>2, <3>3
    <3> QED
      BY <2>6, <3>4 DEF InItsBucket
  <2>8. TypeOK'
    <3>1. xidHashTable' \in [Buckets -> Seq(hash_t)]
      BY <2>2, <2>3 DEF TypeOK
    <3>2. Len(Chain') \in Nat
      BY <3>1, <2>3, LenProperties DEF Chain, TypeOK
    <3> QED
      BY <2>3, <3>1, <3>2 DEF TypeOK
  <2> QED
    BY <2>3, <2>5, <2>7, <2>8 DEF CountExact
<1>3. ASSUME CullOld PROVE IInv'
  <2>1. /\ curr.key \in Keys /\ HASH(curr.key) = CullIndex
        /\ cursor \in 1..Len(Chain) /\ Len(Chain) \in Nat
    BY <1>3, CullLookup DEF CullOld
  <2>2. /\ xidHashTable' \in [Buckets -> Seq(hash_t)]
        /\ Len(xidHashTable'[HASH(curr.key)]) = Len(xidHashTable[HASH(curr.key)]) - 1
        /\ xidHashElemCnt' \in Int
        /\ InItsBucket' /\ CountExact' /\ IsFiniteSet(Slots)'
    BY <1>3, <2>1, RemoveEntryProperties DEF CullOld
  <2>3. UNCHANGED <<CullIndex, cursor, now, found>>
    BY <1>3 DEF CullOld
  <2>4. cursor' \in 0..(Len(Chain') + 1)
    BY <2>1, <2>2, <2>3 DEF Chain
  <2> QED
    BY <2>2, <2>3, <2>4 DEF TypeOK
<1>4. ASSUME CullYoung PROVE IInv'
  <2>1. cursor \in 1..Len(Chain) /\ Len(Chain) \in Nat
    BY <1>4, CullLookup DEF CullYoung
  <2>2. cursor' = cursor + 1
        /\ UNCHANGED <<xidHashTable, xidHashElemCnt, CullIndex, now, found>>
    BY <1>4 DEF CullYoung
  <2> QED
    BY <2>1, <2>2 DEF TypeOK, InItsBucket, CountExact, Slots, Chain
<1>5. ASSUME CullDone PROVE IInv'
  <2>1. CullIndex' \in Buckets
    BY <1>5, XidTableAssumption DEF CullDone, NextBucket, TypeOK, Buckets
  <2>2. cursor' = 0 /\ UNCHANGED <<xidHashTable, xidHashElemCnt, now, found>>
    BY <1>5 DEF CullDone
  <2>3. Len(Chain') \in Nat
    BY <2>1, <2>2, LenProperties DEF Chain, TypeOK
  <2> QED
    BY <2>1, <2>2, <2>3 DEF TypeOK, InItsBucket, CountExact, Slots
<1>6. ASSUME NEW k \in Keys, ReplyMatched(k) PROVE IInv'
  <2>1. /\ xidHashTable' \in [Buckets -> Seq(hash_t)]
        /\ xidHashElemCnt' \in Int
        /\ InItsBucket' /\ CountExact' /\ IsFiniteSet(Slots)'
    BY <1>6, RemoveEntryProperties DEF ReplyMatched
  <2>2. cursor' = 0 /\ UNCHANGED <<CullIndex, now>>
    BY <1>6 DEF ReplyMatched
  <2>3. Len(Chain') \in Nat
    BY <2>1, <2>2, LenProperties DEF Chain, TypeOK
  <2>4. found' \in hash_t
    <3> DEFINE chain == xidHashTable[HASH(k)]
    <3>1. chain \in Seq(hash_t)
      BY HashInBuckets DEF TypeOK
    <3>2. found' = chain[FirstMatch(chain, k)] /\ FirstMatch(chain, k) # 0
      BY <1>6 DEF ReplyMatched, Known
    <3> HIDE DEF chain
    <3>3. FirstMatch(chain, k) \in 1..Len(chain)
      BY <3>1, <3>2, FirstMatchProperties
    <3> QED
      BY <3>1, <3>2, <3>3, ElementOfSeq
  <2> QED
    BY <2>1, <2>2, <2>3, <2>4 DEF TypeOK
<1>7. ASSUME NEW k \in Keys, ReplyUnknown(k) PROVE IInv'
  BY <1>7 DEF ReplyUnknown, TypeOK, InItsBucket, CountExact, Slots, Chain
<1>8. CASE UNCHANGED vars
  BY <1>8 DEF vars, TypeOK, InItsBucket, CountExact, Slots, Chain
<1> QED
  BY <1>1, <1>2, <1>3, <1>4, <1>5, <1>6, <1>7, <1>8 DEF Next, Call, Cull

\* The inductive invariant of the XID table.
THEOREM TableInvariant == Spec => []IInv
  BY InitIInv, NextIInv, PTL DEF Spec

\* Type correctness, with the cull cursor inside the chain it walks.
THEOREM TypeCorrect == Spec => []TypeOK
<1>1. IInv => TypeOK
  BY DEF IInv
<1> QED
  BY <1>1, TableInvariant, PTL

\* A lookup searches the only chain that can hold an entry with its key: hashing
\* is the same when a call is entered and when its reply is looked up
\* (nfsrecord.c:931, 977).
THEOREM KeysInTheirBuckets == Spec => []InItsBucket
<1>1. IInv => InItsBucket
  BY DEF IInv
<1> QED
  BY <1>1, TableInvariant, PTL

\* xidHashElemCnt (nfsrecord.c:115) counts the entries of the table exactly,
\* whatever is inserted, answered and culled.
THEOREM CounterExact == Spec => []CountExact
<1>1. IInv => CountExact
  BY DEF IInv
<1> QED
  BY <1>1, TableInvariant, PTL

\* The assertion in the cull loop (nfsrecord.c:1015) cannot fail.
THEOREM CullAssertHolds == Spec => []CullAssert
<1>1. IInv => CullAssert
  BY CullLookup DEF CullAssert
<1> QED
  BY <1>1, TableInvariant, PTL

\* Behind place c, the chain without an entry at c or before it is the old one moved
\* by one.
LEMMA BehindGap ==
    ASSUME NEW S, NEW old \in Seq(S), NEW new \in Seq(S), NEW c \in 1..Len(old),
           NEW f \in 1..c, Len(new) = Len(old) - 1,
           \A i \in 1..(Len(old) - 1) : new[i] = old[IF i < f THEN i ELSE i + 1]
    PROVE  SubSeq(new, c, Len(new)) = SubSeq(old, c + 1, Len(old))
<1> DEFINE m == Len(old) - c
<1>1. Len(old) \in Nat /\ Len(new) \in Nat /\ c \in Nat /\ f \in Nat /\ m \in Nat
  BY LenProperties
<1>2. /\ \A i \in c..Len(new) : new[i] \in S
      /\ \A i \in (c + 1)..Len(old) : old[i] \in S
  <2>1. ASSUME NEW i \in c..Len(new) PROVE new[i] \in S
    <3>1. i \in 1..Len(new)
      BY <1>1
    <3> QED
      BY <3>1, ElementOfSeq
  <2>2. ASSUME NEW i \in (c + 1)..Len(old) PROVE old[i] \in S
    <3>1. i \in 1..Len(old)
      BY <1>1
    <3> QED
      BY <3>1, ElementOfSeq
  <2> QED
    BY <2>1, <2>2
<1>3. /\ SubSeq(new, c, Len(new)) \in Seq(S)
      /\ Len(SubSeq(new, c, Len(new))) = IF c <= Len(new) THEN Len(new) - c + 1 ELSE 0
      /\ \A i \in 1..(Len(new) - c + 1) : SubSeq(new, c, Len(new))[i] = new[c + i - 1]
  <2>1. c \in Int /\ Len(new) \in Int
    BY <1>1
  <2> QED
    BY <1>2, <2>1, SubSeqProperties
<1>4. /\ SubSeq(old, c + 1, Len(old)) \in Seq(S)
      /\ Len(SubSeq(old, c + 1, Len(old)))
           = IF c + 1 <= Len(old) THEN Len(old) - (c + 1) + 1 ELSE 0
      /\ \A i \in 1..(Len(old) - (c + 1) + 1) :
            SubSeq(old, c + 1, Len(old))[i] = old[(c + 1) + i - 1]
  <2>1. c + 1 \in Int /\ Len(old) \in Int
    BY <1>1
  <2> QED
    BY <1>2, <2>1, SubSeqProperties
<1> DEFINE s == SubSeq(new, c, Len(new))
           t == SubSeq(old, c + 1, Len(old))
<1>5. Len(s) = m /\ Len(t) = m
  BY <1>1, <1>3, <1>4
<1>6. ASSUME NEW i \in 1..m PROVE s[i] = t[i]
  <2>1. /\ i \in 1..(Len(new) - c + 1) /\ i \in 1..(Len(old) - (c + 1) + 1)
        /\ c + i - 1 \in 1..(Len(old) - 1) /\ ~ (c + i - 1 < f)
        /\ (c + i - 1) + 1 = (c + 1) + i - 1
    BY <1>1
  <2>2. s[i] = new[c + i - 1] /\ t[i] = old[(c + 1) + i - 1]
    BY <1>3, <1>4, <2>1
  <2>3. new[c + i - 1] = old[(c + i - 1) + 1]
    BY <2>1
  <2> HIDE DEF s, t
  <2> QED
    BY <2>1, <2>2, <2>3
<1>7. s \in Seq(S) /\ t \in Seq(S)
  BY <1>3, <1>4
<1> HIDE DEF s, t, m
<1>8. Len(s) = Len(t) /\ \A i \in 1..Len(s) : s[i] = t[i]
  BY <1>5, <1>6
<1>9. s = t
  BY <1>7, <1>8, SeqEqual
<1> QED
  BY <1>9 DEF s, t

\* The loop never follows a pointer to an entry it has freed, and looks at each
\* entry of its bucket (nfsrecord.c:1010): the lookup searches the bucket being
\* walked, and what it finds there is at curr or before it.
THEOREM NextPointerValid == Spec => NextSurvives
<1>1. ASSUME IInv, Next, Culling PROVE Ahead(cursor)' = Ahead(cursor + 1)
  <2>1. /\ Chain \in Seq(hash_t) /\ cursor \in 1..Len(Chain) /\ Len(Chain) \in Nat
        /\ curr.key \in Keys /\ HASH(curr.key) = CullIndex /\ Known(curr.key)
        /\ FirstMatch(Chain, curr.key) <= cursor
    BY <1>1, CullLookup
  <2>2. ASSUME CullOld PROVE Ahead(cursor)' = Ahead(cursor + 1)
    <3> DEFINE f == FirstMatch(Chain, curr.key)
               new == Unlink(Chain, curr.key)
    <3>1. f # 0
      BY <2>1 DEF Known, Chain
    <3>2. f \in 1..Len(Chain)
      BY <2>1, <3>1, FirstMatchProperties
    <3>3. /\ new \in Seq(hash_t) /\ Len(new) = Len(Chain) - 1
          /\ \A i \in 1..(Len(Chain) - 1) : new[i] = Chain[IF i < f THEN i ELSE i + 1]
      BY <2>1, <3>1, UnlinkProperties
    <3>4. Chain' = new /\ cursor' = cursor
      <4>1. CullIndex \in Buckets /\ xidHashTable \in [Buckets -> Seq(hash_t)]
        BY <1>1 DEF IInv, TypeOK
      <4>2. xidHashTable' = [xidHashTable EXCEPT ![CullIndex] = new]
            /\ CullIndex' = CullIndex /\ cursor' = cursor
        BY <2>1, <2>2 DEF CullOld, RemoveEntry, Chain
      <4> HIDE DEF new
      <4> QED
        BY <4>1, <4>2 DEF Chain
    <3>5. f \in 1..cursor
      BY <2>1, <3>2
    <3> HIDE DEF f, new
    <3>6. SubSeq(new, cursor, Len(new)) = SubSeq(Chain, cursor + 1, Len(Chain))
      BY <2>1, <3>3, <3>5, BehindGap
    <3> QED
      BY <3>4, <3>6 DEF Ahead
  <2>3. ASSUME CullYoung PROVE Ahead(cursor)' = Ahead(cursor + 1)
    BY <2>3 DEF CullYoung, Ahead, Chain
  <2>4. cursor # 0 /\ ~ (cursor > Len(Chain))
    BY <2>1
  <2> QED
    BY <1>1, <2>2, <2>3, <2>4
       DEF Next, Clock, Call, hashInsertXid, ReplyMatched, ReplyUnknown, Cull, CullDone
<1>2. IInv /\ [Next]_vars => [Culling => Ahead(cursor)' = Ahead(cursor + 1)]_vars
  BY <1>1
<1> QED
  BY <1>2, TableInvariant, PTL DEF Spec, NextSurvives

\* The entries of a key are finitely many.
LEMMA WaitingFinite ==
    ASSUME NEW k \in Keys, TypeOK
    PROVE  /\ IsFiniteSet(Waiting(k)) /\ Cardinality(Waiting(k)) \in Nat
<1>1. xidHashTable[HASH(k)] \in Seq(hash_t)
  BY HashInBuckets DEF TypeOK
<1>2. DOMAIN xidHashTable[HASH(k)] = 1..Len(xidHashTable[HASH(k)])
      /\ Len(xidHashTable[HASH(k)]) \in Nat
  BY <1>1, LenProperties
<1>3. IsFiniteSet(DOMAIN xidHashTable[HASH(k)])
  BY <1>2, FS_Interval
<1> QED
  BY <1>3, FS_Subset, FS_CardinalityType DEF Waiting

\* The removal of an entry of one key leaves the others as many as they were: the
\* place of an entry moves by one at most (nfsrecord.c:958).
LEMMA OthersUntouched ==
    ASSUME IInv, TypeOK', NEW k \in Keys, NEW other \in Keys, other # k,
           Known(k), RemoveEntry(k)
    PROVE  ~ (Cardinality(Waiting(other)') < Cardinality(Waiting(other)))
<1> DEFINE b == HASH(k)
           old == xidHashTable[b]
           new == Unlink(old, k)
           f == FirstMatch(old, k)
<1>1. b \in Buckets /\ HASH(other) \in Buckets /\ old \in Seq(hash_t)
      /\ xidHashTable \in [Buckets -> Seq(hash_t)]
  BY HashInBuckets DEF IInv, TypeOK
<1>2. /\ f \in 1..Len(old) /\ old[f].key = k /\ Len(old) \in Nat
      /\ new \in Seq(hash_t) /\ Len(new) = Len(old) - 1
      /\ \A i \in 1..(Len(old) - 1) : new[i] = old[IF i < f THEN i ELSE i + 1]
  <2>1. f # 0
    BY DEF Known
  <2> HIDE DEF b, old
  <2> QED
    BY <1>1, <2>1, FirstMatchProperties, UnlinkProperties, LenProperties
<1>3. xidHashTable' = [xidHashTable EXCEPT ![b] = new]
  BY DEF RemoveEntry
<1>4. IsFiniteSet(Waiting(other)) /\ Cardinality(Waiting(other)) \in Nat
      /\ IsFiniteSet(Waiting(other)') /\ Cardinality(Waiting(other)') \in Nat
  <2>1. IsFiniteSet(Waiting(other)) /\ Cardinality(Waiting(other)) \in Nat
    BY WaitingFinite DEF IInv
  <2>2. IsFiniteSet(Waiting(other)') /\ Cardinality(Waiting(other)') \in Nat
    <3>1. xidHashTable'[HASH(other)] \in Seq(hash_t)
      BY <1>1 DEF TypeOK
    <3>2. DOMAIN xidHashTable'[HASH(other)] = 1..Len(xidHashTable'[HASH(other)])
          /\ Len(xidHashTable'[HASH(other)]) \in Nat
      BY <3>1, LenProperties
    <3>3. IsFiniteSet(DOMAIN xidHashTable'[HASH(other)])
      BY <3>2, FS_Interval
    <3> QED
      BY <3>3, FS_Subset, FS_CardinalityType DEF Waiting
  <2> QED
    BY <2>1, <2>2
<1> HIDE DEF b, old, new, f
<1>5. CASE HASH(other) # b
  <2>1. xidHashTable'[HASH(other)] = xidHashTable[HASH(other)]
    BY <1>1, <1>3, <1>5
  <2>2. Waiting(other)' = Waiting(other)
    BY <2>1 DEF Waiting
  <2> QED
    BY <1>4, <2>2
<1>6. CASE HASH(other) = b
  <2>1. xidHashTable'[HASH(other)] = new /\ xidHashTable[HASH(other)] = old
    BY <1>1, <1>3, <1>6 DEF old
  <2>2. /\ Waiting(other) = {i \in 1..Len(old) : old[i].key = other}
        /\ Waiting(other)' = {i \in 1..(Len(old) - 1) : new[i].key = other}
    BY <1>1, <1>2, <2>1, LenProperties DEF Waiting
  <2> DEFINE moved == [i \in Waiting(other) |-> IF i < f THEN i ELSE i - 1]
  <2>3. moved \in [Waiting(other) -> Waiting(other)']
    <3> SUFFICES ASSUME NEW i \in Waiting(other)
                 PROVE  (IF i < f THEN i ELSE i - 1) \in Waiting(other)'
      OBVIOUS
    <3>1. i \in 1..Len(old) /\ old[i].key = other /\ i # f
      BY <1>2, <2>2
    <3>2. CASE i < f
      BY <1>2, <2>2, <3>1, <3>2
    <3>3. CASE i > f
      <4>1. i - 1 \in 1..(Len(old) - 1) /\ ~ (i - 1 < f) /\ (i - 1) + 1 = i /\ ~ (i < f)
        BY <1>2, <3>1, <3>3
      <4>2. new[i - 1] = old[i]
        BY <1>2, <4>1
      <4> QED
        BY <2>2, <3>1, <4>1, <4>2
    <3> QED
      BY <1>2, <3>1, <3>2, <3>3
  <2>4. \A i, j \in Waiting(other) : moved[i] = moved[j] => i = j
    <3>1. \A i \in Waiting(other) : i \in Int /\ i # f
      BY <1>2, <2>2
    <3> QED
      BY <1>2, <3>1
  <2>5. moved \in Injection(Waiting(other), Waiting(other)')
    <3> HIDE DEF moved
    <3> QED
      BY <2>3, <2>4 DEF Injection, IsInjective
  <2>6. Cardinality(Waiting(other)) <= Cardinality(Waiting(other)')
    BY <1>4, <2>5, FS_Injection
  <2> QED
    BY <1>4, <2>6
<1> QED
  BY <1>5, <1>6

\* A key loses an entry to the cull only if it has an expired one: a call seen
\* once can be answered for MAX_AGE seconds (nfsrecord.c:1012).
THEOREM FreshCallsKept == Spec => FreshKept
<1> DEFINE Kept == \A k \in Keys :
        /\ cursor # 0 /\ now >= MAX_AGE
        /\ Cardinality(Waiting(k)') < Cardinality(Waiting(k))
        => \E i \in Waiting(k) : Age(xidHashTable[HASH(k)][i]) > MAX_AGE
<1>1. IInv /\ IInv' /\ [Next]_vars => [Kept]_vars
  <2> SUFFICES ASSUME IInv, IInv', Next, NEW k \in Keys, cursor # 0, now >= MAX_AGE,
                      Cardinality(Waiting(k)') < Cardinality(Waiting(k))
               PROVE  \E i \in Waiting(k) : Age(xidHashTable[HASH(k)][i]) > MAX_AGE
    OBVIOUS
  <2>1. CASE UNCHANGED xidHashTable
    <3>1. Waiting(k)' = Waiting(k)
      BY <2>1 DEF Waiting
    <3>2. Cardinality(Waiting(k)) \in Nat
      BY WaitingFinite DEF IInv
    <3> QED
      BY <3>1, <3>2
  <2>2. CASE CullOld
    <3>1. /\ Chain \in Seq(hash_t) /\ cursor \in 1..Len(Chain) /\ curr.key \in Keys
          /\ HASH(curr.key) = CullIndex /\ Known(curr.key)
      BY <2>2, CullLookup DEF CullOld
    <3>2. RemoveEntry(curr.key) /\ Expired(curr)
      BY <2>2 DEF CullOld
    <3>3. curr.key = k
      BY <3>1, <3>2, OthersUntouched DEF IInv
    <3>4. cursor \in Waiting(k) /\ xidHashTable[HASH(k)][cursor] = curr
      BY <3>1, <3>3, LenProperties DEF Waiting, Chain, curr
    <3>5. Age(curr) > MAX_AGE
      <4>1. curr \in hash_t
        BY <3>1, ElementOfSeq DEF curr
      <4>2. curr.call_time \in Int /\ now \in 0..MaxTime
        BY <4>1, XidTableAssumption DEF hash_t, Times, IInv, TypeOK
      <4>3. now - MAX_AGE \in 0..(WORD - 1)
        BY <4>2, XidTableAssumption
      <4>4. (now - MAX_AGE) % WORD = now - MAX_AGE
        BY <4>3, XidTableAssumption
      <4>5. curr.call_time < now - MAX_AGE
        BY <3>2, <4>4 DEF Expired
      <4> QED
        BY <4>2, <4>5, XidTableAssumption DEF Age
    <3> QED
      BY <3>4, <3>5
  <2>3. CullOld \/ UNCHANGED xidHashTable
    BY DEF Next, Cull, CullYoung, CullDone, Clock, Call, hashInsertXid,
       ReplyMatched, ReplyUnknown
  <2> QED
    BY <2>1, <2>2, <2>3
<1> QED
  BY <1>1, TableInvariant, PTL DEF Spec, FreshKept

\* For the other parts of the program hashInsertXid puts one call in front of the
\* pending ones of its key (nfsrecord.c:976-992).
LEMMA EnterPends ==
    ASSUME IInv, NEW k \in Keys, NEW proc \in Procs, Enter(k, proc)
    PROVE  Pending' = [Pending EXCEPT
               ![k] = <<[key |-> k, proc |-> proc, call_time |-> now]>> \o @]
<1> DEFINE b == HASH(k)
           old == xidHashTable[b]
           entry == [key |-> k, proc |-> proc, call_time |-> now]
           new == Push(old, entry)
<1>1. /\ b \in Buckets /\ xidHashTable \in [Buckets -> Seq(hash_t)]
      /\ old \in Seq(hash_t) /\ entry \in hash_t /\ entry.key = k
  BY HashInBuckets DEF IInv, TypeOK, hash_t
<1>2. xidHashTable' = [xidHashTable EXCEPT ![b] = new]
  BY DEF Enter, InsertInto
<1> HIDE DEF b, old, entry, new
<1>3. \A key : EntriesOf(new, key) = IF key = k THEN <<entry>> \o EntriesOf(old, key)
                                                ELSE EntriesOf(old, key)
  <2> SUFFICES ASSUME NEW key
               PROVE  EntriesOf(new, key) =
                        IF key = k THEN <<entry>> \o EntriesOf(old, key)
                                   ELSE EntriesOf(old, key)
    OBVIOUS
  <2>1. EntriesOf(new, key) =
          IF entry.key = key THEN <<entry>> \o EntriesOf(old, key)
                             ELSE EntriesOf(old, key)
    BY <1>1, EntriesPush DEF new
  <2> QED
    BY <1>1, <2>1
<1>4. \A key \in Keys :
         EntriesOf(xidHashTable'[HASH(key)], key) =
           IF key = k THEN <<entry>> \o EntriesOf(xidHashTable[HASH(key)], key)
                      ELSE EntriesOf(xidHashTable[HASH(key)], key)
  <2> SUFFICES ASSUME NEW key \in Keys
               PROVE  EntriesOf(xidHashTable'[HASH(key)], key) =
                        IF key = k THEN <<entry>> \o EntriesOf(xidHashTable[HASH(key)], key)
                                   ELSE EntriesOf(xidHashTable[HASH(key)], key)
    OBVIOUS
  <2>1. HASH(key) \in Buckets
    BY HashInBuckets
  <2>2. CASE HASH(key) = b
    <3>1. xidHashTable'[HASH(key)] = new /\ xidHashTable[HASH(key)] = old
      BY <1>1, <1>2, <2>2 DEF old
    <3> QED
      BY <1>3, <3>1
  <2>3. CASE HASH(key) # b
    <3>1. xidHashTable'[HASH(key)] = xidHashTable[HASH(key)] /\ key # k
      BY <1>1, <1>2, <2>1, <2>3 DEF b
    <3> QED
      BY <3>1
  <2> QED
    BY <2>2, <2>3
<1>5. Pending' = [key \in Keys |-> EntriesOf(xidHashTable'[HASH(key)], key)]
  BY DEF Pending, HASH
<1>6. \A key \in Keys : Pending[key] = EntriesOf(xidHashTable[HASH(key)], key)
  BY DEF Pending
<1>7. Pending = [key \in Keys |-> Pending[key]]
  BY DEF Pending
<1>8. Pending' = [Pending EXCEPT ![k] = <<entry>> \o @]
  BY <1>4, <1>5, <1>6, <1>7
<1> QED
  BY <1>8 DEF entry

\* The lookup takes the newest pending call of its key, and no other one
\* (nfsrecord.c:951-962).
LEMMA RemovePends ==
    ASSUME IInv, NEW k \in Keys, Known(k), RemoveEntry(k)
    PROVE  Pending' = [Pending EXCEPT ![k] = Tail(@)]
<1> DEFINE b == HASH(k)
           old == xidHashTable[b]
           new == Unlink(old, k)
<1>1. /\ b \in Buckets /\ xidHashTable \in [Buckets -> Seq(hash_t)]
      /\ old \in Seq(hash_t) /\ FirstMatch(old, k) # 0
  BY HashInBuckets DEF IInv, TypeOK, Known
<1>2. xidHashTable' = [xidHashTable EXCEPT ![b] = new]
  BY DEF RemoveEntry
<1> HIDE DEF b, old, new
<1>3. \A key : EntriesOf(new, key) = IF key = k THEN Tail(EntriesOf(old, key))
                                                ELSE EntriesOf(old, key)
  BY <1>1, EntriesUnlink DEF new
<1>4. \A key \in Keys :
         EntriesOf(xidHashTable'[HASH(key)], key) =
           IF key = k THEN Tail(EntriesOf(xidHashTable[HASH(key)], key))
                      ELSE EntriesOf(xidHashTable[HASH(key)], key)
  <2> SUFFICES ASSUME NEW key \in Keys
               PROVE  EntriesOf(xidHashTable'[HASH(key)], key) =
                        IF key = k THEN Tail(EntriesOf(xidHashTable[HASH(key)], key))
                                   ELSE EntriesOf(xidHashTable[HASH(key)], key)
    OBVIOUS
  <2>1. HASH(key) \in Buckets
    BY HashInBuckets
  <2>2. CASE HASH(key) = b
    <3>1. xidHashTable'[HASH(key)] = new /\ xidHashTable[HASH(key)] = old
      BY <1>1, <1>2, <2>2 DEF old
    <3> QED
      BY <1>3, <3>1
  <2>3. CASE HASH(key) # b
    <3>1. xidHashTable'[HASH(key)] = xidHashTable[HASH(key)] /\ key # k
      BY <1>1, <1>2, <2>1, <2>3 DEF b
    <3> QED
      BY <3>1
  <2> QED
    BY <2>2, <2>3
<1>5. Pending' = [key \in Keys |-> EntriesOf(xidHashTable'[HASH(key)], key)]
  BY DEF Pending, HASH
<1>6. \A key \in Keys : Pending[key] = EntriesOf(xidHashTable[HASH(key)], key)
  BY DEF Pending
<1>7. Pending = [key \in Keys |-> Pending[key]]
  BY DEF Pending
<1> QED
  BY <1>4, <1>5, <1>6, <1>7

\* What the lookup of a key finds, in the terms of the pending calls.
LEMMA LookupPending ==
    ASSUME IInv, NEW k \in Keys
    PROVE  /\ Known(k) <=> Pending[k] # <<>>
           /\ Known(k) => Head(Pending[k]) =
                xidHashTable[HASH(k)][FirstMatch(xidHashTable[HASH(k)], k)]
<1>1. xidHashTable[HASH(k)] \in Seq(hash_t)
  BY HashInBuckets DEF IInv, TypeOK
<1>2. Pending[k] = EntriesOf(xidHashTable[HASH(k)], k)
  BY DEF Pending
<1> QED
  BY <1>1, <1>2, EntriesFirst DEF Known

\* The cull loop finds something to free only if a pending call of the key it
\* looks up is expired (nfsrecord.c:1012).
LEMMA ExpiredPending ==
    ASSUME IInv, Culling, Expired(curr)
    PROVE  \E i \in DOMAIN Pending[curr.key] : OlderThan(Pending[curr.key][i], now)
<1> DEFINE k == curr.key
           E == EntriesOf(Chain, k)
<1>1. /\ Chain \in Seq(hash_t) /\ cursor \in 1..Len(Chain)
      /\ k \in Keys /\ HASH(k) = CullIndex
  BY CullLookup
<1>2. Pending[k] = E
  BY <1>1 DEF Pending, Chain
<1>3. cursor \in PlacesOf(Chain, k)
  BY <1>1, LenProperties DEF PlacesOf, curr
<1>4. /\ E \in Seq(hash_t)
      /\ E = [r \in 1..Len(E) |-> Chain[Nth(PlacesOf(Chain, k), r)]]
      /\ \A i \in PlacesOf(Chain, k) :
            \E r \in 1..Len(E) : Nth(PlacesOf(Chain, k), r) = i
  BY <1>1, EntriesProperties
<1> HIDE DEF k, E
<1>5. PICK r \in 1..Len(E) : Nth(PlacesOf(Chain, k), r) = cursor
  BY <1>3, <1>4
<1>6. r \in DOMAIN E /\ E[r] = curr
  BY <1>4, <1>5 DEF curr
<1>7. OlderThan(E[r], now)
  BY <1>6 DEF OlderThan, Expired
<1> QED
  BY <1>2, <1>6, <1>7 DEF k

\* The XID table, with its buckets, its chains and its cull loop, implements the
\* matching of replies with calls: a reply is matched with the newest pending
\* call of its key, is unknown only if there is none, and nothing but a reply or
\* the cull of an expired key takes a call away (nfsrecord.c:927-1022).
THEOREM TableImplementsMatching == Spec => MatchingSpec
<1>1. Init => Matching!Init
  <2> SUFFICES ASSUME Init PROVE Matching!Init
    OBVIOUS
  <2>1. \A k \in Keys : xidHashTable[HASH(k)] = <<>>
    BY HashInBuckets DEF Init
  <2>2. Pending = [k \in Keys |-> <<>>]
    BY <2>1, EntriesEmpty DEF Pending
  <2>3. now \in Times /\ found = NoEntry
    BY XidTableAssumption DEF Init, Times
  <2> QED
    BY <2>2, <2>3 DEF Matching!Init
<1>2. IInv /\ [Next]_vars => [Matching!Next]_(Matching!vars)
  <2> SUFFICES ASSUME IInv, [Next]_vars
               PROVE  Matching!Next \/ UNCHANGED <<Pending, now, found>>
    BY DEF Matching!vars
  <2>1. xidHashTable' = xidHashTable => Pending' = Pending
    BY DEF Pending, HASH
  <2>2. CASE Clock
    <3>1. now' \in Times /\ UNCHANGED <<Pending, found>>
      BY <2>1, <2>2 DEF Clock
    <3> QED
      BY <3>1 DEF Matching!Next, Matching!Clock
  <2>3. ASSUME NEW k \in Keys, NEW proc \in Procs, hashInsertXid(k, proc)
        PROVE  Matching!Next
    <3>1. Enter(k, proc) /\ UNCHANGED <<now, found>>
      BY <2>3 DEF hashInsertXid
    <3>2. Pending' = [Pending EXCEPT
              ![k] = <<[key |-> k, proc |-> proc, call_time |-> now]>> \o @]
      BY <3>1, EnterPends
    <3>3. Matching!See(k)
      BY <3>1, <3>2 DEF Matching!See
    <3> QED
      BY <3>3 DEF Matching!Next
  <2>4. ASSUME NEW k \in Keys, ReplyMatched(k) PROVE Matching!Next
    <3>1. /\ Known(k) /\ RemoveEntry(k) /\ UNCHANGED now
          /\ found' = xidHashTable[HASH(k)][FirstMatch(xidHashTable[HASH(k)], k)]
      BY <2>4 DEF ReplyMatched
    <3>2. Pending[k] # <<>> /\ found' = Head(Pending[k])
      BY <3>1, LookupPending
    <3>3. Pending' = [Pending EXCEPT ![k] = Tail(@)]
      BY <3>1, RemovePends
    <3>4. Matching!Answer(k)
      BY <3>1, <3>2, <3>3 DEF Matching!Answer
    <3> QED
      BY <3>4 DEF Matching!Next
  <2>5. ASSUME NEW k \in Keys, ReplyUnknown(k) PROVE Matching!Next
    <3>1. ~ Known(k) /\ found' = NoEntry /\ UNCHANGED <<xidHashTable, now>>
      BY <2>5 DEF ReplyUnknown
    <3>2. Pending[k] = <<>>
      BY <3>1, LookupPending
    <3>3. Matching!Unknown(k)
      BY <2>1, <3>1, <3>2 DEF Matching!Unknown
    <3> QED
      BY <3>3 DEF Matching!Next
  <2>6. CASE CullOld
    <3>1. /\ Culling /\ Expired(curr) /\ Known(curr.key) /\ RemoveEntry(curr.key)
          /\ UNCHANGED <<now, found>>
      BY <2>6 DEF CullOld
    <3>2. curr.key \in Keys
      BY <3>1, CullLookup
    <3>3. Pending' = [Pending EXCEPT ![curr.key] = Tail(@)]
      BY <3>1, <3>2, RemovePends
    <3>4. \E i \in DOMAIN Pending[curr.key] : OlderThan(Pending[curr.key][i], now)
      BY <3>1, ExpiredPending
    <3>5. Matching!Forget(curr.key)
      BY <3>1, <3>3, <3>4 DEF Matching!Forget
    <3> QED
      BY <3>2, <3>5 DEF Matching!Next
  <2>7. CASE CullYoung
    BY <2>1, <2>7 DEF CullYoung
  <2>8. CASE CullDone
    BY <2>1, <2>8 DEF CullDone
  <2>9. CASE UNCHANGED vars
    BY <2>1, <2>9 DEF vars
  <2> QED
    BY <2>2, <2>3, <2>4, <2>5, <2>6, <2>7, <2>8, <2>9 DEF Next, Call, Cull
<1> QED
  BY <1>1, <1>2, TableInvariant, PTL DEF Spec, MatchingSpec, Matching!Spec
=============================================================================
