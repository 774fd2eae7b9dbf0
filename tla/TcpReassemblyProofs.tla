------------------------ MODULE TcpReassemblyProofs ------------------------
(***************************************************************************)
(* Proofs about TCP reassembly, for every table size, every set of streams *)
(* and messages.  Of the memory, whatever the network does: copies stay in *)
(* their buffers, and each malloc'ed buffer has exactly one fragment that  *)
(* owns it.  Of the bytes, when no segment has a record mark inside it:    *)
(* each is where its sequence number says, and a message handed on is a    *)
(* run of the stream.  Of a stream captured whole: every message of a      *)
(* length the code accepts is handed on, with exactly its bytes.           *)
(***************************************************************************)
EXTENDS TcpReassembly, CommonProofs

Unsigneds == 0..(WORD - 1)
Ids == [conn : Conns, nextSeq : Unsigneds]
tcpFragment == [key : Ids, buffer : Buffers, rpc_len : Unsigneds, firstSeq : Unsigneds, time : Nat]
Tables == [Buckets -> Seq(tcpFragment)]
Packets == [conn : Conns, from : Nat, len : Nat, cap : Nat, off : Nat, cnt : Nat]

\* A table with one more fragment, the fragment found for a key, and the table
\* without it.
More(t, e) == [t EXCEPT ![HASH(e.key)] = Push(@, e)]
Taken(t, k) == t[HASH(k)][FirstMatch(t[HASH(k)], k)]
Less(t, k) == [t EXCEPT ![HASH(k)] = Unlink(@, k)]

Members(t) == UNION {{t[b][i] : i \in DOMAIN t[b]} : b \in Buckets}

\* No two places of the table have the same buffer.
Distinct(t) ==
    \A b, c \in Buckets : \A i \in DOMAIN t[b], j \in DOMAIN t[c] :
        t[b][i].buffer = t[c][j].buffer => b = c /\ i = j

\* Each fragment is in the bucket tcpLookup searches for it.
InBuckets(t) == \A b \in Buckets : \A i \in DOMAIN t[b] : HASH(t[b][i].key) = b
-----------------------------------------------------------------------------
\* The parts of the assumption on the constants.
LEMMA Constants ==
    /\ Conns \subseteq Nat
    /\ MARK \in Nat /\ WORD \in Nat \ {0} /\ ISN \in 0..(WORD - 1)
    /\ MAXRPC \in 0..(WORD - 1) /\ HASHSIZE \in Nat \ {0} /\ MaxTime \in 0..(WORD - 1)
    /\ MaxSegment \in 0..(WORD - 1)
    /\ \A x \in Networks : /\ x.conns \subseteq Conns /\ x.paddings \subseteq Nat
                           /\ x.garbage \subseteq 0..(WORD - 1) /\ x.start \in 0..MaxTime
                           /\ x.snaplens \subseteq Nat \ {0}
                           /\ x.lossless => \A s \in x.snaplens : MaxSegment <= s
<1>1. MARK \in Nat
  BY TcpAssumption
<1> QED
  BY <1>1, TcpAssumption, Zenon

\* The record marks are in the order of their positions, with room for each.
LEMMA Marks ==
    /\ MARK \in Nat \ {0} /\ Len(MarkAt) \in Nat \ {0} /\ MarkAt[1] = 0
    /\ \A m \in 1..Len(MarkAt) : MarkAt[m] \in Nat
    /\ \A m, n \in 1..Len(MarkAt) : m < n => MarkAt[m] + MARK <= MarkAt[n]
    /\ StreamEnd \in Nat
    /\ \A m \in MsgNums : /\ m \in 1..Len(MarkAt) /\ m + 1 \in 1..Len(MarkAt)
                          /\ MsgLen(m) \in Nat
                          /\ MarkAt[m] + MARK + MsgLen(m) = MarkAt[m + 1]
<1>1. /\ MARK \in Nat \ {0} /\ MarkAt \in Seq(Nat) /\ Len(MarkAt) > 0 /\ MarkAt[1] = 0
      /\ \A m, n \in 1..Len(MarkAt) : m < n => MarkAt[m] + MARK <= MarkAt[n]
  BY TcpAssumption
<1>2. Len(MarkAt) \in Nat \ {0} /\ \A m \in 1..Len(MarkAt) : MarkAt[m] \in Nat
  BY <1>1, LenProperties, ElementOfSeq
<1>3. \A m \in MsgNums : m \in 1..Len(MarkAt) /\ m + 1 \in 1..Len(MarkAt) /\ m < m + 1
  BY <1>2 DEF MsgNums
<1>4. ASSUME NEW m \in MsgNums
      PROVE  MsgLen(m) \in Nat /\ MarkAt[m] + MARK + MsgLen(m) = MarkAt[m + 1]
  <2>1. MarkAt[m] \in Nat /\ MarkAt[m + 1] \in Nat /\ MarkAt[m] + MARK <= MarkAt[m + 1]
    BY <1>1, <1>2, <1>3
  <2> QED
    BY <1>1, <2>1, SMTT(30) DEF MsgLen
<1> QED
  BY <1>1, <1>2, <1>3, <1>4 DEF StreamEnd

\* HASH (tcp_reassembly.c:21, 43) names a bucket of the table.
LEMMA HashInBuckets == \A k \in Ids : HASH(k) \in Buckets
<1> SUFFICES ASSUME NEW k \in Ids PROVE HASH(k) \in Buckets
  OBVIOUS
<1>1. k.conn \in Nat /\ k.nextSeq \in Nat
  <2>1. k.conn \in Conns /\ k.nextSeq \in 0..(WORD - 1)
    BY DEF Ids, Unsigneds
  <2>2. k.conn \in Nat
    BY <2>1, Constants, Zenon
  <2>3. WORD \in Nat
    BY Constants
  <2> QED
    BY <2>1, <2>2, <2>3
<1>2. \A n \in Nat : n % HASHSIZE \in 0..(HASHSIZE - 1)
  BY Constants
<1> DEFINE sum == (k.nextSeq % HASHSIZE) + (k.conn % HASHSIZE)
<1>3. sum \in Nat
  BY <1>1, <1>2
<1>4. HASH(k) = sum % HASHSIZE
  BY DEF HASH
<1> HIDE DEF sum
<1> QED
  BY <1>2, <1>3, <1>4 DEF Buckets

\* tcpInsert (tcp_reassembly.c:50-58) adds its fragment and keeps the others.
LEMMA Added ==
    ASSUME NEW t \in Tables, InBuckets(t), Distinct(t),
           NEW e \in tcpFragment, \A f \in Members(t) : f.buffer # e.buffer,
           NEW u, u = More(t, e)
    PROVE  /\ u \in Tables /\ InBuckets(u) /\ Distinct(u)
           /\ Members(u) = Members(t) \cup {e}
<1> DEFINE b == HASH(e.key)
           old == t[b]
           new == Push(old, e)
<1>1. b \in Buckets /\ old \in Seq(tcpFragment)
  BY HashInBuckets DEF tcpFragment, Tables
<1>2. /\ new \in Seq(tcpFragment) /\ Len(new) = Len(old) + 1 /\ Len(old) \in Nat
      /\ \A i \in 1..(Len(old) + 1) : new[i] = IF i = 1 THEN e ELSE old[i - 1]
  <2> HIDE DEF b, old
  <2> QED
    BY <1>1, PushProperties, LenProperties
<1>3. u = [t EXCEPT ![b] = new]
  BY DEF More
<1> HIDE DEF b, old, new
<1>4. u \in Tables /\ \A c \in Buckets : u[c] = IF c = b THEN new ELSE t[c]
  BY <1>1, <1>2, <1>3 DEF Tables
<1>5. DOMAIN new = 1..(Len(old) + 1) /\ DOMAIN old = 1..Len(old)
  BY <1>1, <1>2, LenProperties
<1>6. /\ 1 \in DOMAIN new /\ new[1] = e
      /\ \A i \in DOMAIN new : i # 1 => i - 1 \in DOMAIN old /\ new[i] = old[i - 1]
      /\ \A i \in DOMAIN old : i + 1 \in DOMAIN new /\ new[i + 1] = old[i]
  BY <1>2, <1>5
<1>7. InBuckets(u)
  <2>1. \A i \in DOMAIN new : HASH(new[i].key) = b
    BY <1>1, <1>6 DEF InBuckets, old, b
  <2> QED
    BY <1>4, <2>1 DEF InBuckets
<1>8. Distinct(u)
  <2>1. \A c \in Buckets : \A j \in DOMAIN t[c] : t[c][j].buffer # e.buffer
    BY DEF Members
  <2>2. \A i, j \in DOMAIN new : new[i].buffer = new[j].buffer => i = j
    <3>1. \A i, j \in DOMAIN old : old[i].buffer = old[j].buffer => i = j
      BY <1>1 DEF Distinct, old
    <3>2. \A i \in DOMAIN new : i \in Int
      BY <1>5
    <3> QED
      BY <1>1, <1>6, <2>1, <3>1, <3>2 DEF old
  <2>3. ASSUME NEW c \in Buckets, c # b, NEW i \in DOMAIN new, NEW j \in DOMAIN t[c]
        PROVE  new[i].buffer # t[c][j].buffer
    <3>1. CASE i = 1
      BY <1>6, <2>1, <2>3, <3>1
    <3>2. CASE i # 1
      <4>1. i - 1 \in DOMAIN t[b] /\ new[i] = t[b][i - 1]
        BY <1>6, <3>2 DEF old
      <4> QED
        BY <1>1, <2>3, <4>1 DEF Distinct
    <3> QED
      BY <3>1, <3>2
  <2> QED
    BY <1>1, <1>4, <2>2, <2>3 DEF Distinct
<1>9. Members(u) = Members(t) \cup {e}
  <2>1. ASSUME NEW f \in Members(u) PROVE f \in Members(t) \cup {e}
    <3>1. PICK c \in Buckets : \E i \in DOMAIN u[c] : f = u[c][i]
      BY DEF Members
    <3>2. CASE c # b
      BY <1>4, <3>1, <3>2 DEF Members
    <3>3. CASE c = b
      <4>1. PICK i \in DOMAIN new : f = new[i]
        BY <1>1, <1>4, <3>1, <3>3
      <4> QED
        BY <1>1, <1>6, <4>1 DEF Members, old
    <3> QED
      BY <3>2, <3>3
  <2>2. e \in Members(u)
    BY <1>1, <1>4, <1>6 DEF Members
  <2>3. ASSUME NEW f \in Members(t) PROVE f \in Members(u)
    <3>1. PICK c \in Buckets : \E i \in DOMAIN t[c] : f = t[c][i]
      BY DEF Members
    <3>2. CASE c # b
      BY <1>4, <3>1, <3>2 DEF Members
    <3>3. CASE c = b
      <4>1. PICK i \in DOMAIN old : f = old[i]
        BY <3>1, <3>3 DEF old
      <4> QED
        BY <1>1, <1>4, <1>6, <4>1 DEF Members
    <3> QED
      BY <3>2, <3>3
  <2> QED
    BY <2>1, <2>2, <2>3
<1> QED
  BY <1>4, <1>7, <1>8, <1>9

\* tcpLookup (tcp_reassembly.c:21-31) takes out one fragment with the key.
LEMMA Removed ==
    ASSUME NEW t \in Tables, InBuckets(t), Distinct(t),
           NEW k \in Ids, FirstMatch(t[HASH(k)], k) # 0,
           NEW e, e = Taken(t, k),
           NEW u, u = Less(t, k)
    PROVE  /\ u \in Tables /\ InBuckets(u) /\ Distinct(u)
           /\ e \in tcpFragment /\ e \in Members(t) /\ e.key = k
           /\ Members(u) = Members(t) \ {e}
           /\ \A f \in Members(u) : f.buffer # e.buffer
<1> DEFINE b == HASH(k)
           old == t[b]
           new == Unlink(old, k)
           at == FirstMatch(old, k)
<1>1. b \in Buckets /\ old \in Seq(tcpFragment)
  BY HashInBuckets DEF Tables
<1>2. /\ at \in 1..Len(old) /\ old[at].key = k /\ Len(old) \in Nat
      /\ new \in Seq(tcpFragment) /\ Len(new) = Len(old) - 1
      /\ \A i \in 1..(Len(old) - 1) : new[i] = old[IF i < at THEN i ELSE i + 1]
  <2> HIDE DEF b
  <2>1. at # 0
    BY DEF b
  <2> HIDE DEF old
  <2> QED
    BY <1>1, <2>1, FirstMatchProperties, UnlinkProperties, LenProperties
<1>3. u = [t EXCEPT ![b] = new] /\ e = old[at]
  BY DEF Taken, Less
<1> HIDE DEF b, old, new, at
<1>4. u \in Tables /\ \A c \in Buckets : u[c] = IF c = b THEN new ELSE t[c]
  BY <1>1, <1>2, <1>3 DEF Tables
<1>5. DOMAIN new = 1..(Len(old) - 1) /\ DOMAIN old = 1..Len(old)
  BY <1>1, <1>2, LenProperties
<1> DEFINE Old(i) == IF i < at THEN i ELSE i + 1
<1>6. /\ \A i \in DOMAIN new : Old(i) \in DOMAIN old /\ Old(i) # at /\ new[i] = old[Old(i)]
      /\ \A i, j \in DOMAIN new : Old(i) = Old(j) => i = j
      /\ \A j \in DOMAIN old : j # at => \E i \in DOMAIN new : new[i] = old[j]
  <2>1. /\ \A i \in DOMAIN new : Old(i) \in DOMAIN old /\ Old(i) # at /\ new[i] = old[Old(i)]
        /\ \A i, j \in DOMAIN new : Old(i) = Old(j) => i = j
    BY <1>2, <1>5
  <2>2. ASSUME NEW j \in DOMAIN old, j # at PROVE \E i \in DOMAIN new : new[i] = old[j]
    <3>1. CASE j < at
      <4>1. j \in DOMAIN new /\ Old(j) = j
        BY <1>2, <1>5, <3>1
      <4> QED
        BY <2>1, <4>1
    <3>2. CASE at < j
      <4>1. j - 1 \in DOMAIN new /\ Old(j - 1) = j
        BY <1>2, <1>5, <3>2
      <4> HIDE DEF Old
      <4> QED
        BY <2>1, <4>1
    <3> QED
      BY <1>2, <1>5, <2>2, <3>1, <3>2
  <2> QED
    BY <2>1, <2>2
<1> HIDE DEF Old
<1>7. at \in DOMAIN old /\ e = old[at] /\ e.key = k
  BY <1>2, <1>3, <1>5
<1>8. e \in tcpFragment /\ e \in Members(t)
  BY <1>1, <1>2, <1>7, ElementOfSeq DEF Members, old
<1>9. \A i \in DOMAIN old : HASH(old[i].key) = b
  BY <1>1 DEF InBuckets, old
<1>10. InBuckets(u)
  BY <1>4, <1>6, <1>9 DEF InBuckets
<1>11. \A i, j \in DOMAIN old : old[i].buffer = old[j].buffer => i = j
  BY <1>1 DEF Distinct, old
<1>12. \A c \in Buckets : c # b =>
          \A i \in DOMAIN old, j \in DOMAIN t[c] : old[i].buffer # t[c][j].buffer
  BY <1>1 DEF Distinct, old
<1>13. Distinct(u)
  <2>1. \A i, j \in DOMAIN new : new[i].buffer = new[j].buffer => i = j
    BY <1>6, <1>11
  <2>2. \A c \in Buckets : c # b =>
          \A i \in DOMAIN new, j \in DOMAIN t[c] : new[i].buffer # t[c][j].buffer
    BY <1>6, <1>12
  <2> QED
    BY <1>4, <2>1, <2>2 DEF Distinct
<1>14. ASSUME NEW f \in Members(u) PROVE f \in Members(t) /\ f.buffer # e.buffer
  <2>1. PICK c \in Buckets : \E i \in DOMAIN u[c] : f = u[c][i]
    BY DEF Members
  <2>2. CASE c # b
    BY <1>4, <1>7, <1>12, <2>1, <2>2 DEF Members
  <2>3. CASE c = b
    <3>1. PICK i \in DOMAIN new : f = new[i]
      BY <1>1, <1>4, <2>1, <2>3
    <3>2. f = old[Old(i)] /\ Old(i) \in DOMAIN old /\ Old(i) # at
      BY <1>6, <3>1
    <3> QED
      BY <1>1, <1>7, <1>11, <3>2 DEF Members, old
  <2> QED
    BY <2>2, <2>3
<1>15. ASSUME NEW f \in Members(t), f # e PROVE f \in Members(u)
  <2>1. PICK c \in Buckets : \E i \in DOMAIN t[c] : f = t[c][i]
    BY DEF Members
  <2>2. CASE c # b
    BY <1>4, <2>1, <2>2 DEF Members
  <2>3. CASE c = b
    <3>1. PICK j \in DOMAIN old : f = old[j]
      BY <2>1, <2>3 DEF old
    <3>2. j # at
      BY <1>7, <1>15, <3>1
    <3> QED
      BY <1>1, <1>4, <1>6, <3>1, <3>2 DEF Members
  <2> QED
    BY <2>2, <2>3
<1>16. Members(u) = Members(t) \ {e}
  BY <1>14, <1>15
<1> QED
  BY <1>4, <1>7, <1>8, <1>10, <1>13, <1>14, <1>16
-----------------------------------------------------------------------------
Used == {b \in Buffers : memory[b] # Free}

Types ==
    /\ net \in Networks
    /\ tcpHashTable \in Tables
    /\ CullIndex \in Buckets /\ cursor \in Nat
    /\ memory = [b \in Buffers |-> memory[b]]
    /\ pkt = NoPacket \/ pkt \in Packets
    /\ now \in Nat

\* A buffer in use has an owner, which is alone, and knows how long it is.
Memory ==
    /\ InBuckets(tcpHashTable) /\ Distinct(tcpHashTable)
    /\ CopyInBounds
    /\ \A b \in Used : \E f \in Fragments : f.buffer = b
    /\ IsFiniteSet(Used) /\ tcpHashElemCnt = Cardinality(Used)

IInv == Types /\ Memory

\* What is in the chains is a fragment.
LEMMA MembersTyped ==
    ASSUME NEW t \in Tables
    PROVE  \A f \in Members(t) : f \in tcpFragment
<1> SUFFICES ASSUME NEW b \in Buckets, NEW i \in DOMAIN t[b] PROVE t[b][i] \in tcpFragment
  BY DEF Members
<1>1. t[b] \in Seq(tcpFragment)
  BY DEF Tables
<1>2. i \in 1..Len(t[b])
  BY <1>1, LenProperties
<1> QED
  BY <1>1, <1>2, ElementOfSeq

\* The two names of the fragments of the table.
LEMMA FragmentsAreMembers == Fragments = Members(tcpHashTable)
  BY DEF Fragments, Members

\* A buffer of at least one byte is not the free one.
LEMMA Allocated ==
    ASSUME NEW m, NEW len \in Nat \ {0}, DOMAIN m = 0..(len - 1)
    PROVE  m # Free
<1>1. 0 \in DOMAIN m
  OBVIOUS
<1>2. DOMAIN Free = {}
  BY DEF Free
<1> QED
  BY <1>1, <1>2

\* The end of a fragment with its buffer: in the cull loop (tcp_reassembly.c:80-86)
\* and when its message is complete (nfsrecord.c:359-365).
LEMMA ReleaseKept ==
    ASSUME Types, Memory, NEW k \in Ids, Known(k),
           memory' = Release(Found(k).buffer),
           tcpHashTable' = Without(k),
           tcpHashElemCnt' = tcpHashElemCnt - 1
    PROVE  /\ tcpHashTable' \in Tables /\ memory' = [b \in Buffers |-> memory'[b]]
           /\ Memory'
           /\ Found(k) \in Fragments /\ Found(k).key = k
           /\ Fragments' = Fragments \ {Found(k)}
           /\ \A g \in Fragments' : memory'[g.buffer] = memory[g.buffer]
<1> DEFINE e == Found(k)
<1>1. /\ tcpHashTable' \in Tables /\ InBuckets(tcpHashTable') /\ Distinct(tcpHashTable')
      /\ e \in tcpFragment /\ e \in Fragments /\ e.key = k
      /\ Fragments' = Fragments \ {e}
      /\ \A f \in Fragments' : f.buffer # e.buffer
  <2>1. tcpHashTable \in Tables /\ InBuckets(tcpHashTable) /\ Distinct(tcpHashTable)
    BY DEF Types, Memory
  <2>2. /\ FirstMatch(tcpHashTable[HASH(k)], k) # 0
        /\ e = Taken(tcpHashTable, k) /\ tcpHashTable' = Less(tcpHashTable, k)
    BY DEF Known, Found, Without, Taken, Less
  <2>3. Fragments' = Members(tcpHashTable')
    BY DEF Fragments, Members
  <2> HIDE DEF e
  <2>4. /\ tcpHashTable' \in Tables /\ InBuckets(tcpHashTable') /\ Distinct(tcpHashTable')
        /\ e \in tcpFragment /\ e \in Members(tcpHashTable) /\ e.key = k
        /\ Members(tcpHashTable') = Members(tcpHashTable) \ {e}
        /\ \A f \in Members(tcpHashTable') : f.buffer # e.buffer
    BY <2>1, <2>2, Removed
  <2> QED
    BY <2>3, <2>4, FragmentsAreMembers, Zenon
<1> HIDE DEF e
<1>2. e.buffer \in Buffers /\ memory[e.buffer] # Free
  BY <1>1 DEF tcpFragment, Memory, CopyInBounds
<1>3. memory' = [memory EXCEPT ![e.buffer] = Free]
  BY DEF Release, e
<1>4. /\ memory' = [b \in Buffers |-> memory'[b]]
      /\ \A b \in Buffers : memory'[b] = IF b = e.buffer THEN Free ELSE memory[b]
  BY <1>2, <1>3 DEF Types
<1>9. \A f \in Fragments' : /\ f \in Fragments /\ f.buffer \in Buffers
                           /\ memory'[f.buffer] = memory[f.buffer]
  <2>1. \A f \in Fragments' : f \in tcpFragment
    BY <1>1, MembersTyped, FragmentsAreMembers DEF Types
  <2> QED
    BY <1>1, <1>4, <2>1 DEF tcpFragment
<1>5. CopyInBounds'
  BY <1>9 DEF CopyInBounds, Memory, Progress
<1>6. Used' = Used \ {e.buffer}
  BY <1>2, <1>4 DEF Used
<1>7. \A b \in Used' : \E f \in Fragments' : f.buffer = b
  BY <1>1, <1>6 DEF Memory
<1>8. IsFiniteSet(Used') /\ Cardinality(Used') = Cardinality(Used) - 1
  <2>1. e.buffer \in Used
    BY <1>2 DEF Used
  <2> QED
    BY <1>6, <2>1, FS_RemoveElement DEF Memory
<1> QED
  BY <1>1, <1>4, <1>5, <1>7, <1>8, <1>9 DEF Memory, e

\* The arithmetic of u_int32_t on the constants' word.
LEMMA Wraps ==
    /\ \A i \in Int : i % WORD \in Unsigneds
    /\ \A i \in Unsigneds : i % WORD = i
    /\ \A i, j \in Int : (i + (j % WORD)) % WORD = (i + j) % WORD
<1>1. WORD \in Nat \ {0}
  BY Constants
<1> QED
  BY <1>1, Unsigned, Zenon DEF Unsigneds

\* The bounds of a u_int32_t.
LEMMA UnsignedsInt ==
    /\ WORD \in Nat \ {0} /\ MARK \in Nat /\ ISN \in Nat
    /\ \A i \in Unsigneds : i \in Nat /\ i < WORD
<1>1. WORD \in Nat \ {0} /\ MARK \in Nat /\ ISN \in 0..(WORD - 1)
  BY Constants
<1> QED
  BY <1>1 DEF Unsigneds

\* A fragment that is put into the table with a buffer of its own, whose content
\* is written at the same time.
LEMMA InsertKept ==
    ASSUME Types,
           NEW t \in Tables, InBuckets(t), Distinct(t),
           \A f \in Members(t) : /\ Progress(f) < f.rpc_len /\ memory[f.buffer] # Free
                                 /\ DOMAIN memory[f.buffer] = 0..(f.rpc_len - 1),
           NEW e \in tcpFragment, \A f \in Members(t) : f.buffer # e.buffer,
           Progress(e) < e.rpc_len,
           NEW m, DOMAIN m = 0..(e.rpc_len - 1),
           tcpHashTable' = More(t, e),
           memory' = [memory EXCEPT ![e.buffer] = m]
    PROVE  /\ tcpHashTable' \in Tables /\ memory' = [b \in Buffers |-> memory'[b]]
           /\ InBuckets(tcpHashTable') /\ Distinct(tcpHashTable')
           /\ CopyInBounds'
           /\ Fragments' = Members(t) \cup {e}
           /\ Used' = Used \cup {e.buffer}
           /\ memory'[e.buffer] = m
           /\ \A f \in Members(t) : memory'[f.buffer] = memory[f.buffer]
<1>1. /\ tcpHashTable' \in Tables /\ InBuckets(tcpHashTable') /\ Distinct(tcpHashTable')
      /\ Members(tcpHashTable') = Members(t) \cup {e}
  BY Added
<1>2. Fragments' = Members(t) \cup {e}
  BY <1>1 DEF Fragments, Members
<1>3. e.buffer \in Buffers /\ e.rpc_len \in Unsigneds /\ e.firstSeq \in Unsigneds
      /\ e.key.nextSeq \in Unsigneds
  BY DEF tcpFragment, Ids
<1>4. m # Free
  <2>1. e.key.nextSeq - e.firstSeq \in Int
    BY <1>3, UnsignedsInt
  <2>2. Progress(e) \in Nat
    BY <2>1, Wraps, UnsignedsInt DEF Progress
  <2>3. e.rpc_len \in Nat \ {0}
    BY <1>3, <2>2, UnsignedsInt
  <2> QED
    BY <2>3, Allocated
<1>5. /\ memory' = [b \in Buffers |-> memory'[b]]
      /\ \A b \in Buffers : memory'[b] = IF b = e.buffer THEN m ELSE memory[b]
  BY <1>3 DEF Types
<1>6. \A f \in Members(t) : f.buffer \in Buffers
  BY MembersTyped DEF tcpFragment
<1>7. CopyInBounds'
  BY <1>2, <1>3, <1>4, <1>5, <1>6 DEF CopyInBounds, Progress
<1>8. Used' = Used \cup {e.buffer}
  BY <1>3, <1>4, <1>5 DEF Used
<1> QED
  BY <1>1, <1>2, <1>3, <1>5, <1>6, <1>7, <1>8

\* What the loop computes from the headers of a segment.
LEMMA SegmentTypes ==
    ASSUME Types, Looping
    PROVE  /\ pkt \in Packets /\ th_seq \in Unsigneds /\ Key \in Ids
           /\ \A marks \in Int : tcpPayloadLength(marks) \in Unsigneds
           /\ \A rpc_len \in Words : rpc_len \in Nat
<1>1. pkt \in Packets
  BY DEF Types, Looping
<1>2. pkt.conn \in Conns /\ pkt.from \in Nat /\ pkt.len \in Nat
  BY <1>1 DEF Packets
<1>3. th_seq \in Unsigneds
  BY <1>2, Wraps, UnsignedsInt DEF th_seq, SeqNo
<1>4. Key \in Ids
  BY <1>2, <1>3 DEF Key, Ids
<1>5. \A marks \in Int : tcpPayloadLength(marks) \in Unsigneds
  <2>1. \A marks \in Int : pkt.len - MARK * marks \in Int
    BY <1>2, UnsignedsInt
  <2> QED
    BY <2>1, Wraps DEF tcpPayloadLength
<1>6. \A rpc_len \in Words : rpc_len \in Nat
  <2>1. \A i \in MsgNums : MsgLen(i) \in Nat
    BY Marks
  <2>2. net.garbage \subseteq Unsigneds
    BY Constants, Zenon DEF Types, Unsigneds
  <2>3. net.garbage \subseteq Nat
    BY <2>2, UnsignedsInt
  <2> QED
    BY <2>1, <2>3 DEF Words, MarkHere
<1> QED
  BY <1>1, <1>3, <1>4, <1>5, <1>6

\* nfsrecord.c:340-352: a buffer for the whole message with the first segment in it.
LEMMA FirstSegmentKept ==
    ASSUME IInv, NEW rpc_len \in Words, FirstSegment(rpc_len)
    PROVE  /\ tcpHashTable' \in Tables /\ memory' = [b \in Buffers |-> memory'[b]]
           /\ Memory'
           /\ \E e \in tcpFragment :
                /\ Fragments' = Fragments \cup {e}
                /\ e.key = [conn |-> pkt.conn,
                             nextSeq |-> (e.firstSeq + tcpPayloadLength(pkt.cnt)) % WORD]
                /\ e.firstSeq = (th_seq + MARK) % WORD /\ e.rpc_len = rpc_len /\ e.time = now
                /\ Progress(e) = tcpPayloadLength(pkt.cnt)
                /\ memory'[e.buffer] =
                      [i \in 0..(rpc_len - 1) |->
                          IF i < tcpPayloadLength(pkt.cnt) THEN Byte(pkt.off + MARK + i) ELSE Junk]
                /\ \A g \in Fragments : memory'[g.buffer] = memory[g.buffer]
<1> USE DEF IInv
<1>1. /\ pkt \in Packets /\ th_seq \in Unsigneds /\ rpc_len \in Nat
      /\ tcpPayloadLength(pkt.cnt) \in Unsigneds
  <2>1. Looping
    BY DEF FirstSegment
  <2> QED
    BY <2>1, SegmentTypes DEF Packets
<1> DEFINE copied == tcpPayloadLength(pkt.cnt)
           seq == (th_seq + MARK) % WORD
           id == [conn |-> pkt.conn, nextSeq |-> (seq + copied) % WORD]
<1>2. PICK b \in Buffers :
        /\ memory[b] = Free
        /\ memory' = [memory EXCEPT ![b] =
                [i \in 0..(rpc_len - 1) |->
                    IF i < copied THEN Byte(pkt.off + MARK + i) ELSE Junk]]
        /\ tcpInsert(tcpHashTable, id, b, rpc_len, seq)
  BY DEF FirstSegment
<1> DEFINE e == [key |-> id, buffer |-> b, rpc_len |-> rpc_len, firstSeq |-> seq, time |-> now]
           m == [i \in 0..(rpc_len - 1) |->
                    IF i < copied THEN Byte(pkt.off + MARK + i) ELSE Junk]
<1>3. rpc_len > copied /\ rpc_len <= MAXRPC /\ tcpHashElemCnt' = tcpHashElemCnt + 1
  BY DEF FirstSegment
<1>4. tcpHashTable' = More(tcpHashTable, e)
  BY <1>2 DEF tcpInsert, More
<1>5. memory' = [memory EXCEPT ![e.buffer] = m] /\ DOMAIN m = 0..(e.rpc_len - 1)
  BY <1>2
<1>6. seq \in Unsigneds /\ id \in Ids /\ rpc_len \in Unsigneds
  <2>1. th_seq + MARK \in Int
    BY <1>1, UnsignedsInt
  <2>2. seq \in Unsigneds
    BY <2>1, Wraps
  <2> HIDE DEF seq, copied
  <2>3. copied \in Unsigneds
    BY <1>1 DEF copied
  <2>4. seq + copied \in Int
    BY <2>2, <2>3, UnsignedsInt
  <2>5. rpc_len \in Unsigneds
    <3>1. MAXRPC \in 0..(WORD - 1)
      BY Constants
    <3> QED
      BY <1>1, <1>3, <3>1, UnsignedsInt DEF Unsigneds
  <2> QED
    BY <1>1, <2>2, <2>4, <2>5, Wraps DEF Ids, Packets
<1>7. e \in tcpFragment
  BY <1>6 DEF tcpFragment, Types
<1>8. Progress(e) = copied
  <2>1. seq \in Unsigneds /\ copied \in Unsigneds
    BY <1>1, <1>6
  <2> HIDE DEF copied, seq
  <2>2. seq \in Int /\ copied \in Int /\ copied \in Unsigneds
    BY <2>1, UnsignedsInt
  <2>3. Progress(e) = ((-seq) + ((seq + copied) % WORD)) % WORD
    <3>1. (seq + copied) % WORD \in Int
      BY <2>2, Wraps, UnsignedsInt
    <3> QED
      BY <2>2, <3>1 DEF Progress
  <2>4. ((-seq) + ((seq + copied) % WORD)) % WORD = ((-seq) + (seq + copied)) % WORD
    BY <2>2, Wraps
  <2>5. (-seq) + (seq + copied) = copied
    BY <2>2
  <2> QED
    BY <2>2, <2>4, <2>5, <2>3, Wraps
<1>9. \A f \in Members(tcpHashTable) :
        /\ Progress(f) < f.rpc_len /\ memory[f.buffer] # Free
        /\ DOMAIN memory[f.buffer] = 0..(f.rpc_len - 1)
  BY FragmentsAreMembers DEF Memory, CopyInBounds
<1>10. \A f \in Members(tcpHashTable) : f.buffer # e.buffer
  BY <1>2, <1>9
<1>11. /\ Progress(e) < e.rpc_len /\ e.buffer = b /\ e.key = id /\ e.firstSeq = seq
       /\ e.rpc_len = rpc_len /\ e.time = now
  BY <1>3, <1>8
<1>12. tcpHashTable \in Tables /\ InBuckets(tcpHashTable) /\ Distinct(tcpHashTable)
  BY DEF Types, Memory
<1> HIDE DEF e, m
<1>13. /\ tcpHashTable' \in Tables /\ memory' = [c \in Buffers |-> memory'[c]]
       /\ InBuckets(tcpHashTable') /\ Distinct(tcpHashTable')
       /\ CopyInBounds'
       /\ Fragments' = Members(tcpHashTable) \cup {e}
       /\ Used' = Used \cup {e.buffer}
       /\ memory'[e.buffer] = m
       /\ \A g \in Members(tcpHashTable) : memory'[g.buffer] = memory[g.buffer]
  BY <1>4, <1>5, <1>7, <1>9, <1>10, <1>11, <1>12, InsertKept
<1>14. IsFiniteSet(Used') /\ Cardinality(Used') = Cardinality(Used) + 1
  <2>1. e.buffer \notin Used
    BY <1>2, <1>11 DEF Used
  <2> QED
    BY <1>13, <2>1, FS_AddElement DEF Memory
<1>15. \A c \in Used' : \E f \in Fragments' : f.buffer = c
  BY <1>13, FragmentsAreMembers DEF Memory
<1>16. Memory'
  BY <1>3, <1>13, <1>14, <1>15 DEF Memory
<1> QED
  BY <1>7, <1>8, <1>11, <1>13, <1>16, FragmentsAreMembers DEF m

\* nfsrecord.c:354-374: the segment goes behind the bytes of its fragment, which
\* stays short of its length and returns to the table under a new key.
LEMMA NextSegmentKept ==
    ASSUME IInv, NextSegment
    PROVE  /\ tcpHashTable' \in Tables /\ memory' = [b \in Buffers |-> memory'[b]]
           /\ Memory'
           /\ \E e \in tcpFragment :
                /\ Fragments' = (Fragments \ {Found(Key)}) \cup {e}
                /\ e.key = [conn |-> pkt.conn,
                            nextSeq |-> (th_seq + tcpPayloadLength(pkt.cnt - 1)) % WORD]
                /\ e.firstSeq = Found(Key).firstSeq /\ e.rpc_len = Found(Key).rpc_len
                /\ e.time = now
                /\ Progress(e) = firstOffset(Found(Key)) + tcpPayloadLength(pkt.cnt - 1)
                /\ Progress(e) = lastOffset(Found(Key))
                /\ memory'[e.buffer] = Filled(Found(Key))
                /\ \A g \in Fragments \ {Found(Key)} : memory'[g.buffer] = memory[g.buffer]
<1> USE DEF IInv
<1> DEFINE f == Found(Key)
           t == Without(Key)
           len == tcpPayloadLength(pkt.cnt - 1)
           id == [conn |-> pkt.conn, nextSeq |-> (th_seq + len) % WORD]
           e == [key |-> id, buffer |-> f.buffer, rpc_len |-> f.rpc_len,
                 firstSeq |-> f.firstSeq, time |-> now]
           m == Filled(f)
<1>1. Looping /\ Known(Key) /\ lastOffset(f) # f.rpc_len
  BY DEF NextSegment
<1>2. /\ pkt \in Packets /\ pkt.conn \in Conns /\ th_seq \in Unsigneds /\ Key \in Ids
      /\ len \in Unsigneds
  <2>1. pkt \in Packets /\ th_seq \in Unsigneds /\ Key \in Ids
        /\ \A marks \in Int : tcpPayloadLength(marks) \in Unsigneds
    BY <1>1, SegmentTypes
  <2>2. pkt.conn \in Conns /\ pkt.cnt - 1 \in Int
    BY <2>1 DEF Packets
  <2> QED
    BY <2>1, <2>2
<1>3. /\ tcpHashTable' = More(t, e) /\ memory' = [memory EXCEPT ![f.buffer] = m]
      /\ tcpHashElemCnt' = tcpHashElemCnt
  BY DEF NextSegment, tcpInsert, More
<1>4. /\ t \in Tables /\ InBuckets(t) /\ Distinct(t)
      /\ f \in tcpFragment /\ f \in Fragments
      /\ Members(t) = Fragments \ {f}
      /\ \A g \in Members(t) : g.buffer # f.buffer
  <2>1. tcpHashTable \in Tables /\ InBuckets(tcpHashTable) /\ Distinct(tcpHashTable)
    BY DEF Types, Memory
  <2>2. /\ FirstMatch(tcpHashTable[HASH(Key)], Key) # 0
        /\ f = Taken(tcpHashTable, Key) /\ t = Less(tcpHashTable, Key)
    BY <1>1 DEF Known, Found, Without, Taken, Less
  <2> HIDE DEF f, t
  <2> QED
    BY <1>2, <2>1, <2>2, Removed, FragmentsAreMembers
<1>5. f.buffer \in Buffers /\ f.rpc_len \in Unsigneds /\ f.firstSeq \in Unsigneds
  BY <1>4 DEF tcpFragment
<1>6. DOMAIN m = 0..(f.rpc_len - 1)
  BY DEF Filled
<1>7. /\ firstOffset(f) + len < f.rpc_len /\ firstOffset(f) \in Unsigneds
      /\ lastOffset(f) = firstOffset(f) + len
  <2>1. th_seq - f.firstSeq \in Int
    BY <1>2, <1>5, UnsignedsInt
  <2>2. firstOffset(f) \in Unsigneds
    BY <2>1, Wraps DEF firstOffset
  <2>3. firstOffset(f) \in Int /\ len \in Int /\ f.rpc_len \in Int
    BY <1>2, <1>5, <2>2, UnsignedsInt
  <2>4. lastOffset(f) = IF firstOffset(f) + len > f.rpc_len THEN f.rpc_len ELSE firstOffset(f) + len
    BY DEF lastOffset
  <2> HIDE DEF f, len
  <2> QED
    BY <1>1, <2>2, <2>3, <2>4
<1>8. id \in Ids
  <2>1. th_seq + len \in Int
    BY <1>2, UnsignedsInt
  <2> QED
    BY <1>2, <2>1, Wraps DEF Ids
<1>9. e \in tcpFragment
  BY <1>5, <1>8 DEF tcpFragment, Types
<1>10. e.buffer = f.buffer /\ e.rpc_len = f.rpc_len /\ e.firstSeq = f.firstSeq
       /\ e.key = id /\ e.key.nextSeq = (th_seq + len) % WORD /\ e.time = now
  OBVIOUS
<1>11. memory[f.buffer] # Free
  BY <1>4 DEF Memory, CopyInBounds
<1> HIDE DEF f, t, len, id, e, m
<1>12. Progress(e) < e.rpc_len /\ Progress(e) = firstOffset(f) + len
  <2> DEFINE first == f.firstSeq
             o == firstOffset(f)
  <2>1. /\ th_seq \in Int /\ len \in Int /\ first \in Int /\ o \in Nat /\ len \in Nat
        /\ f.rpc_len < WORD /\ f.rpc_len \in Int
    BY <1>2, <1>5, <1>7, UnsignedsInt
  <2>2. o = (th_seq - first) % WORD /\ o + len < f.rpc_len
    BY <1>7 DEF firstOffset
  <2>3. Progress(e) = (((th_seq + len) % WORD) - first) % WORD
    BY <1>10 DEF Progress
  <2> HIDE DEF first, o
  <2>4. (th_seq + len) % WORD \in Int
    BY <2>1, Wraps, UnsignedsInt
  <2>5. Progress(e) = ((-first) + ((th_seq + len) % WORD)) % WORD
    BY <2>1, <2>3, <2>4
  <2>6. Progress(e) = ((-first) + (th_seq + len)) % WORD
    BY <2>1, <2>5, Wraps
  <2>7. (len + ((th_seq - first) % WORD)) % WORD = (len + (th_seq - first)) % WORD
    BY <2>1, Wraps
  <2>8. (-first) + (th_seq + len) = len + (th_seq - first)
    BY <2>1
  <2>9. Progress(e) = (len + o) % WORD
    BY <2>2, <2>6, <2>7, <2>8
  <2>10. len + o \in Unsigneds
    BY <2>1, <2>2, UnsignedsInt DEF Unsigneds
  <2>11. Progress(e) = len + o
    BY <2>9, <2>10, Wraps
  <2>12. Progress(e) < e.rpc_len /\ Progress(e) = o + len
    BY <1>10, <2>1, <2>2, <2>11
  <2> QED
    BY <2>12 DEF o
<1>13. \A g \in Members(t) : /\ Progress(g) < g.rpc_len /\ memory[g.buffer] # Free
                             /\ DOMAIN memory[g.buffer] = 0..(g.rpc_len - 1)
  BY <1>4 DEF Memory, CopyInBounds
<1>14. /\ tcpHashTable' \in Tables /\ memory' = [b \in Buffers |-> memory'[b]]
       /\ InBuckets(tcpHashTable') /\ Distinct(tcpHashTable')
       /\ CopyInBounds'
       /\ Fragments' = Members(t) \cup {e}
       /\ Used' = Used \cup {e.buffer}
       /\ memory'[e.buffer] = m
       /\ \A g \in Members(t) : memory'[g.buffer] = memory[g.buffer]
  <2>1. Types /\ memory' = [memory EXCEPT ![e.buffer] = m] /\ DOMAIN m = 0..(e.rpc_len - 1)
        /\ \A g \in Members(t) : g.buffer # e.buffer
    BY <1>3, <1>4, <1>6, <1>10
  <2> QED
    BY <1>3, <1>4, <1>9, <1>12, <1>13, <2>1, InsertKept
<1>15. Used' = Used
  BY <1>5, <1>10, <1>11, <1>14 DEF Used
<1>16. \A c \in Used' : \E g \in Fragments' : g.buffer = c
  BY <1>4, <1>10, <1>14, <1>15 DEF Memory
<1>17. Memory'
  BY <1>3, <1>14, <1>15, <1>16 DEF Memory
<1>18. /\ Fragments' = (Fragments \ {f}) \cup {e} /\ e \in tcpFragment
       /\ \A g \in Fragments \ {f} : memory'[g.buffer] = memory[g.buffer]
       /\ e.key = id /\ e.firstSeq = f.firstSeq /\ e.rpc_len = f.rpc_len /\ e.time = now
       /\ Progress(e) = firstOffset(f) + len /\ Progress(e) = lastOffset(f)
       /\ memory'[e.buffer] = m
  BY <1>4, <1>7, <1>9, <1>10, <1>12, <1>14
<1> QED
  BY <1>14, <1>17, <1>18 DEF f, len, id, m
-----------------------------------------------------------------------------
\* The empty table, and no buffer in use.
LEMMA InitIInv == Init => IInv
<1> SUFFICES ASSUME Init PROVE IInv
  OBVIOUS
<1>1. /\ tcpHashTable = [b \in Buckets |-> <<>>] /\ \A b \in Buckets : tcpHashTable[b] = <<>>
      /\ tcpHashTable \in Tables
  BY DEF Init, Tables
<1>2. Fragments = {} /\ InBuckets(tcpHashTable) /\ Distinct(tcpHashTable)
  BY <1>1 DEF Fragments, InBuckets, Distinct
<1>3. memory = [b \in Buffers |-> memory[b]] /\ Used = {}
  BY DEF Init, Used
<1>4. IsFiniteSet(Used) /\ tcpHashElemCnt = Cardinality(Used)
  BY <1>3, FS_EmptySet DEF Init
<1>5. net \in Networks /\ now \in Nat
  <2>1. net \in Networks /\ now \in 0..MaxTime /\ MaxTime \in Nat
    <3>1. net \in Networks /\ now = net.start
      BY DEF Init
    <3>2. MaxTime \in 0..(WORD - 1) /\ WORD \in Nat
      BY Constants
    <3>3. net.start \in 0..MaxTime
      BY <3>1, Constants, Zenon
    <3> QED
      BY <3>1, <3>2, <3>3
  <2> QED
    BY <2>1
<1>6. 0 \in Buckets
  BY Constants DEF Buckets
<1>7. Types
  BY <1>1, <1>3, <1>5, <1>6 DEF Types, Init
<1> QED
  BY <1>2, <1>3, <1>4, <1>7 DEF IInv, Memory, CopyInBounds

\* The variables besides the table and the memory.
LEMMA OthersKept ==
    ASSUME IInv, [Next]_vars
    PROVE  /\ net' \in Networks /\ CullIndex' \in Buckets /\ cursor' \in Nat
           /\ now' \in Nat /\ (pkt' = NoPacket \/ pkt' \in Packets)
<1> USE DEF IInv, Types
<1>1. net' \in Networks
  BY DEF Next, vars
<1>2. CASE Clock
  BY <1>1, <1>2, Constants DEF Clock, table
<1>3. ASSUME NEW c \in net.conns, Capture(c) PROVE pkt' \in Packets
  <2>1. PICK from \in 0..StreamEnd, l \in 0..MaxSegment, pad \in net.paddings,
             s \in net.snaplens :
            pkt' = [conn |-> c, from |-> from, len |-> l,
                    cap |-> IF l + pad <= s THEN l + pad ELSE s, off |-> 0, cnt |-> 1]
    BY <1>3 DEF Capture
  <2>2. c \in Conns /\ pad \in Nat /\ s \in Nat \ {0}
    BY <2>1, Constants, Zenon
  <2>3. from \in Nat /\ l \in Nat
    OBVIOUS
  <2>4. (IF l + pad <= s THEN l + pad ELSE s) \in Nat
    BY <2>2, <2>3
  <2> QED
    BY <2>1, <2>2, <2>3, <2>4 DEF Packets
<1>4. ASSUME NEW c \in net.conns, Capture(c)
      PROVE  UNCHANGED <<CullIndex, cursor, now>>
  BY <1>4 DEF Capture, table
<1>5. ASSUME NEW rpc_len \in Words, Looping, GoOn(rpc_len)
      PROVE  pkt' = NoPacket \/ pkt' \in Packets
  <2>1. pkt \in Packets /\ rpc_len \in Nat /\ MARK \in Nat
    BY <1>5, SegmentTypes, UnsignedsInt
  <2>2. pkt.off + MARK + rpc_len \in Nat /\ pkt.cnt + 1 \in Nat
    BY <2>1 DEF Packets
  <2> QED
    BY <1>5, <2>1, <2>2 DEF GoOn, Return, Packets
<1>6. ASSUME NEW rpc_len \in Words, Looping, SoleSegment(rpc_len) \/ TooLarge(rpc_len)
      PROVE  /\ UNCHANGED <<CullIndex, cursor, now>>
             /\ pkt' = NoPacket \/ pkt' \in Packets
  BY <1>5, <1>6 DEF SoleSegment, TooLarge, Return, table
<1>7. ASSUME NEW rpc_len \in Words, FirstSegment(rpc_len)
      PROVE  UNCHANGED <<CullIndex, now>> /\ cursor' = 1 /\ pkt' = NoPacket
  BY <1>7 DEF FirstSegment, tcpInsert, Return
<1>8. CASE LastSegment \/ NextSegment
  BY <1>1, <1>8 DEF LastSegment, NextSegment, tcpInsert, Return
<1>9. CASE CullOld \/ CullYoung
  BY <1>1, <1>9 DEF CullOld, CullYoung
<1>10. CASE CullDone
  <2>1. CullIndex' \in Buckets
    BY <1>10, Constants DEF CullDone, NextBucket, Buckets
  <2> QED
    BY <1>1, <1>10, <2>1 DEF CullDone
<1>11. CASE UNCHANGED vars
  BY <1>11 DEF vars
<1> QED
  BY <1>1, <1>2, <1>3, <1>4, <1>6, <1>7, <1>8, <1>9, <1>10, <1>11 DEF Next

\* The fragment the cull loop is at.
LEMMA CurrTyped ==
    ASSUME IInv, Culling
    PROVE  curr \in tcpFragment /\ curr.key \in Ids
<1>1. Chain \in Seq(tcpFragment)
  BY DEF IInv, Types, Tables, Chain
<1>2. cursor \in 1..Len(Chain)
  BY <1>1, LenProperties DEF Culling
<1>3. curr \in tcpFragment
  BY <1>1, <1>2, ElementOfSeq DEF curr
<1> QED
  BY <1>3 DEF tcpFragment

\* One step per path through the loop of processPacket and through the cull loop.
LEMMA NextIInv == IInv /\ [Next]_vars => IInv'
<1> SUFFICES ASSUME IInv, [Next]_vars PROVE IInv'
  OBVIOUS
<1> DEFINE Done == /\ tcpHashTable' \in Tables /\ memory' = [b \in Buffers |-> memory'[b]]
                   /\ Memory'
<1>1. ASSUME UNCHANGED <<tcpHashTable, tcpHashElemCnt, memory>> PROVE Done
  <2>1. Fragments' = Fragments /\ Used' = Used
    BY <1>1 DEF Fragments, Used
  <2>2. CopyInBounds'
    BY <1>1, <2>1 DEF IInv, Memory, CopyInBounds, Progress
  <2> QED
    BY <1>1, <2>1, <2>2 DEF IInv, Types, Memory
<1>2. ASSUME NEW rpc_len \in Words, FirstSegment(rpc_len) PROVE Done
  BY <1>2, FirstSegmentKept
<1>3. ASSUME NextSegment PROVE Done
  BY <1>3, NextSegmentKept
<1>4. ASSUME LastSegment PROVE Done
  <2>1. Known(Key) /\ Key \in Ids
    BY <1>4, SegmentTypes DEF LastSegment, IInv
  <2> QED
    BY <1>4, <2>1, ReleaseKept DEF LastSegment, IInv
<1>5. ASSUME CullOld PROVE Done
  <2>1. curr.key \in Ids
    BY <1>5, CurrTyped DEF CullOld
  <2> QED
    BY <1>5, <2>1, ReleaseKept DEF CullOld, IInv
<1>6. Done
  <2>1. CASE UNCHANGED vars
    BY <1>1, <2>1 DEF vars
  <2>2. CASE Clock \/ (\E c \in net.conns : Capture(c)) \/ CullYoung \/ CullDone
    <3>1. UNCHANGED <<tcpHashTable, tcpHashElemCnt, memory>>
      BY <2>2 DEF Clock, Capture, CullYoung, CullDone, table
    <3> QED
      BY <1>1, <3>1
  <2>3. ASSUME NEW rpc_len \in Words, SoleSegment(rpc_len) \/ TooLarge(rpc_len) PROVE Done
    <3>1. UNCHANGED <<tcpHashTable, tcpHashElemCnt, memory>>
      BY <2>3 DEF SoleSegment, TooLarge, table
    <3> QED
      BY <1>1, <3>1
  <2> HIDE DEF Done
  <2> QED
    BY <1>2, <1>3, <1>4, <1>5, <2>1, <2>2, <2>3 DEF Next
<1> QED
  BY <1>6, OthersKept DEF IInv, Types
-----------------------------------------------------------------------------
\* The places of the table and the buffers in use correspond one to one.
LEMMA OneOwner == IInv => BuffersOwned
<1> SUFFICES ASSUME IInv PROVE BuffersOwned
  OBVIOUS
<1> DEFINE owner == [s \in Slots |-> tcpHashTable[s[1]][s[2]].buffer]
<1>1. \A s \in Slots : /\ s[1] \in Buckets /\ s[2] \in DOMAIN tcpHashTable[s[1]]
                       /\ s = <<s[1], s[2]>>
  BY DEF Slots
<1>2. \A s \in Slots : tcpHashTable[s[1]][s[2]] \in Fragments
  BY <1>1 DEF Fragments
<1>3. \A f \in Fragments : f.buffer \in Used
  <2>1. \A f \in Fragments : f \in tcpFragment /\ memory[f.buffer] # Free
    BY MembersTyped, FragmentsAreMembers DEF IInv, Types, Memory, CopyInBounds
  <2> QED
    BY <2>1 DEF tcpFragment, Used
<1>4. owner \in Injection(Slots, Used)
  <2>1. owner \in [Slots -> Used]
    BY <1>2, <1>3
  <2>2. \A r, s \in Slots : owner[r] = owner[s] => r = s
    BY <1>1 DEF IInv, Memory, Distinct
  <2> HIDE DEF owner
  <2> QED
    BY <2>1, <2>2 DEF Injection, IsInjective
<1>5. owner \in Surjection(Slots, Used)
  <2>1. ASSUME NEW b \in Used PROVE \E s \in Slots : owner[s] = b
    <3>1. PICK f \in Fragments : f.buffer = b
      BY DEF IInv, Memory
    <3>2. PICK c \in Buckets : \E i \in DOMAIN tcpHashTable[c] : f = tcpHashTable[c][i]
      BY DEF Fragments
    <3>3. PICK i \in DOMAIN tcpHashTable[c] : f = tcpHashTable[c][i]
      BY <3>2
    <3>4. <<c, i>> \in Slots
      BY DEF Slots
    <3>5. owner[<<c, i>>] = b
      BY <3>1, <3>3, <3>4
    <3> QED
      BY <3>4, <3>5
  <2>2. owner \in [Slots -> Used]
    BY <1>2, <1>3
  <2> HIDE DEF owner
  <2> QED
    BY <2>1, <2>2 DEF Surjection
<1> HIDE DEF owner
<1>6. Cardinality(Slots) = Cardinality(Used)
  BY <1>4, <1>5, FS_Injection DEF IInv, Memory
<1>7. Used = {f.buffer : f \in Fragments}
  BY <1>3 DEF IInv, Memory, Used
<1> QED
  BY <1>6, <1>7 DEF BuffersOwned, Used, IInv, Memory

\* The inductive invariant of the fragment table and of the memory.
THEOREM FragmentInvariant == Spec => []IInv
  BY InitIInv, NextIInv, PTL DEF Spec

\* memcpy stays in its buffer (nfsrecord.c:341, 358), whatever segments arrive:
\* sequence numbers that wrap around, record marks read from the middle of a
\* message, lengths that have wrapped.
THEOREM CopiesInBounds == Spec => []CopyInBounds
<1>1. IInv => CopyInBounds
  BY DEF IInv, Memory
<1> QED
  BY <1>1, FragmentInvariant, PTL

\* Each malloc'ed buffer has one owner in the table, through every return of
\* processPacket and every cull; tcpHashElemCnt is the number of both.
THEOREM BuffersHaveOneOwner == Spec => []BuffersOwned
  BY OneOwner, FragmentInvariant, PTL
-----------------------------------------------------------------------------
\* Sums of sequence numbers that have wrapped.
LEMMA Sums ==
    /\ \A i \in Int : i % WORD \in Nat
    /\ \A i, j \in Int : ((i % WORD) + j) % WORD = (i + j) % WORD
    /\ \A i, j \in Int : ((i % WORD) - j) % WORD = (i - j) % WORD
    /\ \A i, j \in Int : (j - (i % WORD)) % WORD = (j - i) % WORD
<1> SUFFICES ASSUME NEW i \in Int, NEW j \in Int
             PROVE  /\ i % WORD \in Nat
                    /\ ((i % WORD) + j) % WORD = (i + j) % WORD
                    /\ ((i % WORD) - j) % WORD = (i - j) % WORD
                    /\ (j - (i % WORD)) % WORD = (j - i) % WORD
  BY Zenon
<1> DEFINE r == i % WORD
<1>1. r \in Nat
  BY Wraps, UnsignedsInt
<1>2. (j + r) % WORD = (j + i) % WORD /\ ((-j) + r) % WORD = ((-j) + i) % WORD
  BY Wraps
<1> HIDE DEF r
<1>3. j + r = r + j /\ (-j) + r = r - j /\ j + i = i + j /\ (-j) + i = i - j
  BY <1>1
<1>4. (r + j) % WORD = (i + j) % WORD /\ (r - j) % WORD = (i - j) % WORD
  BY <1>2, <1>3
<1>5. (j - r) % WORD = (j - i) % WORD
  <2>1. (r - i) % WORD = 0
    <3>1. ((-i) + r) % WORD = ((-i) + i) % WORD
      BY Wraps DEF r
    <3>2. (-i) + r = r - i /\ (-i) + i = 0 /\ 0 \in Unsigneds
      BY <1>1, UnsignedsInt DEF Unsigneds
    <3> QED
      BY <3>1, <3>2, Wraps
  <2> DEFINE x == j - r
             d == r - i
  <2>2. x \in Int /\ d \in Int /\ x + d = j - i /\ x + 0 = x
    BY <1>1
  <2>3. (x + (d % WORD)) % WORD = (x + d) % WORD
    BY <2>2, Wraps
  <2> HIDE DEF x, d
  <2>4. d % WORD = 0
    BY <2>1 DEF d
  <2>5. x % WORD = (j - i) % WORD
    BY <2>2, <2>3, <2>4
  <2> QED
    BY <2>5 DEF x
<1> QED
  BY <1>1, <1>4, <1>5 DEF r

\* The positions of a stream's bytes.
Positions == 0..(StreamEnd - 1)

\* The packet in the loop: its first message, or what is behind that message.
Frame ==
    /\ cursor # 0 => pkt = NoPacket
    /\ pkt # NoPacket =>
          /\ pkt.len < WORD /\ Segment(pkt.from, pkt.len)
          /\ CapturedWhole => pkt.len <= pkt.cap
          /\ \/ pkt.cnt = 1 /\ pkt.off = 0
             \/ pkt.cnt = 2 /\ pkt.off = pkt.len /\ ~ Known(Key)

\* A byte of a stream that has a given sequence number, or what was read in its
\* place if frames are cut by the snaplen.
InPlace(byte, number) ==
    /\ Position(byte) \in Positions /\ SeqNo(Position(byte)) = number
    /\ CapturedWhole => byte = Position(byte)

\* The first n bytes of m are in the places of those of a stream from the sequence
\* number seq on.
Exact(m, n, seq) == \A i \in 0..(n - 1) : InPlace(m[i], (seq + i) % WORD)

\* What a buffer holds of its message.
Content == \A f \in Fragments : Exact(memory[f.buffer], Progress(f), f.firstSeq)

\* An aligned segment ends where the message it starts in ends, or before.
LEMMA WithinMessage ==
    ASSUME net.aligned, NEW from \in Nat, NEW len \in Nat, Segment(from, len),
           NEW m \in MsgNums, MarkAt[m] <= from, from < MarkAt[m + 1]
    PROVE  from + len <= MarkAt[m + 1]
<1>1. MarkAt[m + 1] \in Nat /\ m + 1 \in 1..Len(MarkAt) /\ Len(MarkAt) \in Nat
  BY Marks
<1>2. CASE m + 1 \in MsgNums
  <2>1. ~ (MarkAt[m + 1] \in (from + 1)..(from + len - 1))
    BY <1>2 DEF Segment
  <2> QED
    BY <1>1, <2>1
<1>3. CASE m + 1 \notin MsgNums
  <2>1. m + 1 = Len(MarkAt)
    BY <1>1, <1>3 DEF MsgNums
  <2> QED
    BY <2>1 DEF Segment, StreamEnd
<1> QED
  BY <1>2, <1>3

\* What the loop finds at the start of a message.  A record mark that starts an
\* aligned segment is that of a message the segment does not go beyond.
LEMMA FirstBytes ==
    ASSUME IInv, Frame, net.aligned, Looping, ~ Known(Key), NEW rpc_len \in Words
    PROVE  \/ rpc_len = 0 /\ MarkHere = {}
           \/ /\ pkt.cnt = 1 /\ pkt.off = 0 /\ pkt.len >= MARK
              /\ tcpPayloadLength(pkt.cnt) = pkt.len - MARK
              /\ MarkHere # {} => rpc_len >= pkt.len - MARK
<1>1. /\ pkt \in Packets /\ pkt # NoPacket
      /\ pkt.len < WORD /\ Segment(pkt.from, pkt.len)
      /\ (pkt.cnt = 1 /\ pkt.off = 0) \/ (pkt.cnt = 2 /\ pkt.off = pkt.len)
  <2>1. pkt \in Packets /\ pkt # NoPacket
    BY SegmentTypes DEF IInv, Looping
  <2> QED
    BY <2>1 DEF Frame
<1>2. pkt.from \in Nat /\ pkt.len \in Nat /\ pkt.off \in Nat /\ MARK \in Nat \ {0} /\ WORD \in Nat
  BY <1>1, Marks, UnsignedsInt DEF Packets
<1>3. CASE pkt.off >= pkt.len
  <2>1. rpc_len = 0
    BY <1>3 DEF Words
  <2>2. MarkHere = {}
    BY <1>2, <1>3 DEF MarkHere
  <2> QED
    BY <2>1, <2>2
<1>4. CASE ~ (pkt.off >= pkt.len)
  <2>1. pkt.cnt = 1 /\ pkt.off = 0 /\ pkt.len # 0
    BY <1>1, <1>2, <1>4
  <2>2. pkt.len >= MARK
    BY <1>1, <2>1 DEF Segment
  <2>3. tcpPayloadLength(pkt.cnt) = pkt.len - MARK
    <3>1. pkt.len - MARK \in Unsigneds
      BY <1>1, <1>2, <2>2 DEF Unsigneds
    <3>2. pkt.len - MARK * pkt.cnt = pkt.len - MARK
      BY <1>2, <2>1
    <3> QED
      BY <3>1, <3>2, Wraps DEF tcpPayloadLength
  <2>4. ASSUME MarkHere # {} PROVE rpc_len >= pkt.len - MARK
    <3>1. PICK m \in MarkHere : rpc_len = MsgLen(m)
      BY <1>4, <2>4 DEF Words
    <3>2. m \in MsgNums /\ MarkAt[m] = pkt.from
      BY <1>2, <2>1, <3>1 DEF MarkHere
    <3>3. MsgLen(m) \in Nat /\ MarkAt[m] + MARK + MsgLen(m) = MarkAt[m + 1]
      BY <3>2, Marks
    <3>4. pkt.from + pkt.len <= MarkAt[m + 1]
      <4>1. MarkAt[m] <= pkt.from /\ pkt.from < MarkAt[m + 1]
        BY <1>2, <3>2, <3>3
      <4> QED
        BY <1>1, <1>2, <3>2, <4>1, WithinMessage
    <3> QED
      BY <1>2, <3>1, <3>2, <3>3, <3>4
  <2> QED
    BY <2>1, <2>2, <2>3, <2>4
<1> QED
  BY <1>3, <1>4

\* A byte of the payload has the sequence number of its place in the segment.
LEMMA PayloadByte ==
    ASSUME IInv, Frame, Looping, NEW i \in 0..(pkt.len - 1)
    PROVE  /\ Position(Byte(i)) = pkt.from + i
           /\ InPlace(Byte(i), (th_seq + i) % WORD)
<1>1. /\ pkt \in Packets /\ pkt.from + pkt.len <= StreamEnd
      /\ CapturedWhole => pkt.len <= pkt.cap
  BY SegmentTypes DEF IInv, Frame, Looping, Segment
<1>2. pkt.from \in Nat /\ pkt.len \in Nat /\ i \in Nat /\ i < pkt.len /\ StreamEnd \in Nat
      /\ ISN \in Nat /\ pkt.cap \in Nat
  BY <1>1, Marks, UnsignedsInt DEF Packets
<1> DEFINE n == pkt.from + i
<1>3. n \in Nat /\ n \in Positions
  BY <1>1, <1>2 DEF Positions
<1>4. /\ Byte(i) = IF i < pkt.cap THEN n ELSE -2 - n
      /\ CapturedWhole => i < pkt.cap
  BY <1>1, <1>2 DEF Byte, Uncaptured
<1> HIDE DEF n
<1>5. Position(Byte(i)) = n /\ (CapturedWhole => Byte(i) = n)
  <2>1. ~ (n < -1) /\ -2 - n < -1 /\ -2 - (-2 - n) = n
    BY <1>3
  <2> QED
    BY <1>4, <2>1 DEF Position, Junk
<1>6. SeqNo(n) = (th_seq + i) % WORD
  <2> DEFINE a == ISN + pkt.from
  <2>1. a \in Int /\ i \in Int /\ ISN + n = a + i
    BY <1>2 DEF n
  <2> HIDE DEF a
  <2>2. ((a % WORD) + i) % WORD = (a + i) % WORD
    BY <2>1, Sums
  <2> QED
    BY <2>1, <2>2 DEF a, SeqNo, th_seq
<1>7. InPlace(Byte(i), (th_seq + i) % WORD)
  BY <1>3, <1>5, <1>6 DEF InPlace
<1> QED
  BY <1>5, <1>7 DEF n

\* A fragment of the table that waits for this segment: what it is filled with.
LEMMA FilledExact ==
    ASSUME IInv, Frame, Looping, Known(Key), NEW f, f = Found(Key)
    PROVE  /\ f \in Fragments /\ f \in tcpFragment /\ f.key = Key
           /\ tcpPayloadLength(pkt.cnt - 1) = pkt.len
           /\ pkt.off = 0 /\ pkt.cnt = 1
           /\ firstOffset(f) = Progress(f) /\ Progress(f) \in Nat /\ Progress(f) < f.rpc_len
           /\ lastOffset(f) \in Nat
           /\ lastOffset(f) <= f.rpc_len /\ lastOffset(f) <= Progress(f) + pkt.len
           /\ Content => Exact(Filled(f), lastOffset(f), f.firstSeq)
<1>1. /\ pkt \in Packets /\ pkt # NoPacket /\ Key \in Ids /\ th_seq \in Unsigneds
      /\ pkt.len \in Nat /\ pkt.len < WORD /\ MARK \in Nat
  <2>1. pkt \in Packets /\ pkt # NoPacket /\ Key \in Ids /\ th_seq \in Unsigneds /\ MARK \in Nat
    BY SegmentTypes, UnsignedsInt DEF IInv, Looping
  <2> QED
    BY <2>1 DEF Frame, Packets
<1>2. pkt.cnt = 1 /\ pkt.off = 0
  BY <1>1 DEF Frame
<1>3. tcpPayloadLength(pkt.cnt - 1) = pkt.len
  <2>1. pkt.len - MARK * (pkt.cnt - 1) = pkt.len /\ pkt.len \in Unsigneds
    BY <1>1, <1>2, UnsignedsInt DEF Unsigneds
  <2> QED
    BY <2>1, Wraps DEF tcpPayloadLength
<1>4. f \in Fragments /\ f \in tcpFragment /\ f.key = Key
  <2>1. tcpHashTable \in Tables /\ InBuckets(tcpHashTable) /\ Distinct(tcpHashTable)
    BY DEF IInv, Types, Memory
  <2>2. /\ FirstMatch(tcpHashTable[HASH(Key)], Key) # 0
        /\ f = Taken(tcpHashTable, Key)
    BY DEF Known, Found, Taken
  <2> QED
    BY <1>1, <2>1, <2>2, Removed, FragmentsAreMembers
<1>5. firstOffset(f) = Progress(f) /\ Progress(f) \in Nat /\ Progress(f) < f.rpc_len
      /\ f.firstSeq \in Int /\ f.rpc_len \in Nat /\ th_seq \in Int
  <2>1. f.key.nextSeq = th_seq
    BY <1>4 DEF Key
  <2>2. f.firstSeq \in Int /\ th_seq \in Int /\ f.rpc_len \in Nat
    BY <1>1, <1>4, UnsignedsInt DEF tcpFragment
  <2>3. Progress(f) \in Nat
    <3>1. th_seq - f.firstSeq \in Int
      BY <2>2
    <3>2. (th_seq - f.firstSeq) % WORD \in Nat
      BY <3>1, Wraps, UnsignedsInt
    <3> QED
      BY <2>1, <3>2 DEF Progress
  <2> QED
    BY <1>4, <2>1, <2>2, <2>3 DEF firstOffset, Progress, IInv, Memory, CopyInBounds
<1> DEFINE p == Progress(f)
           last == lastOffset(f)
<1>6. last \in Nat /\ last <= f.rpc_len /\ last <= p + pkt.len /\ p \in Nat
  <2>1. last = IF p + pkt.len > f.rpc_len THEN f.rpc_len ELSE p + pkt.len
    BY <1>3, <1>5 DEF lastOffset
  <2> HIDE DEF p, last
  <2>2. p \in Nat
    BY <1>5 DEF p
  <2> QED
    BY <1>1, <1>5, <2>1, <2>2
<1>7. ASSUME Content, NEW i \in 0..(last - 1)
      PROVE  InPlace(Filled(f)[i], (f.firstSeq + i) % WORD)
  <2>1. Filled(f)[i] = IF i \in p..(last - 1) THEN Byte(i - p) ELSE memory[f.buffer][i]
    <3>1. i \in 0..(f.rpc_len - 1) /\ pkt.off + i - p = i - p
      <4> HIDE DEF last, p
      <4> QED
        BY <1>2, <1>5, <1>6
    <3> QED
      BY <1>5, <3>1 DEF Filled
  <2> HIDE DEF last
  <2>2. CASE i < p
    <3>1. Exact(memory[f.buffer], p, f.firstSeq)
      BY <1>4, <1>7 DEF Content
    <3> HIDE DEF p
    <3>2. i \in 0..(p - 1) /\ ~ (i \in p..(last - 1))
      BY <1>6, <2>2
    <3> QED
      BY <2>1, <3>1, <3>2 DEF Exact
  <2>3. CASE i >= p
    <3>1. i \in p..(last - 1) /\ i - p \in 0..(pkt.len - 1) /\ i - p \in Int /\ i \in Int
      <4> HIDE DEF p
      <4> QED
        BY <1>1, <1>6, <2>3
    <3>2. InPlace(Byte(i - p), (th_seq + (i - p)) % WORD)
      BY <3>1, PayloadByte
    <3>3. (th_seq + (i - p)) % WORD = (f.firstSeq + i) % WORD
      <4>1. p = (th_seq - f.firstSeq) % WORD
        BY <1>5 DEF firstOffset
      <4> HIDE DEF p
      <4>2. th_seq + (i - p) = (th_seq + i) - p /\ th_seq + i \in Int
        BY <1>5, <1>6, <3>1
      <4>3. ((th_seq + i) - p) % WORD = (f.firstSeq + i) % WORD
        <5> DEFINE a == th_seq + i
                   b == th_seq - f.firstSeq
        <5>1. a \in Int /\ b \in Int /\ a - b = f.firstSeq + i
          BY <1>5, <3>1
        <5> HIDE DEF a, b
        <5>2. (a - (b % WORD)) % WORD = (a - b) % WORD
          BY <5>1, Sums
        <5>3. p = b % WORD
          BY <4>1 DEF b
        <5>4. (a - p) % WORD = (f.firstSeq + i) % WORD
          BY <5>1, <5>2, <5>3
        <5> QED
          BY <5>4 DEF a
      <4> QED
        BY <4>2, <4>3
    <3> QED
      BY <2>1, <3>1, <3>2, <3>3
  <2>4. i < p \/ i >= p
    <3> HIDE DEF p
    <3> QED
      BY <1>6
  <2> QED
    BY <2>2, <2>3, <2>4
<1> HIDE DEF last
<1> QED
  BY <1>1, <1>2, <1>3, <1>4, <1>5, <1>6, <1>7 DEF Exact, last
\* The loop goes on behind its first message at most once, to find nothing.
LEMMA FrameKept == IInv /\ Frame /\ net.aligned /\ [Next]_vars => Frame'
<1> SUFFICES ASSUME IInv, Frame, net.aligned, [Next]_vars PROVE Frame'
  OBVIOUS
<1>1. net' = net
  BY DEF Next, vars
<1>2. ASSUME pkt' = NoPacket PROVE Frame'
  BY <1>2 DEF Frame
<1>3. CASE Clock
  BY <1>2, <1>3 DEF Clock, Idle
<1>4. ASSUME NEW c \in net.conns, Capture(c) PROVE Frame'
  <2>1. PICK from \in 0..StreamEnd, len \in 0..MaxSegment, pad \in net.paddings,
             s \in net.snaplens :
            /\ Segment(from, len)
            /\ pkt' = [conn |-> c, from |-> from, len |-> len,
                       cap |-> IF len + pad <= s THEN len + pad ELSE s,
                       off |-> 0, cnt |-> 1]
    BY <1>4 DEF Capture
  <2>2. cursor' = 0
    BY <1>4 DEF Capture, Idle, table
  <2>3. len < WORD
    <3>1. MaxSegment \in 0..(WORD - 1) /\ WORD \in Nat
      BY Constants
    <3> QED
      BY <3>1
  <2>4. /\ pkt'.from = from /\ pkt'.len = len /\ pkt'.cnt = 1 /\ pkt'.off = 0
        /\ pkt'.cap = IF len + pad <= s THEN len + pad ELSE s
    BY <2>1
  <2>5. Segment(pkt.from, pkt.len)'
    BY <1>1, <2>1, <2>4 DEF Segment
  <2>6. ASSUME CapturedWhole PROVE len <= (IF len + pad <= s THEN len + pad ELSE s)
    <3>1. net \in Networks
      BY DEF IInv, Types
    <3>2. pad \in Nat /\ s \in Nat \ {0}
      BY <3>1, Constants, Zenon
    <3>3. MaxSegment <= s
      BY <2>6 DEF CapturedWhole
    <3>4. MaxSegment \in Int
      BY Constants
    <3> QED
      BY <3>2, <3>3, <3>4
  <2>7. CapturedWhole' <=> CapturedWhole
    BY <1>1 DEF CapturedWhole
  <2>8. (CapturedWhole => pkt.len <= pkt.cap)'
    BY <2>4, <2>6, <2>7
  <2> QED
    BY <2>2, <2>3, <2>4, <2>5, <2>8 DEF Frame
<1>5. ASSUME NEW rpc_len \in Words, SoleSegment(rpc_len) PROVE Frame'
  <2>1. Looping /\ ~ Known(Key) /\ rpc_len <= tcpPayloadLength(pkt.cnt) /\ GoOn(rpc_len)
    BY <1>5 DEF SoleSegment
  <2>2. CASE Return
    BY <1>2, <2>2 DEF Return
  <2>3. CASE MarkHere # {} /\ pkt' = [pkt EXCEPT !.off = @ + MARK + rpc_len, !.cnt = @ + 1]
    <3>1. /\ pkt.cnt = 1 /\ pkt.off = 0 /\ pkt.len >= MARK
          /\ rpc_len <= pkt.len - MARK /\ rpc_len >= pkt.len - MARK
      <4>1. /\ pkt.cnt = 1 /\ pkt.off = 0 /\ pkt.len >= MARK
            /\ tcpPayloadLength(pkt.cnt) = pkt.len - MARK
            /\ rpc_len >= pkt.len - MARK
        BY <2>1, <2>3, FirstBytes
      <4> QED
        BY <2>1, <4>1
    <3>2. pkt \in Packets /\ rpc_len \in Nat /\ MARK \in Nat /\ pkt # NoPacket
      BY <2>1, SegmentTypes, UnsignedsInt DEF IInv, Looping
    <3>3. pkt.len \in Nat /\ 0 + MARK + rpc_len = pkt.len
      <4>1. pkt.len \in Nat
        BY <3>2 DEF Packets
      <4> QED
        BY <3>1, <3>2, <4>1
    <3>4. /\ pkt'.conn = pkt.conn /\ pkt'.from = pkt.from /\ pkt'.len = pkt.len
          /\ pkt'.cnt = 2 /\ pkt'.off = pkt.len /\ pkt'.cap = pkt.cap
      BY <2>3, <3>1, <3>2, <3>3 DEF Packets
    <3>5. UNCHANGED tcpHashTable /\ cursor' = 0
      BY <1>5 DEF SoleSegment, table, Looping
    <3>6. ~ Known(Key)'
      BY <2>1, <3>4, <3>5 DEF Known, Key, th_seq
    <3>7. Segment(pkt.from, pkt.len)' /\ pkt'.len < WORD
          /\ (CapturedWhole' => pkt'.len <= pkt'.cap)
      BY <1>1, <3>2, <3>4 DEF Segment, Frame, CapturedWhole
    <3> QED
      BY <3>4, <3>5, <3>6, <3>7 DEF Frame
  <2> QED
    BY <2>1, <2>2, <2>3 DEF GoOn
<1>6. ASSUME NEW rpc_len \in Words, TooLarge(rpc_len) \/ FirstSegment(rpc_len) PROVE Frame'
  BY <1>2, <1>6 DEF TooLarge, FirstSegment, Return
<1>7. CASE LastSegment \/ NextSegment
  BY <1>2, <1>7 DEF LastSegment, NextSegment, Return
<1>8. CASE CullOld \/ CullYoung \/ CullDone
  <2>1. cursor # 0 /\ pkt' = pkt
    <3>1. CullIndex \in Buckets /\ tcpHashTable \in Tables /\ cursor \in Nat
      BY DEF IInv, Types
    <3>2. Chain \in Seq(tcpFragment)
      BY <3>1 DEF Chain, Tables
    <3>3. Len(Chain) \in Nat /\ DOMAIN Chain = 1..Len(Chain)
      BY <3>2, LenProperties
    <3> QED
      BY <1>8, <3>1, <3>3 DEF CullOld, CullYoung, CullDone, Culling
  <2> QED
    BY <1>2, <2>1 DEF Frame
<1>9. CASE UNCHANGED vars
  BY <1>9 DEF vars, Frame, Segment, Known, Key, th_seq, CapturedWhole
<1> QED
  BY <1>3, <1>4, <1>5, <1>6, <1>7, <1>8, <1>9 DEF Next

\* What the buffers hold stays true when each fragment of the next state is one
\* of this state, its buffer untouched, or has a buffer with the right bytes.
LEMMA ContentFrame ==
    ASSUME Content, net' = net,
           \A g \in Fragments' :
              \/ g \in Fragments /\ memory'[g.buffer] = memory[g.buffer]
              \/ Exact(memory'[g.buffer], Progress(g), g.firstSeq)
    PROVE  Content'
<1>1. \A m, n, seq : Exact(m, n, seq) => Exact(m, n, seq)'
  BY DEF Exact, InPlace, Position, CapturedWhole, Positions
<1>2. \A g : Progress(g)' = Progress(g)
  BY DEF Progress
<1>3. ASSUME NEW g \in Fragments' PROVE Exact(memory'[g.buffer], Progress(g), g.firstSeq)
  BY DEF Content
<1> QED
  BY <1>1, <1>2, <1>3 DEF Content

\* Each byte that is copied goes where its sequence number says.
LEMMA ContentKept == IInv /\ Frame /\ Content /\ net.aligned /\ [Next]_vars => Content'
<1> SUFFICES ASSUME IInv, Frame, Content, net.aligned, [Next]_vars PROVE Content'
  OBVIOUS
<1>0. net' = net
  BY DEF Next, vars
<1>1. ASSUME UNCHANGED <<tcpHashTable, memory>> PROVE Content'
  <2>1. Fragments' = Fragments
    BY <1>1 DEF Fragments
  <2> QED
    BY <1>0, <1>1, <2>1, ContentFrame
<1>2. CASE \/ Clock \/ (\E c \in net.conns : Capture(c)) \/ CullYoung \/ CullDone
           \/ \E rpc_len \in Words : SoleSegment(rpc_len) \/ TooLarge(rpc_len)
  <2>1. UNCHANGED <<tcpHashTable, memory>>
    BY <1>2 DEF Clock, Capture, CullYoung, CullDone, SoleSegment, TooLarge, table
  <2> QED
    BY <1>1, <2>1
<1>3. ASSUME NEW rpc_len \in Words, FirstSegment(rpc_len) PROVE Content'
  <2>1. Looping /\ ~ Known(Key) /\ rpc_len > tcpPayloadLength(pkt.cnt)
    BY <1>3 DEF FirstSegment
  <2>2. /\ pkt \in Packets /\ th_seq \in Unsigneds /\ rpc_len \in Nat
        /\ pkt.off \in Nat /\ pkt.len \in Nat /\ MARK \in Nat
        /\ tcpPayloadLength(pkt.cnt) \in Nat
    <3>1. pkt \in Packets /\ th_seq \in Unsigneds /\ rpc_len \in Nat /\ MARK \in Nat
          /\ \A marks \in Int : tcpPayloadLength(marks) \in Unsigneds
      BY <2>1, SegmentTypes, UnsignedsInt DEF IInv
    <3>2. pkt.cnt \in Int /\ pkt.off \in Nat /\ pkt.len \in Nat
      BY <3>1 DEF Packets
    <3> QED
      BY <3>1, <3>2, UnsignedsInt
  <2>3. /\ pkt.off = 0 /\ pkt.len >= MARK
        /\ tcpPayloadLength(pkt.cnt) = pkt.len - MARK
    <3>1. rpc_len # 0
      BY <2>1, <2>2
    <3> QED
      BY <2>1, <3>1, FirstBytes
  <2>4. PICK e \in tcpFragment :
                /\ Fragments' = Fragments \cup {e}
                /\ e.firstSeq = (th_seq + MARK) % WORD
                /\ Progress(e) = tcpPayloadLength(pkt.cnt)
                /\ memory'[e.buffer] =
                      [i \in 0..(rpc_len - 1) |->
                          IF i < tcpPayloadLength(pkt.cnt) THEN Byte(pkt.off + MARK + i) ELSE Junk]
                /\ \A g \in Fragments : memory'[g.buffer] = memory[g.buffer]
    BY <1>3, FirstSegmentKept
  <2>5. Exact(memory'[e.buffer], Progress(e), e.firstSeq)
    <3>1. SUFFICES ASSUME NEW i \in 0..(pkt.len - MARK - 1)
                   PROVE  InPlace(memory'[e.buffer][i], (e.firstSeq + i) % WORD)
      BY <2>3, <2>4 DEF Exact
    <3>2. /\ i \in 0..(rpc_len - 1) /\ i < tcpPayloadLength(pkt.cnt) /\ i \in Int
          /\ MARK + i \in 0..(pkt.len - 1) /\ pkt.off + MARK + i = MARK + i
      BY <2>1, <2>2, <2>3
    <3>3. memory'[e.buffer][i] = Byte(MARK + i)
      BY <2>4, <3>2
    <3>4. InPlace(Byte(MARK + i), (th_seq + (MARK + i)) % WORD)
      BY <2>1, <3>2, PayloadByte
    <3>5. (th_seq + (MARK + i)) % WORD = (e.firstSeq + i) % WORD
      <4> DEFINE a == th_seq + MARK
      <4>1. a \in Int /\ th_seq + (MARK + i) = a + i
        BY <2>2, <3>2, UnsignedsInt
      <4> HIDE DEF a
      <4>2. ((a % WORD) + i) % WORD = (a + i) % WORD
        BY <3>2, <4>1, Sums
      <4>3. e.firstSeq = a % WORD
        BY <2>4 DEF a
      <4> QED
        BY <4>1, <4>2, <4>3
    <3> QED
      BY <3>3, <3>4, <3>5
  <2> QED
    BY <1>0, <2>4, <2>5, ContentFrame
<1>4. ASSUME NextSegment PROVE Content'
  <2>1. Looping /\ Known(Key)
    BY <1>4 DEF NextSegment
  <2>2. PICK e \in tcpFragment :
                /\ Fragments' = (Fragments \ {Found(Key)}) \cup {e}
                /\ e.firstSeq = Found(Key).firstSeq
                /\ Progress(e) = lastOffset(Found(Key))
                /\ memory'[e.buffer] = Filled(Found(Key))
                /\ \A g \in Fragments \ {Found(Key)} : memory'[g.buffer] = memory[g.buffer]
    BY <1>4, NextSegmentKept
  <2>3. Exact(Filled(Found(Key)), lastOffset(Found(Key)), Found(Key).firstSeq)
    BY <2>1, FilledExact
  <2>4. Exact(memory'[e.buffer], Progress(e), e.firstSeq)
    BY <2>2, <2>3
  <2> QED
    BY <1>0, <2>2, <2>4, ContentFrame
<1>5. ASSUME NEW k \in Ids, Known(k), memory' = Release(Found(k).buffer),
             tcpHashTable' = Without(k), tcpHashElemCnt' = tcpHashElemCnt - 1
      PROVE  Content'
  <2>1. /\ Fragments' = Fragments \ {Found(k)}
        /\ \A g \in Fragments' : memory'[g.buffer] = memory[g.buffer]
    BY <1>5, ReleaseKept DEF IInv
  <2> QED
    BY <1>0, <2>1, ContentFrame
<1>6. CASE LastSegment
  <2>1. Known(Key) /\ Key \in Ids
    BY <1>6, SegmentTypes DEF LastSegment, IInv
  <2> QED
    BY <1>5, <1>6, <2>1 DEF LastSegment
<1>7. CASE CullOld
  <2>1. curr.key \in Ids
    BY <1>7, CurrTyped DEF CullOld
  <2> QED
    BY <1>5, <1>7, <2>1 DEF CullOld
<1>8. CASE UNCHANGED vars
  BY <1>1, <1>8 DEF vars
<1> QED
  BY <1>2, <1>3, <1>4, <1>6, <1>7, <1>8 DEF Next

\* A run of bytes of one stream, or of what was read in their places.
Run(m) ==
    \A i \in DOMAIN m :
        /\ m[i] # Junk /\ (i > 0 => Position(m[i]) = Position(m[i - 1]) + 1)
        /\ CapturedWhole => m[i] >= 0

\* Within 4 GB a sequence number names one byte of a stream.
LEMMA SeqNoInjective ==
    \A p, q \in Unsigneds : SeqNo(p) = SeqNo(q) => p = q
<1> SUFFICES ASSUME NEW p \in Unsigneds, NEW q \in Unsigneds, SeqNo(p) = SeqNo(q) PROVE p = q
  OBVIOUS
<1>1. ASSUME NEW n \in Unsigneds PROVE (SeqNo(n) - ISN) % WORD = n
  <2> DEFINE a == ISN + n
  <2>1. a \in Int /\ a - ISN = n /\ ISN \in Int
    BY UnsignedsInt
  <2> HIDE DEF a
  <2>2. ((a % WORD) - ISN) % WORD = (a - ISN) % WORD
    BY <2>1, Sums
  <2>3. n % WORD = n
    BY Wraps
  <2>4. ((a % WORD) - ISN) % WORD = n
    BY <2>1, <2>2, <2>3
  <2> QED
    BY <2>4 DEF a, SeqNo
<1> QED
  BY <1>1

\* Bytes in the order of their sequence numbers are a run.
LEMMA ExactRun ==
    ASSUME StreamEnd < WORD, NEW n \in Nat, NEW seq \in Int, NEW m,
           DOMAIN m = 0..(n - 1), Exact(m, n, seq)
    PROVE  Run(m)
<1> SUFFICES ASSUME NEW i \in 0..(n - 1)
             PROVE  /\ m[i] # Junk /\ (i > 0 => Position(m[i]) = Position(m[i - 1]) + 1)
                    /\ CapturedWhole => m[i] >= 0
  BY DEF Run
<1> DEFINE p(j) == Position(m[j])
<1>1. ASSUME NEW j \in 0..(n - 1)
      PROVE  /\ p(j) \in Nat /\ p(j) < StreamEnd /\ SeqNo(p(j)) = (seq + j) % WORD
             /\ CapturedWhole => m[j] = p(j)
  BY Marks DEF Exact, InPlace, Positions
<1>2. m[i] # Junk /\ (CapturedWhole => m[i] >= 0)
  <2>1. Position(Junk) \notin Nat
    BY DEF Position, Junk
  <2> QED
    BY <1>1, <2>1
<1> HIDE DEF p
<1>3. ASSUME i > 0 PROVE p(i) = p(i - 1) + 1
  <2>1. i - 1 \in 0..(n - 1)
    BY <1>3
  <2>2. /\ p(i) \in Nat /\ p(i) < StreamEnd /\ SeqNo(p(i)) = (seq + i) % WORD
        /\ p(i - 1) \in Nat /\ p(i - 1) < StreamEnd /\ SeqNo(p(i - 1)) = (seq + (i - 1)) % WORD
    BY <1>1, <2>1
  <2>3. p(i) \in Unsigneds /\ p(i - 1) + 1 \in Unsigneds
    BY <2>2, Marks, UnsignedsInt DEF Unsigneds
  <2>4. SeqNo(p(i - 1) + 1) = SeqNo(p(i))
    <3> DEFINE a == ISN + p(i - 1)
               b == seq + (i - 1)
    <3>1. a \in Int /\ b \in Int /\ 1 \in Int /\ ISN + (p(i - 1) + 1) = a + 1 /\ seq + i = b + 1
      BY <2>2, UnsignedsInt
    <3>2. a % WORD = b % WORD
      BY <2>2 DEF SeqNo
    <3> HIDE DEF a, b
    <3>3. ((a % WORD) + 1) % WORD = (a + 1) % WORD /\ ((b % WORD) + 1) % WORD = (b + 1) % WORD
      BY <3>1, Sums
    <3>4. (a + 1) % WORD = (b + 1) % WORD
      BY <3>2, <3>3
    <3> QED
      BY <2>2, <3>1, <3>4 DEF SeqNo
  <2> QED
    BY <2>3, <2>4, SeqNoInjective
<1> QED
  BY <1>2, <1>3 DEF p

\* What has been handed on, of each stream.
Delivered == /\ delivered = [c \in Conns |-> delivered[c]]
             /\ \A c \in Conns : Run(delivered[c])

\* Every message handed on is a run, the sole segment's (nfsrecord.c:331) and the
\* buffer's (nfsrecord.c:361).
LEMMA DeliveredKept ==
    ASSUME IInv, Frame, Content, net.aligned, StreamEnd < WORD, Delivered, [Next]_vars
    PROVE  Delivered'
<1>0. \A m : Run(m) => Run(m)'
  <2>1. CapturedWhole' <=> CapturedWhole
    BY DEF Next, vars, CapturedWhole
  <2> QED
    BY <2>1 DEF Run, Position
<1>1. ASSUME UNCHANGED delivered PROVE Delivered'
  BY <1>0, <1>1 DEF Delivered
<1>2. ASSUME NEW m, Run(m), Looping, delivered' = [delivered EXCEPT ![pkt.conn] = m]
      PROVE  Delivered'
  <2>1. /\ delivered' = [c \in Conns |-> delivered'[c]]
        /\ \A c \in Conns : delivered'[c] = m \/ delivered'[c] = delivered[c]
    BY <1>2 DEF Delivered
  <2> QED
    BY <1>0, <1>2, <2>1 DEF Delivered
<1>3. ASSUME NEW rpc_len \in Words, SoleSegment(rpc_len) PROVE Delivered'
  <2> DEFINE D == {j \in 0..(rpc_len - 1) : j < Available}
             m == [i \in D |-> Byte(pkt.off + MARK + i)]
  <2>1. /\ Looping /\ ~ Known(Key) /\ rpc_len <= tcpPayloadLength(pkt.cnt)
        /\ delivered' = [delivered EXCEPT ![pkt.conn] = m]
    BY <1>3 DEF SoleSegment
  <2>2. Run(m)
    <3>1. CASE rpc_len = 0
      <4>1. D = {}
        BY <3>1
      <4> QED
        BY <4>1 DEF Run
    <3>2. CASE rpc_len # 0
      <4>1. pkt.off = 0 /\ pkt.len >= MARK /\ tcpPayloadLength(pkt.cnt) = pkt.len - MARK
        BY <2>1, <3>2, FirstBytes
      <4>2. pkt.from \in Nat /\ pkt.len \in Nat /\ rpc_len \in Nat /\ MARK \in Nat
        <5>1. pkt \in Packets /\ rpc_len \in Nat
          BY <2>1, SegmentTypes DEF IInv
        <5> QED
          BY <5>1, UnsignedsInt DEF Packets
      <4>3. Available \in Int
        <5>1. pkt \in Packets
          BY <2>1, SegmentTypes DEF IInv
        <5>2. pkt.cap - pkt.off - MARK \in Int
          BY <4>2, <5>1 DEF Packets
        <5> QED
          BY <5>2, Wraps, UnsignedsInt DEF Available
      <4>4. ASSUME NEW i \in 0..(rpc_len - 1), i \in D
            PROVE  /\ Position(m[i]) = pkt.from + MARK + i /\ pkt.from + MARK + i \in Nat
                   /\ CapturedWhole => m[i] = Position(m[i])
        <5>1. pkt.off + MARK + i = MARK + i /\ MARK + i \in 0..(pkt.len - 1)
              /\ pkt.from + (MARK + i) = pkt.from + MARK + i
          BY <2>1, <4>1, <4>2
        <5>2. /\ Position(Byte(MARK + i)) = pkt.from + (MARK + i)
              /\ InPlace(Byte(MARK + i), (th_seq + (MARK + i)) % WORD)
          BY <2>1, <5>1, PayloadByte
        <5>3. m[i] = Byte(MARK + i)
          BY <4>4, <5>1
        <5>4. pkt.from + MARK + i \in Nat
          BY <4>2
        <5> QED
          BY <5>1, <5>2, <5>3, <5>4 DEF InPlace
      <4>5. DOMAIN m = D
        OBVIOUS
      <4>6. \A i \in D : i \in 0..(rpc_len - 1) /\ (i > 0 => i - 1 \in 0..(rpc_len - 1) /\ i - 1 \in D)
        BY <4>2, <4>3
      <4> HIDE DEF m, D
      <4>7. ASSUME NEW i \in D
            PROVE  /\ m[i] # Junk /\ (i > 0 => Position(m[i]) = Position(m[i - 1]) + 1)
                   /\ CapturedWhole => m[i] >= 0
        <5>1. i \in 0..(rpc_len - 1) /\ Position(m[i]) = pkt.from + MARK + i
              /\ Position(m[i]) \in Nat /\ (CapturedWhole => m[i] = Position(m[i]))
          BY <4>4, <4>6
        <5>2. m[i] # Junk
          <6>1. Position(Junk) \notin Nat
            BY DEF Position, Junk
          <6> QED
            BY <5>1, <6>1
        <5>3. ASSUME i > 0 PROVE Position(m[i]) = Position(m[i - 1]) + 1
          <6>1. i - 1 \in 0..(rpc_len - 1) /\ i - 1 \in D
            BY <4>6, <5>3
          <6>2. Position(m[i - 1]) = pkt.from + MARK + (i - 1)
            BY <4>4, <6>1
          <6>3. pkt.from + MARK + i = pkt.from + MARK + (i - 1) + 1
            BY <4>2, <5>1
          <6> QED
            BY <5>1, <6>2, <6>3
        <5> QED
          BY <5>1, <5>2, <5>3
      <4> QED
        BY <4>5, <4>7 DEF Run
    <3> QED
      BY <3>1, <3>2
  <2> HIDE DEF m
  <2> QED
    BY <1>2, <2>1, <2>2
<1>4. CASE LastSegment
  <2> DEFINE f == Found(Key)
  <2>1. /\ Looping /\ Known(Key) /\ lastOffset(f) = f.rpc_len
        /\ delivered' = [delivered EXCEPT ![pkt.conn] = Filled(f)]
    BY <1>4 DEF LastSegment
  <2>2. f \in tcpFragment /\ Exact(Filled(f), lastOffset(f), f.firstSeq)
    BY <2>1, FilledExact
  <2>3. DOMAIN Filled(f) = 0..(f.rpc_len - 1)
    BY DEF Filled
  <2>4. f.rpc_len \in Nat /\ f.firstSeq \in Int
    BY <2>2, UnsignedsInt DEF tcpFragment
  <2> HIDE DEF f
  <2>5. Run(Filled(f))
    BY <2>1, <2>2, <2>3, <2>4, ExactRun
  <2> QED
    BY <1>2, <2>1, <2>5
<1>5. CASE \/ Clock \/ (\E c \in net.conns : Capture(c)) \/ NextSegment
           \/ CullOld \/ CullYoung \/ CullDone \/ UNCHANGED vars
           \/ \E rpc_len \in Words : TooLarge(rpc_len) \/ FirstSegment(rpc_len)
  <2>1. UNCHANGED delivered
    BY <1>5 DEF Clock, Capture, NextSegment, CullOld, CullYoung, CullDone, TooLarge,
                FirstSegment, vars
  <2> QED
    BY <1>1, <2>1
<1> QED
  BY <1>3, <1>4, <1>5 DEF Next

LEMMA AlignedInvariant == Spec => [](IInv /\ (net.aligned => Frame /\ Content))
<1> DEFINE Inv == IInv /\ (net.aligned => Frame /\ Content)
<1>1. Init => Inv
  <2> SUFFICES ASSUME Init PROVE Inv
    OBVIOUS
  <2>1. IInv
    BY InitIInv
  <2>2. Frame
    BY DEF Init, Frame
  <2>3. Fragments = {}
    BY DEF Init, Fragments
  <2> QED
    BY <2>1, <2>2, <2>3 DEF Content
<1>2. Inv /\ [Next]_vars => Inv'
  <2> SUFFICES ASSUME Inv, [Next]_vars PROVE Inv'
    OBVIOUS
  <2>1. net' = net
    BY DEF Next, vars
  <2> QED
    BY <2>1, NextIInv, FrameKept, ContentKept
<1> HIDE DEF Inv
<1>3. Spec => []Inv
  BY <1>1, <1>2, PTL DEF Spec
<1> QED
  BY <1>3, PTL DEF Inv

\* The networks of the theorems below: no record mark inside a segment.
Aligned == \A x \in Networks : x.aligned

\* A fragment's firstSeq and its buffer agree (tcp_reassembly.h:11) whatever is
\* lost, repeated, reordered or read as a record mark, when no segment has the
\* record mark of a message inside it.
THEOREM BuffersExact == Aligned => (Spec => []FragmentExact)
<1> SUFFICES ASSUME Aligned PROVE Spec => []FragmentExact
  OBVIOUS
<1>1. IInv /\ (net.aligned => Frame /\ Content) => FragmentExact
  <2>0. ASSUME IInv, net.aligned => Frame /\ Content PROVE Content
    BY <2>0 DEF IInv, Types, Aligned
  <2> SUFFICES ASSUME IInv, Content, NEW f \in Fragments, NEW i \in 0..(Progress(f) - 1),
                      NEW b, b = memory[f.buffer][i]
               PROVE  /\ b # Junk /\ SeqNo(Position(b)) = (f.firstSeq + i) % WORD
                      /\ CapturedWhole => b >= 0
    BY <2>0 DEF FragmentExact
  <2>1. /\ Position(b) \in Positions /\ SeqNo(Position(b)) = (f.firstSeq + i) % WORD
        /\ CapturedWhole => b = Position(b)
    BY DEF Content, Exact, InPlace
  <2>2. Position(b) \in Nat /\ Position(Junk) \notin Nat
    <3>1. Position(b) \in Nat
      BY <2>1, Marks DEF Positions
    <3> QED
      BY <3>1 DEF Position, Junk
  <2> QED
    BY <2>1, <2>2
<1> QED
  BY <1>1, AlignedInvariant, PTL

\* Every message that getRpcHeader is given is a run of bytes of one stream, or of
\* what was read in their places behind the captured bytes (nfsrecord.c:331, 361), on
\* streams short enough for their sequence numbers.
THEOREM MessagesContiguous == StreamEnd < WORD => (Spec => []DeliveredContiguous)
<1> SUFFICES ASSUME StreamEnd < WORD PROVE Spec => []DeliveredContiguous
  OBVIOUS
<1> DEFINE Inv == net.aligned => Delivered
<1>1. Init => Inv
  BY DEF Init, Delivered, Run
<1>2. IInv /\ (net.aligned => Frame /\ Content) /\ Inv /\ [Next]_vars => Inv'
  <2> SUFFICES ASSUME IInv, net.aligned => Frame /\ Content, Inv, [Next]_vars, net.aligned'
               PROVE  Delivered'
    OBVIOUS
  <2>1. net' = net
    BY DEF Next, vars
  <2> QED
    BY <2>1, DeliveredKept
<1>3. Inv => DeliveredContiguous
  BY DEF Delivered, Run, DeliveredContiguous
<1> HIDE DEF Inv
<1> QED
  BY <1>1, <1>2, <1>3, AlignedInvariant, PTL DEF Spec
-----------------------------------------------------------------------------
\* The network of MessageDelivered, besides what net.lossless says of it: nothing
\* behind the IP packets, a clock that has passed MAX_AGE, and messages that are
\* put together.
Faithful ==
    /\ \A x \in Networks : x.lossless => x.paddings = {0} /\ x.start >= MAX_AGE
    /\ \A m \in MsgNums : MsgLen(m) <= MAXRPC

\* No fragment gets old.
Timely == /\ MAX_AGE <= now /\ now <= MaxTime
          /\ \A f \in Fragments : now <= f.time + MAX_AGE

\* The packet in the loop is the last one captured of its stream.
Latest ==
    /\ sent = [c \in Conns |-> sent[c]] /\ delivered = [c \in Conns |-> delivered[c]]
    /\ \A c \in Conns : c \notin net.conns => sent[c] = 0
    /\ pkt # NoPacket =>
          /\ pkt.conn \in net.conns /\ pkt.cnt = 1 /\ pkt.cap = pkt.len /\ pkt.len # 0
          /\ sent[pkt.conn] = pkt.from + pkt.len

\* Up to where a stream has been processed, and its fragments.
Reached(c) == IF pkt # NoPacket /\ pkt.conn = c THEN pkt.from ELSE sent[c]
FragmentsOf(c) == {f \in Fragments : f.key.conn = c}

\* The bytes of message m in a buffer that holds the first n.
Holds(buffer, m, n) == \A i \in 0..(n - 1) : buffer[i] = MarkAt[m] + MARK + i

\* Between two messages, and in the middle of one.
AtMark(c, m) ==
    /\ Reached(c) = MarkAt[m] /\ FragmentsOf(c) = {}
    /\ m > 1 => delivered[c] = Body(m - 1)
InBody(c, m) ==
    /\ Reached(c) \in (MarkAt[m] + MARK)..(MarkAt[m + 1] - 1)
    /\ \E f \in Fragments :
          /\ FragmentsOf(c) = {f}
          /\ f.key.nextSeq = SeqNo(Reached(c)) /\ f.firstSeq = SeqNo(MarkAt[m] + MARK)
          /\ f.rpc_len = MsgLen(m)
          /\ Holds(memory[f.buffer], m, Reached(c) - MarkAt[m] - MARK)
Followed(c) ==
    \/ \E m \in 1..Len(MarkAt) : AtMark(c, m)
    \/ \E m \in MsgNums : InBody(c, m)

Whole == Timely /\ Latest /\ \A c \in net.conns : Followed(c)

\* A stream that a step does not concern.
LEMMA FollowedFrame ==
    ASSUME NEW c, Followed(c), Reached(c)' = Reached(c), FragmentsOf(c)' = FragmentsOf(c),
           \A f \in FragmentsOf(c) : memory'[f.buffer] = memory[f.buffer],
           delivered'[c] = delivered[c]
    PROVE  Followed(c)'
<1>1. ASSUME NEW m \in 1..Len(MarkAt), AtMark(c, m) PROVE AtMark(c, m)'
  BY <1>1 DEF AtMark
<1>2. ASSUME NEW m \in MsgNums, InBody(c, m) PROVE InBody(c, m)'
  <2>1. PICK f \in Fragments :
          /\ FragmentsOf(c) = {f}
          /\ f.key.nextSeq = SeqNo(Reached(c)) /\ f.firstSeq = SeqNo(MarkAt[m] + MARK)
          /\ f.rpc_len = MsgLen(m)
          /\ Holds(memory[f.buffer], m, Reached(c) - MarkAt[m] - MARK)
    BY <1>2 DEF InBody
  <2>2. f \in Fragments' /\ memory'[f.buffer] = memory[f.buffer]
    BY <2>1 DEF FragmentsOf
  <2> QED
    BY <1>2, <2>1, <2>2 DEF InBody
<1> QED
  BY <1>1, <1>2 DEF Followed

\* The cull loop keeps the fragments of a lossless network.
LEMMA NoneExpired ==
    ASSUME IInv, Timely, NEW f \in Fragments
    PROVE  ~ Expired(f)
<1>1. f \in tcpFragment /\ now \in Nat
  BY MembersTyped, FragmentsAreMembers DEF IInv, Types
<1>2. f.time \in Nat /\ MAX_AGE \in Nat /\ MaxTime \in Nat /\ MaxTime < WORD
  <2>1. MAX_AGE \in Nat /\ MaxTime \in 0..(WORD - 1) /\ WORD \in Nat
    BY TcpAssumption
  <2> QED
    BY <1>1, <2>1 DEF tcpFragment
<1>3. now - MAX_AGE \in Unsigneds /\ now <= f.time + MAX_AGE
  BY <1>1, <1>2, UnsignedsInt DEF Timely, Unsigneds
<1>4. (now - MAX_AGE) % WORD = now - MAX_AGE
  BY <1>3, Wraps
<1> QED
  BY <1>1, <1>2, <1>3, <1>4 DEF Expired

\* tcpLookup finds the fragment of a stream that waits for the packet.
LEMMA Waiting ==
    ASSUME IInv, Looping, NEW f \in Fragments,
           FragmentsOf(pkt.conn) = {f}, f.key.nextSeq = th_seq
    PROVE  Known(Key) /\ Found(Key) = f
<1>1. f \in tcpFragment /\ tcpHashTable \in Tables /\ InBuckets(tcpHashTable)
      /\ Distinct(tcpHashTable) /\ Key \in Ids
  BY MembersTyped, FragmentsAreMembers, SegmentTypes DEF IInv, Types, Memory
<1>2. f.key = Key
  <2>1. f.key.conn = pkt.conn
    BY DEF FragmentsOf
  <2>2. f.key \in Ids /\ Key.conn = pkt.conn /\ Key.nextSeq = th_seq
    BY <1>1 DEF tcpFragment, Key
  <2> QED
    BY <1>1, <2>1, <2>2 DEF Ids
<1>3. PICK b \in Buckets : \E i \in DOMAIN tcpHashTable[b] : f = tcpHashTable[b][i]
  BY DEF Fragments
<1>4. PICK i \in DOMAIN tcpHashTable[b] : f = tcpHashTable[b][i]
  BY <1>3
<1>5. b = HASH(Key)
  BY <1>1, <1>2, <1>4 DEF InBuckets
<1> DEFINE chain == tcpHashTable[HASH(Key)]
<1>6. chain \in Seq(tcpFragment)
  BY <1>1, HashInBuckets DEF Tables
<1>7. i \in 1..Len(chain) /\ chain[i].key = Key
  BY <1>2, <1>4, <1>5, <1>6, LenProperties
<1> HIDE DEF chain
<1>8. FirstMatch(chain, Key) # 0
  <2>1. \/ FirstMatch(chain, Key) = 0 /\ \A j \in 1..Len(chain) : chain[j].key # Key
        \/ FirstMatch(chain, Key) \in 1..Len(chain)
    BY <1>6, FirstMatchProperties
  <2> QED
    BY <1>7, <2>1
<1>9. Known(Key)
  BY <1>8 DEF Known, chain
<1>10. Found(Key) \in Fragments /\ Found(Key).key = Key
  <2>1. FirstMatch(tcpHashTable[HASH(Key)], Key) # 0
    BY <1>9 DEF Known
  <2>2. Found(Key) = Taken(tcpHashTable, Key)
    BY DEF Found, Taken
  <2> QED
    BY <1>1, <2>1, <2>2, Removed, FragmentsAreMembers
<1>11. Found(Key).key.conn = pkt.conn
  BY <1>10 DEF Key
<1> QED
  BY <1>9, <1>10, <1>11 DEF FragmentsOf
\* The packet in the loop.
LEMMA InLoop ==
    ASSUME IInv, Frame, Latest, Looping
    PROVE  /\ pkt \in Packets /\ pkt # NoPacket /\ pkt.conn \in Conns /\ pkt.conn \in net.conns
           /\ pkt.from \in Nat /\ pkt.len \in Nat \ {0} /\ pkt.cap = pkt.len
           /\ pkt.off = 0 /\ pkt.cnt = 1 /\ pkt.len < WORD /\ Segment(pkt.from, pkt.len)
           /\ Reached(pkt.conn) = pkt.from /\ sent[pkt.conn] = pkt.from + pkt.len
<1>1. pkt \in Packets /\ pkt # NoPacket
  BY SegmentTypes DEF IInv, Looping
<1> QED
  BY <1>1 DEF Packets, Latest, Frame, Reached

\* All its payload was captured.
LEMMA CapturedByte ==
    ASSUME IInv, Frame, Latest, Looping, NEW i \in 0..(pkt.len - 1)
    PROVE  Byte(i) = pkt.from + i
<1>1. pkt.len \in Nat \ {0} /\ pkt.cap = pkt.len
  BY InLoop
<1> QED
  BY <1>1 DEF Byte

\* The packet after the last byte of a message holds a record mark and bytes of
\* the message behind it.
LEMMA MarkFound ==
    ASSUME IInv, Frame, net.aligned, Latest, Looping,
           NEW m \in 1..Len(MarkAt), AtMark(pkt.conn, m)
    PROVE  /\ m \in MsgNums /\ pkt.from = MarkAt[m]
           /\ ~ Known(Key) /\ Words = {MsgLen(m)}
           /\ pkt.len >= MARK /\ tcpPayloadLength(pkt.cnt) = pkt.len - MARK
           /\ pkt.len - MARK <= MsgLen(m)
<1>1. /\ pkt.from \in Nat /\ pkt.len \in Nat \ {0} /\ pkt.off = 0 /\ pkt.cnt = 1
      /\ pkt.len < WORD /\ Segment(pkt.from, pkt.len) /\ MARK \in Nat \ {0}
      /\ pkt.from = MarkAt[m]
  BY InLoop, Marks DEF AtMark
<1>2. m \in MsgNums
  <2>1. MarkAt[m] < StreamEnd
    BY <1>1, Marks DEF Segment
  <2>2. m # Len(MarkAt) /\ Len(MarkAt) \in Nat
    BY <2>1, Marks DEF StreamEnd
  <2> QED
    BY <2>2 DEF MsgNums
<1>3. ~ Known(Key)
  <2> SUFFICES ASSUME Known(Key) PROVE FALSE
    OBVIOUS
  <2>1. Found(Key) \in Fragments /\ Found(Key).key = Key
    BY FilledExact
  <2>2. Found(Key) \in FragmentsOf(pkt.conn)
    BY <2>1 DEF FragmentsOf, Key
  <2> QED
    BY <2>2 DEF AtMark
<1>4. pkt.len >= MARK
  BY <1>1 DEF Segment
<1>5. MarkHere = {m}
  <2>1. pkt.from + pkt.off = MarkAt[m] /\ pkt.off + MARK <= pkt.len /\ pkt.off + MARK <= pkt.cap
    BY <1>1, <1>4, InLoop
  <2>2. \A n \in MsgNums : MarkAt[n] = MarkAt[m] => n = m
    <3> SUFFICES ASSUME NEW n \in MsgNums, n # m PROVE MarkAt[n] # MarkAt[m]
      OBVIOUS
    <3>1. n \in 1..Len(MarkAt) /\ n \in Int /\ m \in Int
      BY <1>2, Marks DEF MsgNums
    <3>2. MarkAt[n] \in Nat /\ MarkAt[m] \in Nat
      BY <3>1, Marks
    <3>3. n < m => MarkAt[n] + MARK <= MarkAt[m]
      BY <3>1, Marks
    <3>4. m < n => MarkAt[m] + MARK <= MarkAt[n]
      BY <3>1, Marks
    <3> QED
      BY <1>1, <3>1, <3>2, <3>3, <3>4
  <2> QED
    BY <1>2, <2>1, <2>2 DEF MarkHere
<1>6. Words = {MsgLen(m)}
  <2>1. ~ (pkt.off >= pkt.len)
    BY <1>1
  <2> QED
    BY <1>5, <2>1 DEF Words
<1>7. tcpPayloadLength(pkt.cnt) = pkt.len - MARK /\ MsgLen(m) >= pkt.len - MARK
  BY <1>3, <1>5, <1>6, FirstBytes
<1>8. MsgLen(m) \in Nat
  BY <1>2, Marks
<1> QED
  BY <1>1, <1>2, <1>3, <1>4, <1>6, <1>7, <1>8

\* The difference of two positions is that of their sequence numbers.
LEMMA Distance ==
    ASSUME NEW p \in Nat, NEW q \in Nat, q <= p, p - q < WORD
    PROVE  (SeqNo(p) - SeqNo(q)) % WORD = p - q
<1> DEFINE a == ISN + p
           b == ISN + q
           c == b % WORD
<1>1. a \in Int /\ b \in Int /\ a - b = p - q /\ p - q \in Unsigneds
  BY UnsignedsInt DEF Unsigneds
<1>2. SeqNo(p) = a % WORD /\ SeqNo(q) = c
  BY DEF SeqNo
<1> HIDE DEF a, b
<1>3. c \in Int
  BY <1>1, Sums
<1> HIDE DEF c
<1>4. ((a % WORD) - c) % WORD = (a - c) % WORD
  BY <1>1, <1>3, Sums
<1>5. (a - c) % WORD = (a - b) % WORD
  BY <1>1, Sums DEF c
<1>6. (p - q) % WORD = p - q
  BY <1>1, Wraps
<1> QED
  BY <1>1, <1>2, <1>4, <1>5, <1>6

\* The packet in the middle of a message goes on where its fragment ends.
LEMMA FragmentFound ==
    ASSUME IInv, Frame, net.aligned, Latest, Looping,
           NEW m \in MsgNums, InBody(pkt.conn, m),
           NEW f, f = Found(Key)
    PROVE  /\ Known(Key) /\ FragmentsOf(pkt.conn) = {f} /\ f \in tcpFragment
           /\ f.rpc_len = MsgLen(m) /\ f.firstSeq = SeqNo(MarkAt[m] + MARK)
           /\ tcpPayloadLength(pkt.cnt - 1) = pkt.len
           /\ lastOffset(f) = pkt.from + pkt.len - MarkAt[m] - MARK
           /\ pkt.from + pkt.len <= MarkAt[m + 1] /\ MarkAt[m] + MARK <= pkt.from
           /\ Holds(Filled(f), m, lastOffset(f))
<1>1. /\ pkt.from \in Nat /\ pkt.len \in Nat \ {0} /\ pkt.off = 0 /\ pkt.cnt = 1
      /\ Segment(pkt.from, pkt.len) /\ Reached(pkt.conn) = pkt.from
  BY InLoop
<1>2. /\ MARK \in Nat /\ MarkAt[m] \in Nat /\ MarkAt[m + 1] \in Nat /\ MsgLen(m) \in Nat
      /\ MarkAt[m] + MARK + MsgLen(m) = MarkAt[m + 1]
  BY Marks
<1>3. pkt.from \in (MarkAt[m] + MARK)..(MarkAt[m + 1] - 1)
  BY <1>1 DEF InBody
<1> DEFINE p == pkt.from - MarkAt[m] - MARK
<1>4. PICK g \in Fragments :
          /\ FragmentsOf(pkt.conn) = {g}
          /\ g.key.nextSeq = SeqNo(pkt.from) /\ g.firstSeq = SeqNo(MarkAt[m] + MARK)
          /\ g.rpc_len = MsgLen(m)
          /\ Holds(memory[g.buffer], m, p)
  BY <1>1 DEF InBody
<1>5. Known(Key) /\ f = g
  BY <1>4, Waiting DEF th_seq
<1>6. /\ f \in tcpFragment /\ firstOffset(f) = Progress(f) /\ f.rpc_len < WORD
      /\ tcpPayloadLength(pkt.cnt - 1) = pkt.len
  <2>1. f \in tcpFragment
    BY <1>5, FilledExact
  <2> QED
    BY <1>5, <2>1, FilledExact, UnsignedsInt DEF tcpFragment
<1>7. pkt.from + pkt.len <= MarkAt[m + 1]
  <2>1. MarkAt[m] <= pkt.from /\ pkt.from < MarkAt[m + 1]
    BY <1>2, <1>3
  <2> QED
    BY <1>1, <2>1, WithinMessage
<1>8. firstOffset(f) = p /\ p \in Nat
  <2>1. /\ MarkAt[m] + MARK \in Nat /\ MarkAt[m] + MARK <= pkt.from
        /\ pkt.from - (MarkAt[m] + MARK) < WORD /\ p = pkt.from - (MarkAt[m] + MARK) /\ p \in Nat
    BY <1>1, <1>2, <1>3, <1>4, <1>5, <1>6, UnsignedsInt
  <2>2. (SeqNo(pkt.from) - SeqNo(MarkAt[m] + MARK)) % WORD = pkt.from - (MarkAt[m] + MARK)
    <3> DEFINE q == MarkAt[m] + MARK
    <3>1. q \in Nat /\ q <= pkt.from /\ pkt.from - q < WORD
      BY <2>1
    <3> HIDE DEF q
    <3>2. (SeqNo(pkt.from) - SeqNo(q)) % WORD = pkt.from - q
      BY <1>1, <3>1, Distance
    <3> QED
      BY <3>2 DEF q
  <2> QED
    BY <1>4, <1>5, <2>1, <2>2 DEF firstOffset, th_seq
<1>9. p + pkt.len <= MsgLen(m) /\ p + pkt.len = pkt.from + pkt.len - MarkAt[m] - MARK
  BY <1>1, <1>2, <1>3, <1>7
<1> HIDE DEF p
<1>10. lastOffset(f) = p + pkt.len
  BY <1>1, <1>2, <1>4, <1>5, <1>6, <1>8, <1>9 DEF lastOffset
<1>11. Holds(Filled(f), m, lastOffset(f))
  <2> SUFFICES ASSUME NEW i \in 0..(lastOffset(f) - 1)
               PROVE  Filled(f)[i] = MarkAt[m] + MARK + i
    BY DEF Holds
  <2>6. i \in 0..(p + pkt.len - 1)
    BY <1>1, <1>8, <1>10
  <2>1. i \in 0..(f.rpc_len - 1) /\ pkt.off + i - firstOffset(f) = i - p
        /\ firstOffset(f)..(lastOffset(f) - 1) = p..(p + pkt.len - 1)
    BY <1>1, <1>2, <1>4, <1>5, <1>8, <1>9, <1>10, <2>6, SMTT(30)
  <2>2. Filled(f)[i] = IF i \in p..(p + pkt.len - 1) THEN Byte(i - p) ELSE memory[f.buffer][i]
    BY <2>1 DEF Filled
  <2>3. CASE i < p
    <3>1. i \in 0..(p - 1) /\ ~ (i \in p..(p + pkt.len - 1))
      BY <1>1, <1>8, <2>3, <2>6
    <3> QED
      BY <1>4, <1>5, <2>2, <3>1 DEF Holds
  <2>4. CASE i >= p
    <3>1. i \in p..(p + pkt.len - 1) /\ i - p \in 0..(pkt.len - 1)
      BY <1>1, <1>8, <2>4, <2>6
    <3>2. Byte(i - p) = pkt.from + (i - p)
      BY <3>1, CapturedByte
    <3>3. pkt.from + (i - p) = MarkAt[m] + MARK + i
      BY <1>1, <1>2, <3>1 DEF p
    <3> QED
      BY <2>2, <3>1, <3>2, <3>3
  <2>5. i < p \/ i >= p
    BY <1>1, <1>8, <2>6
  <2> QED
    BY <2>3, <2>4, <2>5
<1> QED
  BY <1>1, <1>2, <1>3, <1>4, <1>5, <1>6, <1>7, <1>9, <1>10, <1>11
\* A stream whose packet is not in the loop.
LEMMA OthersFollowed ==
    ASSUME IInv, Looping, pkt' = NoPacket, UNCHANGED sent,
           NEW c, c # pkt.conn, Followed(c),
           FragmentsOf(c)' = FragmentsOf(c),
           \A f \in FragmentsOf(c) : memory'[f.buffer] = memory[f.buffer],
           delivered'[c] = delivered[c]
    PROVE  Followed(c)'
<1>1. Reached(c)' = Reached(c)
  BY DEF Reached
<1> QED
  BY <1>1, FollowedFrame

\* nfsrecord.c:331-336: the message is in the packet.
LEMMA SoleFollowed ==
    ASSUME IInv, Frame, net.aligned, Latest, NEW c, c = pkt.conn,
           NEW m \in 1..Len(MarkAt), AtMark(pkt.conn, m),
           NEW rpc_len \in Words, SoleSegment(rpc_len)
    PROVE  /\ pkt' = NoPacket /\ Followed(c)'
<1>1. /\ Looping /\ rpc_len <= tcpPayloadLength(pkt.cnt) /\ GoOn(rpc_len)
      /\ UNCHANGED <<tcpHashTable, sent>>
      /\ delivered' = [delivered EXCEPT ![c] =
                         [i \in {j \in 0..(rpc_len - 1) : j < Available} |->
                             Byte(pkt.off + MARK + i)]]
  BY DEF SoleSegment, table
<1>2. /\ c \in Conns /\ pkt.from \in Nat /\ pkt.len \in Nat /\ pkt.cap = pkt.len
      /\ pkt.off = 0 /\ sent[c] = pkt.from + pkt.len
  BY <1>1, InLoop
<1>3. /\ m \in MsgNums /\ pkt.from = MarkAt[m] /\ rpc_len = MsgLen(m) /\ pkt.len >= MARK
      /\ tcpPayloadLength(pkt.cnt) = pkt.len - MARK /\ pkt.len - MARK <= MsgLen(m)
  BY <1>1, MarkFound
<1>4. /\ MARK \in Nat /\ MsgLen(m) \in Nat /\ MarkAt[m] + MARK + MsgLen(m) = MarkAt[m + 1]
      /\ m \in Nat \ {0} /\ m + 1 \in 1..Len(MarkAt) /\ MarkAt[m] \in Nat
  BY <1>3, Marks DEF MsgNums
<1>5. rpc_len = pkt.len - MARK /\ pkt.from + pkt.len = MarkAt[m + 1]
  <2>1. rpc_len <= pkt.len - MARK
    BY <1>1, <1>3
  <2>2. /\ pkt.len \in Nat /\ MARK \in Nat /\ rpc_len \in Nat /\ pkt.len - MARK <= rpc_len
        /\ pkt.from = MarkAt[m] /\ MarkAt[m] + MARK + rpc_len = MarkAt[m + 1]
        /\ MarkAt[m] \in Nat
    BY <1>2, <1>3, <1>4
  <2>3. rpc_len = pkt.len - MARK
    BY <2>1, <2>2
  <2> QED
    BY <2>2, <2>3
<1>6. pkt' = NoPacket
  <2>1. ~ (pkt.off + MARK + rpc_len < pkt.cap)
    BY <1>2, <1>4, <1>5
  <2> QED
    BY <1>1, <2>1 DEF GoOn, Return
<1>7. delivered'[c] = Body(m)
  <2>1. \A i \in 0..(rpc_len - 1) : Byte(pkt.off + MARK + i) = MarkAt[m] + MARK + i
    <3> SUFFICES ASSUME NEW i \in 0..(rpc_len - 1)
                 PROVE  Byte(pkt.off + MARK + i) = MarkAt[m] + MARK + i
      OBVIOUS
    <3>1. pkt.off + MARK + i = MARK + i /\ MARK + i \in 0..(pkt.len - 1)
          /\ pkt.from + (MARK + i) = MarkAt[m] + MARK + i
      <4>1. /\ MARK \in Nat /\ i \in 0..(pkt.len - MARK - 1) /\ pkt.len \in Nat /\ pkt.off = 0
            /\ pkt.from = MarkAt[m] /\ MarkAt[m] \in Nat
        BY <1>2, <1>3, <1>4, <1>5
      <4> QED
        BY <4>1
    <3>2. Byte(MARK + i) = pkt.from + (MARK + i)
      BY <1>1, <3>1, CapturedByte
    <3> QED
      BY <3>1, <3>2
  <2>2. delivered'[c] = [i \in {j \in 0..(rpc_len - 1) : j < Available} |->
                            Byte(pkt.off + MARK + i)]
    BY <1>1, <1>2 DEF Latest
  <2>3. Available = rpc_len
    <3>1. pkt.cap - pkt.off - MARK = rpc_len /\ rpc_len \in Nat /\ rpc_len < WORD
      <4>1. pkt.len < WORD /\ WORD \in Nat
        BY <1>1, InLoop, UnsignedsInt
      <4> QED
        BY <1>2, <1>3, <1>4, <1>5, <4>1
    <3>2. rpc_len \in Unsigneds
      BY <3>1, UnsignedsInt DEF Unsigneds
    <3> QED
      BY <3>1, <3>2, Wraps DEF Available
  <2>4. {j \in 0..(rpc_len - 1) : j < rpc_len} = 0..(rpc_len - 1)
    BY <1>3, <1>4
  <2> QED
    BY <1>3, <2>1, <2>2, <2>3, <2>4 DEF Body
<1>8. Reached(c)' = MarkAt[m + 1]
  BY <1>1, <1>2, <1>5, <1>6 DEF Reached
<1>9. FragmentsOf(c)' = {}
  <2>1. Fragments' = Fragments
    BY <1>1 DEF Fragments
  <2> QED
    BY <2>1 DEF AtMark, FragmentsOf
<1>10. AtMark(c, m + 1)'
  <2>1. (m + 1) - 1 = m
    BY <1>4
  <2> QED
    BY <1>7, <1>8, <1>9, <2>1 DEF AtMark
<1> QED
  BY <1>4, <1>6, <1>10 DEF Followed

\* nfsrecord.c:340-352: the message begins in the packet.
LEMMA FirstFollowed ==
    ASSUME IInv, Frame, net.aligned, Latest, NEW c, c = pkt.conn,
           NEW m \in 1..Len(MarkAt), AtMark(pkt.conn, m),
           NEW rpc_len \in Words, FirstSegment(rpc_len)
    PROVE  Followed(c)'
<1>1. /\ Looping /\ rpc_len > tcpPayloadLength(pkt.cnt) /\ pkt' = NoPacket
      /\ UNCHANGED sent
  BY DEF FirstSegment, Return
<1>2. /\ c \in Conns /\ pkt.from \in Nat /\ pkt.len \in Nat
      /\ pkt.off = 0 /\ sent[c] = pkt.from + pkt.len
  BY <1>1, InLoop
<1>3. /\ m \in MsgNums /\ pkt.from = MarkAt[m] /\ rpc_len = MsgLen(m) /\ pkt.len >= MARK
      /\ tcpPayloadLength(pkt.cnt) = pkt.len - MARK
  BY <1>1, MarkFound
<1>4. /\ MARK \in Nat /\ MsgLen(m) \in Nat /\ MarkAt[m] + MARK + MsgLen(m) = MarkAt[m + 1]
      /\ MarkAt[m] \in Nat /\ ISN \in Nat
  BY <1>3, Marks, UnsignedsInt
<1>5. PICK e \in tcpFragment :
                /\ Fragments' = Fragments \cup {e}
                /\ e.key = [conn |-> c,
                            nextSeq |-> (e.firstSeq + tcpPayloadLength(pkt.cnt)) % WORD]
                /\ e.firstSeq = (th_seq + MARK) % WORD /\ e.rpc_len = rpc_len
                /\ memory'[e.buffer] =
                      [i \in 0..(rpc_len - 1) |->
                          IF i < tcpPayloadLength(pkt.cnt) THEN Byte(pkt.off + MARK + i) ELSE Junk]
  BY FirstSegmentKept
<1>6. Reached(c)' = MarkAt[m] + pkt.len
  BY <1>1, <1>2, <1>3 DEF Reached
<1>7. MarkAt[m] + pkt.len \in (MarkAt[m] + MARK)..(MarkAt[m + 1] - 1)
      /\ MarkAt[m] + pkt.len - MarkAt[m] - MARK = pkt.len - MARK
  BY <1>1, <1>2, <1>3, <1>4
<1>8. e.firstSeq = SeqNo(MarkAt[m] + MARK)
  <2> DEFINE a == ISN + MarkAt[m]
  <2>1. a \in Int /\ MARK \in Int /\ ISN + (MarkAt[m] + MARK) = a + MARK
    BY <1>4
  <2>2. e.firstSeq = ((a % WORD) + MARK) % WORD
    BY <1>3, <1>5 DEF th_seq, SeqNo
  <2> HIDE DEF a
  <2>3. ((a % WORD) + MARK) % WORD = (a + MARK) % WORD
    BY <2>1, Sums
  <2> QED
    BY <2>1, <2>2, <2>3 DEF SeqNo
<1>9. e.key.nextSeq = SeqNo(MarkAt[m] + pkt.len)
  <2> DEFINE a == ISN + (MarkAt[m] + MARK)
             b == pkt.len - MARK
  <2>1. a \in Int /\ b \in Int /\ ISN + (MarkAt[m] + pkt.len) = a + b
    BY <1>2, <1>4, SMTT(30)
  <2>2. e.key.nextSeq = ((a % WORD) + b) % WORD
    BY <1>3, <1>5, <1>8 DEF SeqNo
  <2> HIDE DEF a, b
  <2>3. ((a % WORD) + b) % WORD = (a + b) % WORD
    BY <2>1, Sums
  <2> QED
    BY <2>1, <2>2, <2>3 DEF SeqNo
<1>10. Holds(memory'[e.buffer], m, pkt.len - MARK)
  <2> SUFFICES ASSUME NEW i \in 0..(pkt.len - MARK - 1)
               PROVE  memory'[e.buffer][i] = MarkAt[m] + MARK + i
    BY DEF Holds
  <2>1. /\ i \in 0..(rpc_len - 1) /\ i < tcpPayloadLength(pkt.cnt)
        /\ pkt.off + MARK + i = MARK + i /\ MARK + i \in 0..(pkt.len - 1)
        /\ pkt.from + (MARK + i) = MarkAt[m] + MARK + i
    <3>1. /\ MARK \in Nat /\ i \in 0..(pkt.len - MARK - 1) /\ pkt.len \in Nat /\ pkt.off = 0
          /\ pkt.from = MarkAt[m] /\ MarkAt[m] \in Nat /\ rpc_len \in Nat
          /\ rpc_len > pkt.len - MARK /\ tcpPayloadLength(pkt.cnt) = pkt.len - MARK
      BY <1>1, <1>2, <1>3, <1>4
    <3> QED
      BY <3>1
  <2>2. Byte(MARK + i) = pkt.from + (MARK + i)
    BY <1>1, <2>1, CapturedByte
  <2> QED
    BY <1>5, <2>1, <2>2
<1>11. FragmentsOf(c)' = {e} /\ e \in Fragments'
  <2>1. e.key.conn = c
    BY <1>5
  <2> QED
    BY <1>5, <2>1 DEF AtMark, FragmentsOf
<1>12. InBody(c, m)'
  <2>1. Holds(memory'[e.buffer], m, Reached(c)' - MarkAt[m] - MARK)
    <3>1. Reached(c)' - MarkAt[m] - MARK = pkt.len - MARK
      BY <1>2, <1>4, <1>6, <1>7
    <3> QED
      BY <1>10, <3>1
  <2> QED
    BY <1>3, <1>5, <1>6, <1>7, <1>8, <1>9, <1>11, <2>1 DEF InBody
<1> QED
  BY <1>3, <1>12 DEF Followed

\* nfsrecord.c:359-365: the message ends in the packet.
LEMMA LastFollowed ==
    ASSUME IInv, Frame, net.aligned, Latest, NEW c, c = pkt.conn,
           NEW m \in MsgNums, InBody(pkt.conn, m), LastSegment
    PROVE  Followed(c)'
<1> DEFINE f == Found(Key)
<1>1. /\ Looping /\ lastOffset(f) = f.rpc_len /\ pkt' = NoPacket /\ UNCHANGED sent
      /\ delivered' = [delivered EXCEPT ![c] = Filled(f)]
  BY DEF LastSegment, Return
<1>2. /\ c \in Conns /\ pkt.from \in Nat /\ pkt.len \in Nat /\ sent[c] = pkt.from + pkt.len
  BY <1>1, InLoop
<1>3. /\ FragmentsOf(c) = {f} /\ f.rpc_len = MsgLen(m)
      /\ lastOffset(f) = pkt.from + pkt.len - MarkAt[m] - MARK
      /\ Holds(Filled(f), m, lastOffset(f))
  BY <1>1, FragmentFound
<1>4. /\ MARK \in Nat /\ MsgLen(m) \in Nat /\ MarkAt[m] + MARK + MsgLen(m) = MarkAt[m + 1]
      /\ m \in Nat \ {0} /\ m + 1 \in 1..Len(MarkAt) /\ MarkAt[m] \in Nat
  BY Marks DEF MsgNums
<1>5. Fragments' = Fragments \ {f}
  <2>1. Known(Key) /\ Key \in Ids
    BY SegmentTypes DEF LastSegment, IInv
  <2> QED
    BY <2>1, ReleaseKept DEF LastSegment, IInv
<1>6. delivered'[c] = Body(m)
  <2>1. delivered'[c] = Filled(f)
    BY <1>1, <1>2 DEF Latest
  <2>2. Filled(f) = [i \in 0..(f.rpc_len - 1) |-> Filled(f)[i]]
    BY DEF Filled
  <2>3. \A i \in 0..(f.rpc_len - 1) : Filled(f)[i] = MarkAt[m] + MARK + i
    BY <1>1, <1>3 DEF Holds
  <2> HIDE DEF f
  <2> QED
    BY <1>3, <2>1, <2>2, <2>3 DEF Body
<1>7. FragmentsOf(c)' = {}
  BY <1>3, <1>5 DEF FragmentsOf
<1> HIDE DEF f
<1>8. Reached(c)' = MarkAt[m + 1]
  <2>1. pkt.from + pkt.len = MarkAt[m + 1]
    BY <1>1, <1>2, <1>3, <1>4, SMTT(30)
  <2> QED
    BY <1>1, <1>2, <2>1 DEF Reached
<1>9. AtMark(c, m + 1)'
  <2>1. (m + 1) - 1 = m
    BY <1>4
  <2> QED
    BY <1>6, <1>7, <1>8, <2>1 DEF AtMark
<1> QED
  BY <1>4, <1>9 DEF Followed

\* nfsrecord.c:368-374: the message goes on behind the packet.
LEMMA NextFollowed ==
    ASSUME IInv, Frame, net.aligned, Latest, NEW c, c = pkt.conn,
           NEW m \in MsgNums, InBody(pkt.conn, m), NextSegment
    PROVE  Followed(c)'
<1> DEFINE f == Found(Key)
           n == pkt.from + pkt.len
<1>1. /\ Looping /\ lastOffset(f) # f.rpc_len /\ pkt' = NoPacket /\ UNCHANGED sent
  BY DEF NextSegment, Return
<1>2. /\ c \in Conns /\ pkt.from \in Nat /\ pkt.len \in Nat /\ sent[c] = n
  BY <1>1, InLoop
<1>3. /\ FragmentsOf(c) = {f} /\ f.rpc_len = MsgLen(m) /\ f.firstSeq = SeqNo(MarkAt[m] + MARK)
      /\ tcpPayloadLength(pkt.cnt - 1) = pkt.len
      /\ lastOffset(f) = n - MarkAt[m] - MARK
      /\ n <= MarkAt[m + 1] /\ MarkAt[m] + MARK <= pkt.from
      /\ Holds(Filled(f), m, lastOffset(f))
  <2>1. f = Found(Key) /\ Looping
    BY <1>1
  <2> HIDE DEF f
  <2>2. /\ FragmentsOf(pkt.conn) = {f}
        /\ f.rpc_len = MsgLen(m) /\ f.firstSeq = SeqNo(MarkAt[m] + MARK)
        /\ tcpPayloadLength(pkt.cnt - 1) = pkt.len
        /\ lastOffset(f) = pkt.from + pkt.len - MarkAt[m] - MARK
        /\ pkt.from + pkt.len <= MarkAt[m + 1] /\ MarkAt[m] + MARK <= pkt.from
        /\ Holds(Filled(f), m, lastOffset(f))
    BY <2>1, FragmentFound
  <2>3. n = pkt.from + pkt.len
    OBVIOUS
  <2> HIDE DEF n
  <2>4. lastOffset(f) = n - MarkAt[m] - MARK /\ n <= MarkAt[m + 1]
    <3>1. /\ pkt.from \in Nat /\ pkt.len \in Nat /\ MARK \in Nat
          /\ MarkAt[m] \in Nat /\ MarkAt[m + 1] \in Nat
      BY <1>2, Marks
    <3> QED
      BY <2>2, <2>3, <3>1
  <2> QED
    BY <2>2, <2>4
<1>4. /\ MARK \in Nat /\ MsgLen(m) \in Nat /\ MarkAt[m] + MARK + MsgLen(m) = MarkAt[m + 1]
      /\ MarkAt[m] \in Nat /\ ISN \in Nat
  BY Marks, UnsignedsInt
<1>5. PICK e \in tcpFragment :
                /\ Fragments' = (Fragments \ {f}) \cup {e}
                /\ e.key = [conn |-> c,
                            nextSeq |-> (th_seq + tcpPayloadLength(pkt.cnt - 1)) % WORD]
                /\ e.firstSeq = f.firstSeq /\ e.rpc_len = f.rpc_len
                /\ memory'[e.buffer] = Filled(f)
  BY NextSegmentKept
<1>6. FragmentsOf(c)' = {e} /\ e \in Fragments'
  <2>1. e.key.conn = c
    BY <1>5
  <2> QED
    BY <1>3, <1>5, <2>1 DEF FragmentsOf
<1> HIDE DEF f
<1>7. n \in (MarkAt[m] + MARK)..(MarkAt[m + 1] - 1)
  BY <1>1, <1>2, <1>3, <1>4
<1>8. e.key.nextSeq = SeqNo(n)
  <2> DEFINE a == ISN + pkt.from
             b == pkt.len
  <2>1. a \in Int /\ b \in Int /\ ISN + n = a + b
    BY <1>2, <1>4
  <2>2. e.key.nextSeq = ((a % WORD) + b) % WORD
    BY <1>3, <1>5 DEF th_seq, SeqNo
  <2> HIDE DEF a, b
  <2>3. ((a % WORD) + b) % WORD = (a + b) % WORD
    BY <2>1, Sums
  <2> HIDE DEF n
  <2> QED
    BY <2>1, <2>2, <2>3 DEF SeqNo
<1> HIDE DEF n
<1>9. Reached(c)' = n
  BY <1>1, <1>2 DEF Reached
<1>10. InBody(c, m)'
  <2>1. Holds(memory'[e.buffer], m, Reached(c)' - MarkAt[m] - MARK)
    BY <1>3, <1>5, <1>9
  <2> QED
    BY <1>3, <1>5, <1>6, <1>7, <1>8, <1>9, <2>1 DEF InBody
<1> QED
  BY <1>10 DEF Followed
\* A new fragment is of this moment, and the clock waits for no message.
LEMMA TimelyKept ==
    ASSUME IInv, net.lossless, Timely, [Next]_vars
    PROVE  Timely'
<1>1. now \in Nat /\ MAX_AGE \in Nat /\ MaxTime \in Nat
  BY TcpAssumption, Constants, UnsignedsInt DEF IInv, Types, Unsigneds
<1>2. ASSUME UNCHANGED now,
             \A f \in Fragments' : f \in Fragments \/ f.time = now
      PROVE  Timely'
  BY <1>1, <1>2 DEF Timely
<1>3. ASSUME UNCHANGED <<tcpHashTable, now>> PROVE Timely'
  <2>1. Fragments' = Fragments
    BY <1>3 DEF Fragments
  <2> QED
    BY <1>2, <1>3, <2>1
<1>4. CASE Clock
  <2>1. now' \in (now + 1)..MaxTime /\ \A f \in Fragments : now' <= f.time + MAX_AGE
    BY <1>4 DEF Clock
  <2>2. Fragments' = Fragments
    BY <1>4 DEF Clock, Fragments, table
  <2>3. MAX_AGE <= now' /\ now' <= MaxTime
    BY <1>1, <2>1 DEF Timely
  <2> QED
    BY <2>1, <2>2, <2>3 DEF Timely
<1>5. ASSUME NEW rpc_len \in Words, FirstSegment(rpc_len) PROVE Timely'
  <2>1. PICK e \in tcpFragment : Fragments' = Fragments \cup {e} /\ e.time = now
    BY <1>5, FirstSegmentKept
  <2>2. UNCHANGED now
    BY <1>5 DEF FirstSegment
  <2> QED
    BY <1>2, <2>1, <2>2
<1>6. CASE NextSegment
  <2>1. PICK e \in tcpFragment :
            Fragments' = (Fragments \ {Found(Key)}) \cup {e} /\ e.time = now
    BY <1>6, NextSegmentKept
  <2>2. UNCHANGED now
    BY <1>6 DEF NextSegment
  <2> QED
    BY <1>2, <2>1, <2>2
<1>7. CASE LastSegment
  <2>1. Known(Key) /\ Key \in Ids /\ UNCHANGED now
    BY <1>7, SegmentTypes DEF LastSegment, IInv
  <2>2. Fragments' = Fragments \ {Found(Key)}
    BY <1>7, <2>1, ReleaseKept DEF LastSegment, IInv
  <2> QED
    BY <1>2, <2>1, <2>2
<1>8. CASE CullOld
  <2>1. Known(curr.key) /\ curr.key \in Ids /\ UNCHANGED now
    BY <1>8, CurrTyped DEF CullOld
  <2>2. Fragments' = Fragments \ {Found(curr.key)}
    BY <1>8, <2>1, ReleaseKept DEF CullOld, IInv
  <2> QED
    BY <1>2, <2>1, <2>2
<1>9. CASE \/ (\E c \in net.conns : Capture(c)) \/ CullYoung \/ CullDone \/ UNCHANGED vars
           \/ \E rpc_len \in Words : SoleSegment(rpc_len) \/ TooLarge(rpc_len)
  <2>1. UNCHANGED <<tcpHashTable, now>>
    BY <1>9 DEF Capture, CullYoung, CullDone, SoleSegment, TooLarge, table, vars
  <2> QED
    BY <1>3, <2>1
<1> QED
  BY <1>4, <1>5, <1>6, <1>7, <1>8, <1>9 DEF Next

\* What becomes of the stream of the packet in the loop.
LEMMA PacketFollowed ==
    ASSUME IInv, Frame, net.aligned, Faithful, Latest, NEW c, c = pkt.conn, Followed(c),
           Looping,
           \/ \E rpc_len \in Words :
                 SoleSegment(rpc_len) \/ TooLarge(rpc_len) \/ FirstSegment(rpc_len)
           \/ LastSegment \/ NextSegment
    PROVE  pkt' = NoPacket /\ Followed(c)'
<1>1. CASE \E m \in 1..Len(MarkAt) : AtMark(c, m)
  <2>1. PICK m \in 1..Len(MarkAt) : AtMark(c, m)
    BY <1>1
  <2>2. ~ Known(Key) /\ Words = {MsgLen(m)} /\ m \in MsgNums
    BY <2>1, MarkFound
  <2>3. ASSUME NEW rpc_len \in Words, SoleSegment(rpc_len) PROVE pkt' = NoPacket /\ Followed(c)'
    BY <2>1, <2>3, SoleFollowed
  <2>4. ASSUME NEW rpc_len \in Words, FirstSegment(rpc_len) PROVE pkt' = NoPacket /\ Followed(c)'
    <3>1. pkt' = NoPacket
      BY <2>4 DEF FirstSegment, Return
    <3> QED
      BY <2>1, <2>4, <3>1, FirstFollowed
  <2>5. ASSUME NEW rpc_len \in Words PROVE ~ TooLarge(rpc_len)
    <3>1. rpc_len = MsgLen(m) /\ rpc_len <= MAXRPC /\ rpc_len \in Nat /\ MAXRPC \in Nat
      <4>1. MAXRPC \in Nat
        BY Constants, UnsignedsInt DEF Unsigneds
      <4> QED
        BY <2>2, <4>1, Marks DEF Faithful
    <3> QED
      BY <3>1 DEF TooLarge
  <2>6. ~ LastSegment /\ ~ NextSegment
    BY <2>2 DEF LastSegment, NextSegment
  <2> QED
    BY <2>3, <2>4, <2>5, <2>6
<1>2. CASE \E m \in MsgNums : InBody(c, m)
  <2>1. PICK m \in MsgNums : InBody(c, m)
    BY <1>2
  <2>2. Known(Key)
    BY <2>1, FragmentFound
  <2>3. LastSegment \/ NextSegment
    BY <2>2 DEF SoleSegment, TooLarge, FirstSegment
  <2>4. pkt' = NoPacket
    BY <2>3 DEF LastSegment, NextSegment, Return
  <2> QED
    BY <2>1, <2>3, <2>4, LastFollowed, NextFollowed
<1> QED
  BY <1>1, <1>2 DEF Followed

\* The streams besides that of the packet in the loop.
LEMMA StreamsApart ==
    ASSUME IInv, Frame, Latest, Looping, NEW c \in Conns, c # pkt.conn,
           \/ \E rpc_len \in Words :
                 SoleSegment(rpc_len) \/ TooLarge(rpc_len) \/ FirstSegment(rpc_len)
           \/ LastSegment \/ NextSegment
    PROVE  /\ FragmentsOf(c)' = FragmentsOf(c)
           /\ \A f \in FragmentsOf(c) : memory'[f.buffer] = memory[f.buffer]
           /\ UNCHANGED sent
           /\ delivered'[c] = delivered[c]
<1>1. ASSUME UNCHANGED tcpHashTable PROVE FragmentsOf(c)' = FragmentsOf(c)
  BY <1>1 DEF FragmentsOf, Fragments
<1>2. ASSUME NEW m, delivered' = [delivered EXCEPT ![pkt.conn] = m]
      PROVE  delivered'[c] = delivered[c]
  <2>1. delivered = [d \in Conns |-> delivered[d]]
    BY DEF Latest
  <2> QED
    BY <1>2, <2>1
<1>3. ASSUME NEW rpc_len \in Words, SoleSegment(rpc_len)
      PROVE  UNCHANGED <<tcpHashTable, memory, sent>> /\ delivered'[c] = delivered[c]
  BY <1>2, <1>3 DEF SoleSegment, table
<1>4. ASSUME NEW rpc_len \in Words, TooLarge(rpc_len)
      PROVE  UNCHANGED <<tcpHashTable, memory, sent, delivered>>
  BY <1>4 DEF TooLarge, table
<1>5. ASSUME NEW rpc_len \in Words, FirstSegment(rpc_len)
      PROVE  /\ FragmentsOf(c)' = FragmentsOf(c) /\ UNCHANGED <<sent, delivered>>
             /\ \A f \in Fragments : memory'[f.buffer] = memory[f.buffer]
  <2>1. PICK e \in tcpFragment :
                /\ Fragments' = Fragments \cup {e}
                /\ e.key = [conn |-> pkt.conn,
                             nextSeq |-> (e.firstSeq + tcpPayloadLength(pkt.cnt)) % WORD]
                /\ \A g \in Fragments : memory'[g.buffer] = memory[g.buffer]
    BY <1>5, FirstSegmentKept
  <2>2. e.key.conn # c
    BY <2>1
  <2> QED
    BY <1>5, <2>1, <2>2 DEF FirstSegment, FragmentsOf
<1>6. ASSUME Known(Key) PROVE Found(Key).key.conn # c
  <2>1. Found(Key).key = Key
    BY <1>6, FilledExact
  <2> QED
    BY <2>1 DEF Key
<1>7. ASSUME NextSegment
      PROVE  /\ FragmentsOf(c)' = FragmentsOf(c) /\ UNCHANGED <<sent, delivered>>
             /\ \A f \in FragmentsOf(c) : memory'[f.buffer] = memory[f.buffer]
  <2>1. PICK e \in tcpFragment :
                /\ Fragments' = (Fragments \ {Found(Key)}) \cup {e}
                /\ e.key = [conn |-> pkt.conn,
                            nextSeq |-> (th_seq + tcpPayloadLength(pkt.cnt - 1)) % WORD]
                /\ \A g \in Fragments \ {Found(Key)} : memory'[g.buffer] = memory[g.buffer]
    BY <1>7, NextSegmentKept
  <2>2. e.key.conn # c /\ Found(Key).key.conn # c /\ UNCHANGED <<sent, delivered>>
    BY <1>6, <1>7, <2>1 DEF NextSegment
  <2> QED
    BY <2>1, <2>2 DEF FragmentsOf
<1>8. ASSUME LastSegment
      PROVE  /\ FragmentsOf(c)' = FragmentsOf(c) /\ UNCHANGED sent
             /\ \A f \in FragmentsOf(c) : memory'[f.buffer] = memory[f.buffer]
             /\ delivered'[c] = delivered[c]
  <2>1. Known(Key) /\ Key \in Ids
    BY <1>8, SegmentTypes DEF LastSegment, IInv
  <2>2. /\ Fragments' = Fragments \ {Found(Key)}
        /\ \A g \in Fragments' : memory'[g.buffer] = memory[g.buffer]
    BY <1>8, <2>1, ReleaseKept DEF LastSegment, IInv
  <2>3. Found(Key).key.conn # c
    BY <1>6, <2>1
  <2>4. UNCHANGED sent /\ delivered'[c] = delivered[c]
    BY <1>2, <1>8 DEF LastSegment
  <2> QED
    BY <2>2, <2>3, <2>4 DEF FragmentsOf
<1> QED
  BY <1>1, <1>3, <1>4, <1>5, <1>7, <1>8 DEF FragmentsOf

\* A step of the loop with a packet.
Processing ==
    /\ Looping
    /\ \/ \E rpc_len \in Words :
             SoleSegment(rpc_len) \/ TooLarge(rpc_len) \/ FirstSegment(rpc_len)
       \/ LastSegment \/ NextSegment

LEMMA WholeKept ==
    ASSUME IInv, Frame, net.aligned, net.lossless, Faithful, Whole, [Next]_vars
    PROVE  Whole'
<1>1. net' = net /\ net \in Networks /\ Timely' /\ net.conns \subseteq Conns
  <2>1. net' = net /\ net \in Networks
    BY DEF Next, vars, IInv, Types
  <2>2. net.conns \subseteq Conns
    BY <2>1, Constants, Zenon
  <2> QED
    BY <2>1, <2>2, TimelyKept DEF Whole
<1>2. CASE Processing
  <2>1. pkt.conn \in net.conns
    BY <1>2, InLoop DEF Processing, Whole
  <2>2. pkt' = NoPacket
    BY <1>2, <2>1, PacketFollowed DEF Processing, Whole
  <2>3. ASSUME NEW c \in net.conns PROVE Followed(c)'
    <3>1. CASE c = pkt.conn
      BY <1>2, <3>1, PacketFollowed DEF Processing, Whole
    <3>2. CASE c # pkt.conn
      <4>1. /\ FragmentsOf(c)' = FragmentsOf(c)
            /\ \A f \in FragmentsOf(c) : memory'[f.buffer] = memory[f.buffer]
            /\ UNCHANGED sent
            /\ delivered'[c] = delivered[c]
        BY <1>1, <1>2, <3>2, StreamsApart DEF Processing, Whole
      <4> QED
        BY <1>2, <2>2, <3>2, <4>1, OthersFollowed DEF Processing, Whole
    <3> QED
      BY <3>1, <3>2
  <2>4. Latest'
    <3>1. UNCHANGED sent
      BY <1>2 DEF Processing, SoleSegment, TooLarge, FirstSegment, LastSegment, NextSegment
    <3>2. delivered' = [c \in Conns |-> delivered'[c]]
      <4>1. delivered = [c \in Conns |-> delivered[c]]
        BY DEF Whole, Latest
      <4>2. \/ delivered' = delivered
            \/ \E m : delivered' = [delivered EXCEPT ![pkt.conn] = m]
        BY <1>2 DEF Processing, SoleSegment, TooLarge, FirstSegment, LastSegment, NextSegment
      <4> QED
        BY <4>1, <4>2
    <3> QED
      BY <1>1, <2>2, <3>1, <3>2 DEF Whole, Latest
  <2> QED
    BY <1>1, <2>3, <2>4 DEF Whole
<1>3. ASSUME NEW c \in net.conns, Capture(c) PROVE Whole'
  <2>1. PICK from \in 0..StreamEnd, len \in 0..MaxSegment, pad \in net.paddings,
             s \in net.snaplens :
        /\ len + pad > 0 /\ from = sent[c]
        /\ pkt' = [conn |-> c, from |-> from, len |-> len,
                   cap |-> IF len + pad <= s THEN len + pad ELSE s,
                   off |-> 0, cnt |-> 1]
        /\ sent' = [sent EXCEPT ![c] = from + len]
    BY <1>3 DEF Capture
  <2>2. UNCHANGED <<tcpHashTable, memory, delivered>> /\ pkt = NoPacket
    BY <1>3 DEF Capture, Idle, table
  <2>3. pad = 0
    BY <1>1, <2>1 DEF Faithful
  <2>4. len + pad = len /\ len # 0 /\ len <= s
    <3>1. MaxSegment \in Nat
      BY Constants, UnsignedsInt DEF Unsigneds
    <3>2. MaxSegment <= s /\ s \in Nat \ {0}
      BY <1>1, Constants, Zenon
    <3> QED
      BY <2>1, <2>3, <3>1, <3>2
  <2>9. pkt' = [conn |-> c, from |-> from, len |-> len, cap |-> len, off |-> 0, cnt |-> 1]
    BY <2>1, <2>4
  <2>5. pkt' # NoPacket
    BY <2>1 DEF NoPacket
  <2>6. sent' = [d \in Conns |-> IF d = c THEN from + len ELSE sent[d]]
    BY <2>1 DEF Whole, Latest
  <2>7. Latest'
    BY <1>1, <2>1, <2>2, <2>4, <2>5, <2>6, <2>9 DEF Whole, Latest
  <2>8. ASSUME NEW d \in net.conns PROVE Followed(d)'
    <3>1. Reached(d)' = Reached(d)
      BY <1>1, <2>1, <2>2, <2>5, <2>6 DEF Reached
    <3>2. FragmentsOf(d)' = FragmentsOf(d)
      BY <2>2 DEF FragmentsOf, Fragments
    <3> QED
      BY <2>2, <3>1, <3>2, FollowedFrame DEF Whole
  <2> QED
    BY <1>1, <2>7, <2>8 DEF Whole
<1>4. CASE Clock \/ CullYoung \/ CullDone \/ UNCHANGED vars
  <2>1. UNCHANGED <<tcpHashTable, memory, pkt, sent, delivered>>
    BY <1>4 DEF Clock, CullYoung, CullDone, table, vars
  <2>2. Latest'
    BY <1>1, <2>1 DEF Whole, Latest
  <2>3. ASSUME NEW d \in net.conns PROVE Followed(d)'
    <3>1. Reached(d)' = Reached(d) /\ FragmentsOf(d)' = FragmentsOf(d)
      BY <2>1 DEF Reached, FragmentsOf, Fragments
    <3> QED
      BY <2>1, <3>1, FollowedFrame DEF Whole
  <2> QED
    BY <1>1, <2>2, <2>3 DEF Whole
<1>5. ~ CullOld
  <2> SUFFICES ASSUME Culling PROVE ~ Expired(curr)
    BY DEF CullOld
  <2>1. curr \in Fragments
    BY DEF Culling, curr, Chain, Fragments, IInv, Types
  <2> QED
    BY <2>1, NoneExpired DEF Whole
<1>6. ASSUME LastSegment \/ NextSegment PROVE Processing
  BY <1>6 DEF Processing, LastSegment, NextSegment
<1> QED
  BY <1>2, <1>3, <1>4, <1>5, <1>6 DEF Next, Processing

\* On a stream that is captured whole no message of at most MAXRPC bytes is lost or
\* damaged: the first segment, the subsequent ones and the sole one all find their
\* place, at every size of segment, with other streams' segments between them.
THEOREM EveryMessageDelivered ==
    Aligned /\ Faithful => (Spec => []MessageDelivered)
<1> SUFFICES ASSUME Aligned, Faithful PROVE Spec => []MessageDelivered
  OBVIOUS
<1> DEFINE Inv == net.lossless => Whole
<1>1. Init => Inv
  <2> SUFFICES ASSUME Init, net.lossless PROVE Whole
    OBVIOUS
  <2>1. Fragments = {} /\ net \in Networks /\ now = net.start /\ pkt = NoPacket
    BY DEF Init, Fragments
  <2>2. Timely
    <3>1. net.start \in 0..MaxTime /\ MAX_AGE <= net.start /\ MaxTime \in Nat
      <4>1. net.start \in 0..MaxTime
        BY <2>1, Constants, Zenon
      <4> QED
        BY <2>1, <4>1, Constants, UnsignedsInt DEF Faithful, Unsigneds
    <3> QED
      BY <2>1, <3>1 DEF Timely
  <2>3. Latest
    BY <2>1 DEF Init, Latest
  <2>4. ASSUME NEW c \in net.conns PROVE Followed(c)
    <3>1. c \in Conns
      BY <2>1, Constants, Zenon
    <3>2. 1 \in 1..Len(MarkAt) /\ MarkAt[1] = 0
      BY Marks
    <3>3. AtMark(c, 1)
      BY <2>1, <3>1, <3>2 DEF Init, AtMark, Reached, FragmentsOf
    <3> QED
      BY <3>2, <3>3 DEF Followed
  <2> QED
    BY <2>2, <2>3, <2>4 DEF Whole
<1>2. IInv /\ net.aligned /\ Frame /\ Inv /\ [Next]_vars => Inv'
  <2> SUFFICES ASSUME IInv, net.aligned, Frame, Inv, [Next]_vars, net'.lossless PROVE Whole'
    OBVIOUS
  <2>1. net' = net
    BY DEF Next, vars
  <2> QED
    BY <2>1, WholeKept
<1>3. IInv /\ Inv => MessageDelivered
  <2> SUFFICES ASSUME IInv, Whole, NEW c \in Conns, NEW m \in MsgNums, Idle,
                      sent[c] = MarkAt[m + 1]
               PROVE  delivered[c] = Body(m)
    BY DEF MessageDelivered
  <2>1. /\ m \in 1..Len(MarkAt) /\ m + 1 \in 1..Len(MarkAt) /\ m \in Nat \ {0}
        /\ MARK \in Nat \ {0} /\ MarkAt[m] \in Nat /\ MarkAt[m] + MARK <= MarkAt[m + 1]
    <3>1. m \in 1..Len(MarkAt) /\ m + 1 \in 1..Len(MarkAt) /\ m \in Nat \ {0} /\ m < m + 1
      BY Marks DEF MsgNums
    <3> QED
      BY <3>1, Marks
  <2>2. c \in net.conns
    <3> SUFFICES ASSUME c \notin net.conns PROVE FALSE
      OBVIOUS
    <3>1. sent[c] = 0
      BY DEF Whole, Latest
    <3> QED
      BY <2>1, <3>1
  <2>3. Reached(c) = MarkAt[m + 1] /\ Followed(c)
    BY <2>2 DEF Idle, Reached, Whole
  <2>4. \A n \in 1..Len(MarkAt) : /\ n \in Nat /\ MarkAt[n] \in Nat
                                  /\ n < m + 1 => MarkAt[n] + MARK <= MarkAt[m + 1]
                                  /\ m + 1 < n => MarkAt[m + 1] + MARK <= MarkAt[n]
    BY <2>1, Marks
  <2>5. ASSUME NEW n \in 1..Len(MarkAt), AtMark(c, n) PROVE delivered[c] = Body(m)
    <3>1. MarkAt[n] = MarkAt[m + 1]
      BY <2>3, <2>5 DEF AtMark
    <3>2. n = m + 1
      BY <2>1, <2>4, <3>1
    <3>3. n > 1 /\ n - 1 = m
      BY <2>1, <3>2
    <3> QED
      BY <2>5, <3>3 DEF AtMark
  <2>6. ASSUME NEW n \in MsgNums, InBody(c, n) PROVE FALSE
    <3>1. /\ n \in 1..Len(MarkAt) /\ n + 1 \in 1..Len(MarkAt)
          /\ MarkAt[n] \in Nat /\ MarkAt[n + 1] \in Nat /\ n \in Nat
      BY Marks DEF MsgNums
    <3>2. MarkAt[m + 1] \in (MarkAt[n] + MARK)..(MarkAt[n + 1] - 1)
      BY <2>3, <2>6 DEF InBody
    <3>3. MarkAt[n] < MarkAt[m + 1] /\ MarkAt[m + 1] < MarkAt[n + 1]
      BY <2>1, <3>1, <3>2
    <3>4. ~ (m + 1 < n) /\ m + 1 # n
      BY <2>1, <2>4, <3>1, <3>3
    <3>5. ~ (n + 1 < m + 1) /\ n + 1 # m + 1
      BY <2>1, <2>4, <3>1, <3>3
    <3> QED
      BY <2>1, <3>1, <3>4, <3>5
  <2> QED
    BY <2>3, <2>5, <2>6 DEF Followed
<1> HIDE DEF Inv
<1>4. IInv /\ (net.aligned => Frame /\ Content) => IInv /\ net.aligned /\ Frame
  BY DEF IInv, Types, Aligned
<1>5. IInv /\ (net.aligned => Frame /\ Content) /\ Inv /\ [Next]_vars => Inv'
  BY <1>2, <1>4
<1> QED
  BY <1>1, <1>3, <1>5, AlignedInvariant, PTL DEF Spec
=============================================================================
