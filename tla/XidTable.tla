------------------------------ MODULE XidTable ------------------------------
(***************************************************************************)
(* The table of outstanding RPC calls of nfsdump: xidHashTable with        *)
(* hashInsertXid and hashLookupXid of nfsdump2/nfsrecord.c.  A captured    *)
(* call is entered under (XID, client address, client port); a captured    *)
(* reply takes the newest entry with its key out of the table.  Since      *)
(* replies may never be captured, every insertion also culls one bucket,   *)
(* going round the table, of the entries older than MAX_AGE.               *)
(*                                                                         *)
(* The cull loop is modelled one iteration per step: `cursor' is the       *)
(* position of `curr' in the chain of bucket CullIndex, 0 outside the      *)
(* loop.  Every other action needs cursor = 0, so that nothing runs        *)
(* between two iterations, as in the single-threaded program.              *)
(***************************************************************************)
EXTENDS HashChain, FiniteSets

CONSTANTS
    Xids, Hosts, Ports, \* the XIDs, client addresses and ports that occur
    Procs,              \* what the entry keeps of a call: version, procedure
    HASHSIZE, MAX_AGE,  \* the macros of nfsrecord.c
    WORD,               \* number of values of a u_int32_t timestamp
    StartTime, MaxTime, \* bounds of the packets' timestamps
    MaxBack,            \* how far a timestamp may be before the previous one
    MaxChain            \* bound on the length of a chain

ASSUME XidTableAssumption ==
    /\ Xids \subseteq Nat /\ Hosts \subseteq Nat /\ Ports \subseteq Nat
    /\ HASHSIZE \in Nat \ {0}
    /\ MAX_AGE \in Nat /\ WORD \in Nat \ {0}
    /\ MaxTime \in 0..(WORD - 1) /\ StartTime \in 0..MaxTime
    /\ MaxBack \in Nat /\ MaxChain \in Nat

VARIABLES
    xidHashTable,   \* the chains, newest entry first
    xidHashElemCnt,
    CullIndex,      \* the bucket culled next, or being culled
    cursor,         \* position of `curr' in the cull loop, 0 outside of it
    now,            \* timestamp of the packet being processed
    found           \* what the last reply found: an entry, or NoEntry

vars == <<xidHashTable, xidHashElemCnt, CullIndex, cursor, now, found>>

Keys == [xid : Xids, host : Hosts, port : Ports]
Times == 0..MaxTime
Buckets == 0..(HASHSIZE - 1)
hash_t == [key : Keys, proc : Procs, call_time : Times]
NoEntry == [key |-> "none"]

HASH(k) ==
    ((k.xid % HASHSIZE) + (k.host % HASHSIZE) + (k.port % HASHSIZE)) % HASHSIZE

\* A wrong bound: an entry of exactly MAX_AGE seconds counts as garbage.
Expired_OrEqual(entry) == entry.call_time <= (now - MAX_AGE) % WORD

\* `then' is unsigned: it wraps when the time is below MAX_AGE.
Expired(entry) == entry.call_time < (now - MAX_AGE) % WORD

\* A wrong way round the table: not moving at all.
NextBucket_Stuck(b) == b

\* The bucket whose turn it is after b.
NextBucket(b) == (b + 1) % HASHSIZE

Init ==
    /\ xidHashTable = [b \in Buckets |-> <<>>]
    /\ xidHashElemCnt = 0
    /\ CullIndex = 0
    /\ cursor = 0
    /\ now = StartTime
    /\ found = NoEntry

\* The next packet's timestamp: later, or earlier by at most MaxBack when
\* the clock of the capturing host was set back.
Clock ==
    /\ cursor = 0
    /\ now' \in {t \in Times : t # now /\ t >= now - MaxBack}
    /\ UNCHANGED <<xidHashTable, xidHashElemCnt, CullIndex, cursor, found>>

\* A wrong removal: the element count is left alone.
RemoveEntry_Uncounted(k) ==
    /\ xidHashTable' = [xidHashTable EXCEPT ![HASH(k)] = Unlink(@, k)]
    /\ UNCHANGED xidHashElemCnt

\* The body of hashLookupXid once it has found an entry with key k.
RemoveEntry(k) ==
    /\ xidHashTable' = [xidHashTable EXCEPT ![HASH(k)] = Unlink(@, k)]
    /\ xidHashElemCnt' = xidHashElemCnt - 1

Known(k) == FirstMatch(xidHashTable[HASH(k)], k) # 0

\* The new entry at the head of the chain of bucket b.
InsertInto(b, k, proc) ==
    /\ Len(xidHashTable[b]) < MaxChain
    /\ xidHashTable' = [xidHashTable EXCEPT ![b] =
                           Push(@, [key |-> k, proc |-> proc, call_time |-> now])]

\* The part of hashInsertXid that fills the new entry and links it in.
Enter(k, proc) == InsertInto(HASH(k), k, proc)

\* A captured call: hashInsertXid up to the start of its cull loop.
hashInsertXid(k, proc) ==
    /\ cursor = 0
    /\ Enter(k, proc)
    /\ xidHashElemCnt' = xidHashElemCnt + 1
    /\ cursor' = 1
    /\ UNCHANGED <<CullIndex, now, found>>

\* The entry the cull loop looks at.
Chain == xidHashTable[CullIndex]
Culling == cursor \in DOMAIN Chain
curr == Chain[cursor]

\* An iteration that removes: not curr, but what the lookup of curr's key
\* returns.  That entry is at or before curr, so `next', saved before, is
\* now at curr's position.
CullOld ==
    /\ Culling /\ Expired(curr)
    /\ Known(curr.key)                      \* the assertion of the loop
    /\ RemoveEntry(curr.key)
    /\ UNCHANGED <<CullIndex, cursor, now, found>>

\* An iteration that leaves curr in the table.
CullYoung ==
    /\ Culling /\ ~ Expired(curr)
    /\ cursor' = cursor + 1
    /\ UNCHANGED <<xidHashTable, xidHashElemCnt, CullIndex, now, found>>

\* The end of the loop and of hashInsertXid.
CullDone ==
    /\ cursor > Len(Chain)
    /\ CullIndex' = NextBucket(CullIndex)
    /\ cursor' = 0
    /\ UNCHANGED <<xidHashTable, xidHashElemCnt, now, found>>

\* A captured reply to a call of the table; processPacket frees the entry.
ReplyMatched(k) ==
    /\ cursor = 0
    /\ Known(k)
    /\ found' = xidHashTable[HASH(k)][FirstMatch(xidHashTable[HASH(k)], k)]
    /\ RemoveEntry(k)
    /\ UNCHANGED <<CullIndex, cursor, now>>

\* A captured reply to no call of the table: printed as an unknown v3 reply.
ReplyUnknown(k) ==
    /\ cursor = 0
    /\ ~ Known(k)
    /\ found' = NoEntry
    /\ UNCHANGED <<xidHashTable, xidHashElemCnt, CullIndex, cursor, now>>

Cull == CullOld \/ CullYoung \/ CullDone
Call(k) == \E proc \in Procs : hashInsertXid(k, proc)

Next ==
    \/ Clock
    \/ \E k \in Keys : Call(k) \/ ReplyMatched(k) \/ ReplyUnknown(k)
    \/ Cull

Spec == Init /\ [][Next]_vars

\* The cull loop runs to its end; nothing is assumed of the traffic.
FairSpec == Spec /\ WF_vars(Cull)
-----------------------------------------------------------------------------
\* Types: each chain holds call entries, and the cull loop's cursor stops at
\* most one past the end of the chain it walks (nfsrecord.c:1009).
TypeOK ==
    /\ xidHashTable \in [Buckets -> Seq(hash_t)]
    /\ xidHashElemCnt \in Int
    /\ CullIndex \in Buckets
    /\ cursor \in 0..(Len(Chain) + 1)
    /\ now \in Times
    /\ found \in hash_t \cup {NoEntry}

\* Every entry is in the bucket its key hashes to, so that a lookup searches
\* the chain that could hold its key and no call is lost in another one.
InItsBucket ==
    \A b \in Buckets : \A i \in DOMAIN xidHashTable[b] :
        HASH(xidHashTable[b][i].key) = b

\* The entries of the table, by place.
Slots == UNION {{b} \X DOMAIN xidHashTable[b] : b \in Buckets}

\* xidHashElemCnt, the "hash elements" figure of the summary log, is the number
\* of entries in the chains, also in the middle of the cull loop, which
\* removes through hashLookupXid.
CountExact == xidHashElemCnt = Cardinality(Slots)

\* The assertion of the cull loop (nfsrecord.c:1015) never fails: the lookup of
\* an expired entry's key finds an entry, in the very chain the loop walks.
CullAssert ==
    Culling /\ Expired(curr) => HASH(curr.key) = CullIndex /\ Known(curr.key)

\* What the cull loop has still to look at when it is at place i.
Ahead(i) == SubSeq(Chain, i, Len(Chain))

\* The pointer `next' is saved before the removal (nfsrecord.c:1010), and what is
\* removed and freed is found by a lookup of its own, by key, from the head of the
\* bucket that the key hashes to.  All the same each iteration goes on with just
\* the entries that were behind curr: neither `next' nor one behind it is freed or
\* left out, and none is looked at twice.
NextSurvives == [][Culling => Ahead(cursor)' = Ahead(cursor + 1)]_vars

Waiting(k) == {i \in DOMAIN xidHashTable[HASH(k)] :
                  xidHashTable[HASH(k)][i].key = k}
Age(entry) == now - entry.call_time

Stale(k) ==
    \E i \in Waiting(k) : Expired(xidHashTable[HASH(k)][i])

\* What the cull leaves to a reply that is still to come (nfsrecord.c:1012): a
\* key loses an entry to the cull only if it has one of more than MAX_AGE
\* seconds, so a call seen once can be answered for MAX_AGE seconds.  Times
\* below MAX_AGE, where `then' wraps around, are excepted.
FreshKept ==
    [][\A k \in Keys :
        /\ cursor # 0 /\ now >= MAX_AGE
        /\ Cardinality(Waiting(k)') < Cardinality(Waiting(k))
        => \E i \in Waiting(k) : Age(xidHashTable[HASH(k)][i]) > MAX_AGE]_vars

\* The abstract specification, the pending calls of a key being its entries
\* in the order of its chain.
Pending == [k \in Keys |-> EntriesOf(xidHashTable[HASH(k)], k)]
OlderThan(entry, time) == entry.call_time < (time - MAX_AGE) % WORD
Matching ==
    INSTANCE CallMatching WITH
        NoCall <- NoEntry, Expired <- OlderThan, pending <- Pending

\* The table with its buckets and its cull loop implements CallMatching: a
\* reply is unknown only if no call of its key is in the table, is matched
\* with the newest otherwise, and nothing else but an expired key loses calls.
MatchingSpec == Matching!Spec

Insert == \E k \in Keys : Call(k)

\* "To make sure that eventually all the garbage has a chance to be collected"
\* (nfsrecord.c:1000): as long as calls keep coming, the expired entries of a
\* key no longer used all leave the table.
GarbageCollected ==
    \A k \in Keys :
        /\ []<><<Insert>>_vars
        /\ <>[][~ Call(k)]_vars
        => (Stale(k) ~> ~ Stale(k))

\* The comment of the cull loop (nfsrecord.c:998): what it collects is the
\* garbage, the requests that never got a response in MAX_AGE seconds.
OnlyGarbageFreed ==
    [][CullOld =>
        Age(Chain[FirstMatch(Chain, curr.key)]) > MAX_AGE]_vars
=============================================================================
