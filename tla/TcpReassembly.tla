--------------------------- MODULE TcpReassembly ---------------------------
(***************************************************************************)
(* Reassembly of RPC messages from captured TCP segments: the fragment     *)
(* table of nfsdump2/tcp_reassembly.c and the TCP branch of the loop of    *)
(* processPacket (nfsdump2/nfsrecord.c:298-377).                           *)
(*                                                                         *)
(* A byte of a TCP stream is named by its position in the stream, so that  *)
(* a buffer shows which bytes were copied where.  A stream is a sequence   *)
(* of messages, each a record mark of MARK bytes, which holds the length,  *)
(* and a body.  The network may lose, repeat and reorder segments.  Each   *)
(* direction of a connection is a stream of its own.  What becomes of a    *)
(* message once its bytes are found is left open: getRpcHeader may reject  *)
(* it, which ends the packet, or the loop goes on behind it.               *)
(*                                                                         *)
(* As in XidTable, the cull loop of tcpInsert takes one step per iteration *)
(* and everything else waits for it to end.                                *)
(***************************************************************************)
EXTENDS HashChain, FiniteSets

CONSTANTS
    Conns,          \* streams; the number is the addresses' share of HASH
    MarkAt,         \* where a stream's record marks are, and where it ends
    MARK,           \* sizeof (u_int32_t), the size of a record mark
    ISN,            \* sequence number of the first byte of a stream
    WORD,           \* the number of values of a u_int32_t
    MAXRPC,         \* the longest message put together, 16384 in the code
    HASHSIZE, MAX_AGE,
    MaxTime,        \* bound of the packets' timestamps
    Buffers,        \* the buffers malloc may return, a bound on their number
    MaxSegment,     \* bound on the bytes of a segment
    Networks        \* the values of `net'

ASSUME TcpAssumption ==
    /\ Conns \subseteq Nat
    /\ MARK \in Nat \ {0} /\ WORD \in Nat \ {0} /\ ISN \in 0..(WORD - 1)
    /\ MarkAt \in Seq(Nat) /\ Len(MarkAt) > 0 /\ MarkAt[1] = 0
    /\ \A m, n \in 1..Len(MarkAt) : m < n => MarkAt[m] + MARK <= MarkAt[n]
    /\ MAXRPC \in 0..(WORD - 1)
    /\ HASHSIZE \in Nat \ {0} /\ MAX_AGE \in Nat /\ MaxTime \in 0..(WORD - 1)
    /\ MaxSegment \in 0..(WORD - 1)
    /\ \A x \in Networks :
          /\ x.lossless \in BOOLEAN /\ x.aligned \in BOOLEAN
          /\ x.conns \subseteq Conns /\ x.paddings \subseteq Nat
          /\ x.snaplens \subseteq Nat \ {0}
          /\ x.lossless => \A s \in x.snaplens : MaxSegment <= s
          /\ x.garbage \subseteq 0..(WORD - 1) /\ x.start \in 0..MaxTime

\* What the network and the capture do: net.lossless says that each segment is
\* captured once, whole and in order, and within MAX_AGE seconds of the one before
\* it in its message, net.aligned that a segment has no record mark but at its start;
\* net.conns are the streams there are, net.paddings the bytes a frame may have
\* behind its IP packet, net.snaplens how many bytes behind the headers, which are
\* not always as long, the snaplen of nfsdump leaves of a frame, net.garbage the
\* record lengths that are read where no captured record mark starts, net.start is
\* the first timestamp.
VARIABLES
    net,
    tcpHashTable,   \* the chains, newest fragment first
    tcpHashElemCnt,
    CullIndex,      \* the bucket culled next, or being culled
    cursor,         \* position of `curr' in the cull loop, 0 outside of it
    memory,         \* the bytes of each malloc'ed buffer, or Free
    pkt,            \* the packet being processed, or NoPacket
    now,            \* its timestamp
    sent,           \* of each stream, how much was captured, if net.lossless
    delivered       \* of each stream, the last message handed to getRpcHeader

vars == <<net, tcpHashTable, tcpHashElemCnt, CullIndex, cursor, memory, pkt, now,
          sent, delivered>>
table == <<tcpHashTable, tcpHashElemCnt, CullIndex, cursor>>

Buckets == 0..(HASHSIZE - 1)
NoPacket == [conn |-> "none"]
Free == <<>>            \* no buffer of length 0 is allocated
Junk == -1              \* a byte of no stream: not initialised, or not TCP's

\* What is in libpcap's buffer behind the captured bytes, where the byte at this
\* position of the stream would be: anything at all, copied like the others.
Uncaptured(position) == -2 - position

\* The position in the stream that a byte has or is the place of.
Position(byte) == IF byte < Junk THEN -2 - byte ELSE byte
-----------------------------------------------------------------------------
\* The streams.

\* The messages, each of the bytes between two record marks.
MsgNums == 1..(Len(MarkAt) - 1)
MsgLen(m) == MarkAt[m + 1] - MarkAt[m] - MARK
Body(m) == [i \in 0..(MsgLen(m) - 1) |-> MarkAt[m] + MARK + i]
StreamEnd == MarkAt[Len(MarkAt)]

SeqNo(position) == (ISN + position) % WORD

\* The segments a sender may cut its stream into.  Fewer bytes than a record mark
\* are no segment of an aligned stream: tcpPayloadLength would wrap.
Segment(from, len) ==
    /\ from + len <= StreamEnd
    /\ net.aligned =>
          /\ len = 0 \/ len >= MARK
          /\ \A m \in MsgNums :
                /\ ~ (MarkAt[m] \in (from + 1)..(from + len - 1))
                /\ from < MarkAt[m] + MARK /\ from + len > MarkAt[m] => from = MarkAt[m]
-----------------------------------------------------------------------------
\* The fragment table.

Fragments == UNION {{tcpHashTable[b][i] : i \in DOMAIN tcpHashTable[b]} : b \in Buckets}

HASH(k) == ((k.nextSeq % HASHSIZE) + (k.conn % HASHSIZE)) % HASHSIZE

\* A wrong bound: a fragment of exactly MAX_AGE seconds is dropped.
Expired_OrEqual(fragment) == fragment.time <= (now - MAX_AGE) % WORD

\* `then' is unsigned: it wraps when the time is below MAX_AGE.
Expired(fragment) == fragment.time < (now - MAX_AGE) % WORD

Known(k) == FirstMatch(tcpHashTable[HASH(k)], k) # 0

\* What tcpLookup returns for a key that is known, and the table without it.
Found(k) == tcpHashTable[HASH(k)][FirstMatch(tcpHashTable[HASH(k)], k)]
Without(k) == [tcpHashTable EXCEPT ![HASH(k)] = Unlink(@, k)]

\* The bucket whose turn it is after b.
NextBucket(b) == (b + 1) % HASHSIZE

\* Wrong use of free: the buffer is forgotten.
Release_Forgotten(b) == memory

\* free, as called on the buffer of a fragment.
Release(b) == [memory EXCEPT ![b] = Free]

\* tcpInsert into a table t up to the start of its cull loop.
tcpInsert(t, k, buffer, rpc_len, firstSeq) ==
    /\ tcpHashTable' = [t EXCEPT ![HASH(k)] =
            Push(@, [key |-> k, buffer |-> buffer, rpc_len |-> rpc_len,
                     firstSeq |-> firstSeq, time |-> now])]
    /\ cursor' = 1
    /\ UNCHANGED CullIndex
-----------------------------------------------------------------------------
\* The loop of processPacket.  pkt.off is how far the loop is in the payload,
\* pkt.cnt the number of the iteration.

Init ==
    /\ net \in Networks
    /\ tcpHashTable = [b \in Buckets |-> <<>>]
    /\ tcpHashElemCnt = 0
    /\ CullIndex = 0
    /\ cursor = 0
    /\ memory = [b \in Buffers |-> Free]
    /\ pkt = NoPacket
    /\ now = net.start
    /\ sent = [c \in Conns |-> 0]
    /\ delivered = [c \in Conns |-> <<>>]

Idle == pkt = NoPacket /\ cursor = 0

Clock ==
    /\ Idle
    /\ now' \in (now + 1)..MaxTime
    /\ net.lossless => \A f \in Fragments : now' <= f.time + MAX_AGE
    /\ UNCHANGED <<table, memory, pkt, sent, delivered>>

\* A frame with anything behind its TCP header (nfsrecord.c:233), of which the
\* first s bytes at most are captured.
Capture(c) ==
    /\ Idle
    /\ \E b \in Buffers : memory[b] = Free
    /\ \E from \in 0..StreamEnd, len \in 0..MaxSegment, pad \in net.paddings,
          s \in net.snaplens :
        /\ Segment(from, len)
        /\ len + pad > 0
        /\ net.lossless => from = sent[c]
        /\ pkt' = [conn |-> c, from |-> from, len |-> len,
                   cap |-> IF len + pad <= s THEN len + pad ELSE s,
                   off |-> 0, cnt |-> 1]
        /\ sent' = [sent EXCEPT ![c] = IF net.lossless THEN from + len ELSE @]
    /\ UNCHANGED <<table, memory, now, delivered>>

Looping == pkt # NoPacket /\ cursor = 0
th_seq == SeqNo(pkt.from)
Key == [conn |-> pkt.conn, nextSeq |-> th_seq]

\* What a read at offset i of the TCP payload gets: the lengths are those of the
\* headers, so that it may be behind the captured bytes.
Byte(i) ==
    IF i >= pkt.len THEN Junk
    ELSE IF i < pkt.cap THEN pkt.from + i ELSE Uncaptured(pkt.from + i)

\* The message whose record mark is where the loop is, if it was captured.
MarkHere == {m \in MsgNums : /\ MarkAt[m] = pkt.from + pkt.off
                             /\ pkt.off + MARK <= pkt.len
                             /\ pkt.off + MARK <= pkt.cap}

\* What the loop may read as a record mark; padding is zero.
Words ==
    IF pkt.off >= pkt.len THEN {0}
    ELSE IF MarkHere # {} THEN {MsgLen(m) : m \in MarkHere}
    ELSE net.garbage

\* A wrong length: the record mark is taken for payload.
tcpPayloadLength_WithMarks(marks) == pkt.len % WORD

\* length - i_len - h_len, h_len having grown by a mark in each iteration so
\* far: unsigned, and with no regard to the messages before this one.
tcpPayloadLength(marks) == (pkt.len - MARK * marks) % WORD

\* The packet is left, whatever it still holds.
Return == pkt' = NoPacket

\* After a message of the given length: it is rejected, or the loop goes on.
\* Bytes from within a message are assumed not to look like an RPC header.
GoOn(len) ==
    \/ Return
    \/ /\ MarkHere # {}
       /\ pkt.off + MARK + len < pkt.cap
       /\ pkt' = [pkt EXCEPT !.off = @ + MARK + len, !.cnt = @ + 1]

\* tot_len - consumed, which bounds what getRpcHeader and the decoders read:
\* unsigned, and without a bound if the capture ends in the record mark.
Available == (pkt.cap - pkt.off - MARK) % WORD

\* nfsrecord.c:331: the segment seems to hold the whole message, of which what
\* was captured is handed on.
SoleSegment(rpc_len) ==
    /\ Looping /\ ~ Known(Key)
    /\ rpc_len <= tcpPayloadLength(pkt.cnt)
    /\ delivered' = [delivered EXCEPT ![pkt.conn] =
                        [i \in {j \in 0..(rpc_len - 1) : j < Available} |->
                            Byte(pkt.off + MARK + i)]]
    /\ GoOn(rpc_len)
    /\ UNCHANGED <<table, memory, now, sent>>

\* nfsrecord.c:337: return -11.
TooLarge(rpc_len) ==
    /\ Looping /\ ~ Known(Key)
    /\ rpc_len > tcpPayloadLength(pkt.cnt) /\ rpc_len > MAXRPC
    /\ Return
    /\ UNCHANGED <<table, memory, now, sent, delivered>>

\* nfsrecord.c:340: return -12.
FirstSegment(rpc_len) ==
    /\ Looping /\ ~ Known(Key)
    /\ LET copied == tcpPayloadLength(pkt.cnt)
           seq == (th_seq + MARK) % WORD
       IN
       /\ rpc_len > copied /\ rpc_len <= MAXRPC
       /\ \E b \in Buffers :
            /\ memory[b] = Free
            /\ memory' = [memory EXCEPT ![b] =
                    [i \in 0..(rpc_len - 1) |->
                        IF i < copied THEN Byte(pkt.off + MARK + i) ELSE Junk]]
            /\ tcpInsert(tcpHashTable,
                         [conn |-> pkt.conn, nextSeq |-> (seq + copied) % WORD],
                         b, rpc_len, seq)
    /\ tcpHashElemCnt' = tcpHashElemCnt + 1
    /\ Return
    /\ UNCHANGED <<now, sent, delivered>>

\* The fragment of a subsequent segment with the segment copied in, and where
\* the copy starts and ends.  Wrong: a first offset as if the segment had a
\* record mark too, an end not held to the length of the buffer.
firstOffset_BehindMark(f) == (th_seq + MARK - f.firstSeq) % WORD
firstOffset(f) == (th_seq - f.firstSeq) % WORD
lastOffset_Unclipped(f) == firstOffset(f) + tcpPayloadLength(pkt.cnt - 1)
lastOffset(f) ==
    LET end == firstOffset(f) + tcpPayloadLength(pkt.cnt - 1)
    IN  IF end > f.rpc_len THEN f.rpc_len ELSE end
Filled(f) ==
    [i \in 0..(f.rpc_len - 1) |->
        IF i \in firstOffset(f)..(lastOffset(f) - 1)
        THEN Byte(pkt.off + i - firstOffset(f)) ELSE memory[f.buffer][i]]

\* nfsrecord.c:359: the message is complete.  The loop ends with it, since it
\* now has the buffer for packet, and the buffer is freed.
LastSegment ==
    /\ Looping /\ Known(Key)
    /\ LET f == Found(Key) IN
       /\ lastOffset(f) = f.rpc_len
       /\ delivered' = [delivered EXCEPT ![pkt.conn] = Filled(f)]
       /\ memory' = Release(f.buffer)
    /\ tcpHashTable' = Without(Key)
    /\ tcpHashElemCnt' = tcpHashElemCnt - 1
    /\ Return
    /\ UNCHANGED <<CullIndex, cursor, now, sent>>

\* nfsrecord.c:368: return -13.
NextSegment ==
    /\ Looping /\ Known(Key)
    /\ LET f == Found(Key) IN
       /\ lastOffset(f) # f.rpc_len
       /\ memory' = [memory EXCEPT ![f.buffer] = Filled(f)]
       /\ tcpInsert(Without(Key),
                    [conn |-> pkt.conn,
                     nextSeq |-> (th_seq + tcpPayloadLength(pkt.cnt - 1)) % WORD],
                    f.buffer, f.rpc_len, f.firstSeq)
    /\ Return
    /\ UNCHANGED <<tcpHashElemCnt, now, sent, delivered>>
-----------------------------------------------------------------------------
\* The cull loop of tcpInsert.

Chain == tcpHashTable[CullIndex]
Culling == cursor \in DOMAIN Chain
curr == Chain[cursor]

\* As in XidTable, the fragment freed is the one the lookup of curr's key
\* returns, and its buffer goes with it.
CullOld ==
    /\ Culling /\ Expired(curr)
    /\ Known(curr.key)                      \* the assertion of the loop
    /\ memory' = Release(Found(curr.key).buffer)
    /\ tcpHashTable' = Without(curr.key)
    /\ tcpHashElemCnt' = tcpHashElemCnt - 1
    /\ UNCHANGED <<CullIndex, cursor, pkt, now, sent, delivered>>

CullYoung ==
    /\ Culling /\ ~ Expired(curr)
    /\ cursor' = cursor + 1
    /\ UNCHANGED <<tcpHashTable, tcpHashElemCnt, CullIndex, memory, pkt, now, sent,
                   delivered>>

CullDone ==
    /\ cursor > Len(Chain)
    /\ CullIndex' = NextBucket(CullIndex)
    /\ cursor' = 0
    /\ UNCHANGED <<tcpHashTable, tcpHashElemCnt, memory, pkt, now, sent, delivered>>
-----------------------------------------------------------------------------
Next ==
    /\ UNCHANGED net
    /\ \/ Clock
       \/ \E c \in net.conns : Capture(c)
       \/ /\ Looping
          /\ \E rpc_len \in Words :
               SoleSegment(rpc_len) \/ TooLarge(rpc_len) \/ FirstSegment(rpc_len)
       \/ LastSegment
       \/ NextSegment
       \/ CullOld \/ CullYoung \/ CullDone

Spec == Init /\ [][Next]_vars
-----------------------------------------------------------------------------
Slots == UNION {{b} \X DOMAIN tcpHashTable[b] : b \in Buckets}
Progress(f) == (f.key.nextSeq - f.firstSeq) % WORD

\* memcpy stays in the buffer (nfsrecord.c:341, 358): a fragment in the table
\* always lacks at least one byte, its buffer has its length, and the next
\* segment's bytes go behind those it has.
CopyInBounds ==
    \A f \in Fragments : /\ Progress(f) < f.rpc_len
                         /\ memory[f.buffer] # Free
                         /\ DOMAIN memory[f.buffer] = 0..(f.rpc_len - 1)

\* Each malloc'ed buffer belongs to one fragment of the table between packets:
\* none leaks on the -11, -12 and -13 returns, none is freed twice or used by
\* two fragments (nfsrecord.c:340, 364, 372, 386; tcp_reassembly.c:84).
BuffersOwned ==
    /\ Cardinality({b \in Buffers : memory[b] # Free}) = Cardinality(Slots)
    /\ {b \in Buffers : memory[b] # Free} = {f.buffer : f \in Fragments}
    /\ tcpHashElemCnt = Cardinality(Slots)

\* No frame is cut by the snaplen.
CapturedWhole == \A s \in net.snaplens : MaxSegment <= s

\* firstSeq is the "sequence number of start of RPC packet (after rpc_len field)"
\* (tcp_reassembly.h:11): each byte that the buffer has so far is in the place of
\* its sequence number, whatever segments came late or twice.  It is the byte of
\* the stream if no frame is cut by the snaplen; else it may be what was read from
\* behind a frame (nfsrecord.c:341, 358), but in no other byte's place.
FragmentExact ==
    \A f \in Fragments : \A i \in 0..(Progress(f) - 1) :
        /\ memory[f.buffer][i] # Junk
        /\ SeqNo(Position(memory[f.buffer][i])) = (f.firstSeq + i) % WORD
        /\ CapturedWhole => memory[f.buffer][i] >= 0

\* If no segment has a record mark but at its start, a message handed to
\* getRpcHeader (nfsrecord.c:361, 331) is a run of bytes of one stream, none taken
\* twice or left out or moved by a segment that was lost, late, repeated or misread;
\* of those of a frame that the snaplen cut, what was read in their place.
DeliveredContiguous ==
    net.aligned =>
        \A c \in Conns : \A i \in DOMAIN delivered[c] :
            /\ delivered[c][i] # Junk
            /\ i > 0 => Position(delivered[c][i]) = Position(delivered[c][i - 1]) + 1
            /\ CapturedWhole => delivered[c][i] >= 0

\* On a stream captured whole, with each message starting a segment and no gap of
\* more than MAX_AGE seconds in it (Clock excludes such gaps, and says nothing of
\* what is lost after one), every message of at most MAXRPC bytes has been handed
\* on, with exactly its bytes, once its last segment has been processed.
MessageDelivered ==
    \A c \in Conns, m \in MsgNums :
        net.lossless /\ Idle /\ sent[c] = MarkAt[m + 1] => delivered[c] = Body(m)
=============================================================================
