------------------------------ MODULE RpcLoop ------------------------------
(***************************************************************************)
(* The loop of processPacket (nfsdump2/nfsrecord.c:297-558) over the RPC   *)
(* messages of one packet: its arithmetic, its exits, what becomes of the  *)
(* reassembly buffer, and which records are printed from which bytes.      *)
(*                                                                         *)
(* Lengths are counted in words of four bytes, the granularity of XDR, and *)
(* are unsigned modulo WORD as the u_int32_t they stand for.  The bytes of *)
(* the packet are arbitrary: the record mark, the header length that       *)
(* getRpcHeader computes from lengths found in the packet, the direction,  *)
(* the reply's status and the outcome of the two table lookups are chosen  *)
(* in every iteration.                                                     *)
(***************************************************************************)
EXTENDS Integers

CONSTANTS
    WORD,           \* number of values of a u_int32_t count of words
    HDR,            \* e_len + i_len + h_len before the loop
    MaxPayload,     \* bound on the words behind the headers of a frame
    MAXRPC          \* the longest message put together

ASSUME RpcLoopAssumption ==
    /\ WORD \in Nat /\ HDR \in Nat /\ MaxPayload \in Nat /\ MAXRPC \in Nat
    /\ MAXRPC < WORD \div 2 /\ HDR + MaxPayload < WORD \div 2

VARIABLES
    pc,         \* "idle", "loop" (at the while), "rpc" (at getRpcHeader)
    proto,      \* "tcp" or "udp"
    length,     \* the words behind the TCP header according to the IP header
    tot_len, consumed,
    h_len,      \* e_len + i_len + h_len
    rpc_len,
    start,      \* where in the packet the current message starts
    cnt,        \* number of the iteration, 2 standing for any later one
    buffer,     \* whether reassemblyBuffer holds a buffer
    rc,         \* the last return code
    printed     \* the record printed in this iteration, or Nothing

frame == <<proto, length>>
vars == <<pc, frame, tot_len, consumed, h_len, rpc_len, start, cnt, buffer, rc, printed>>

Nothing == [dir |-> "none"]     \* no record

\* Arithmetic of u_int32_t.
u32(n) == n % WORD
INT_MAX == (WORD \div 2) - 1    \* also the mask 0x7fffffff of a record mark

Init ==
    /\ pc = "idle" /\ proto = "udp"
    /\ length = 0 /\ tot_len = 0 /\ consumed = 0 /\ h_len = 0 /\ rpc_len = 0
    /\ start = 0 /\ cnt = 0 /\ buffer = FALSE /\ rc = 0
    /\ printed = Nothing

\* A packet that got past the headers, with at least one word behind them.
\* A short frame is padded, so that the IP packet may end before the frame.
Packet ==
    /\ pc = "idle"
    /\ pc' = "loop"
    /\ proto' \in {"tcp", "udp"}
    /\ \E size \in 1..MaxPayload :
        /\ tot_len' = HDR + size
        /\ length' \in 0..size
        /\ rpc_len' = IF proto' = "udp" THEN size ELSE 0
    /\ consumed' = HDR /\ h_len' = HDR
    /\ start' = HDR /\ cnt' = 0 /\ buffer' = FALSE
    /\ printed' = Nothing
    /\ UNCHANGED rc

\* A wrong return: the buffer is forgotten.
ReturnFreeing_Leaking(code) == pc' = "idle" /\ rc' = code /\ UNCHANGED buffer

\* The returns of the function; those that free the buffer and those that
\* are meant for a time when there is none.
ReturnFreeing(code) == pc' = "idle" /\ rc' = code /\ buffer' = FALSE
Return(code) == pc' = "idle" /\ rc' = code /\ UNCHANGED buffer

\* The while condition fails.
LoopEnd ==
    /\ pc = "loop" /\ consumed >= tot_len
    /\ ReturnFreeing(1)
    /\ UNCHANGED <<frame, tot_len, consumed, h_len, rpc_len, start, cnt, printed>>

Iterate ==
    /\ pc = "loop" /\ consumed < tot_len
    /\ cnt' = IF cnt = 2 THEN 2 ELSE cnt + 1
    /\ printed' = Nothing

UdpMessage ==
    /\ Iterate /\ proto = "udp"
    /\ pc' = "rpc"
    /\ start' = consumed
    /\ UNCHANGED <<frame, tot_len, consumed, h_len, rpc_len, buffer, rc>>

\* length - i_len - h_len, the record marks so far being part of h_len.
tcpPayloadLength(marks) == u32(length - marks - (h_len - HDR))

\* A wrong step over the record mark: nothing is counted.
SkipMark_NotCounted == UNCHANGED <<h_len, consumed>>

\* The record mark, over which each message of a packet goes (nfsrecord.c:315).
SkipMark ==
    /\ h_len' = h_len + 1
    /\ consumed' = u32(consumed + 1)

\* No fragment waits for this segment (nfsrecord.c:321).
TcpSole ==
    /\ Iterate /\ proto = "tcp"
    /\ rpc_len' \in {w \in 0..INT_MAX : w <= tcpPayloadLength(1)}
    /\ SkipMark
    /\ start' = consumed'
    /\ pc' = "rpc"
    /\ UNCHANGED <<frame, tot_len, buffer, rc>>

TcpFirst ==
    /\ Iterate /\ proto = "tcp"
    /\ rpc_len' \in {w \in 0..INT_MAX : w > tcpPayloadLength(1)}
    /\ SkipMark
    /\ IF rpc_len' > MAXRPC THEN Return(-11) ELSE Return(-12)
    /\ UNCHANGED <<frame, tot_len, start>>

\* The buffer takes the place of the packet (nfsrecord.c:361-364).
UseBuffer ==
    /\ tot_len' = rpc_len'
    /\ consumed' = 0 /\ h_len' = 0 /\ start' = 0
    /\ buffer' = TRUE

\* The segment completes a message (nfsrecord.c:361): the loop goes on in the
\* buffer, whose length is the message's.
TcpComplete ==
    /\ Iterate /\ proto = "tcp"
    /\ rpc_len' \in 1..MAXRPC
    /\ UseBuffer
    /\ pc' = "rpc"
    /\ UNCHANGED <<frame, rc>>

TcpSubsequent ==
    /\ Iterate /\ proto = "tcp"
    /\ Return(-13)
    /\ UNCHANGED <<frame, tot_len, consumed, h_len, rpc_len, start>>

\* getRpcHeader rejects the message: -1, or a header length of 0 after the
\* wrap-around of an absurd verifier length.
BadHeader ==
    /\ pc = "rpc"
    /\ ReturnFreeing(0) \/ ReturnFreeing(-5)
    /\ UNCHANGED <<frame, tot_len, consumed, h_len, rpc_len, start, cnt, printed>>

\* A header of rh_len words that ends at or behind the end of the packet.  A
\* null call that ends there goes back to the while, the rest to the end.
HeaderOnly(rh_len) ==
    /\ pc = "rpc" /\ consumed + rh_len >= tot_len
    /\ consumed' = u32(consumed + rh_len)
    /\ \/ consumed' = tot_len /\ pc' = "loop" /\ UNCHANGED <<rc, buffer>>
       \/ ReturnFreeing(1)
    /\ UNCHANGED <<frame, tot_len, h_len, rpc_len, start, cnt, printed>>

\* A wrong payload length: the header is counted in.
payload_len_WithHeader(rh_len) == rpc_len

\* What the message has behind its header.
payload_len(rh_len) == u32(rpc_len - rh_len)

\* The end of the body of the loop.  print_it decides; if the iteration did not
\* assign it, it is a local variable that was never initialised.
PrintRecord(print_it, record) ==
    \/ print_it # "no" /\ printed' = record
    \/ print_it # "yes" /\ printed' = Nothing

\* A call, entered in the XID table.  print_it is not assigned.
Call(rh_len) ==
    /\ pc = "rpc" /\ consumed + rh_len < tot_len
    /\ consumed' = u32(consumed + rh_len + payload_len(rh_len))
    /\ PrintRecord("unset", [dir |-> "call"])
    /\ pc' = "loop"
    /\ UNCHANGED <<frame, tot_len, h_len, rpc_len, start, cnt, buffer, rc>>

\* A wrong place of the status: the end of the verifier.
StatusAt_Early(rh_len) == h_len + rh_len

\* Where processPacket reads the status of a reply.
StatusAt(rh_len) == h_len + rh_len + 1

\* A reply, looked up in the XID table: an unknown one is printed in any case,
\* a known one is not if it was rejected, and else print_it is not assigned.
\* The status is taken from a place computed from the header lengths,
\* everything else from `consumed'.
Reply(rh_len) ==
    /\ pc = "rpc" /\ consumed + rh_len < tot_len
    /\ consumed' = u32(consumed + (rh_len + 2) + payload_len(rh_len + 2))
    /\ \E print_it \in {"yes", "no", "unset"} :
        PrintRecord(print_it, [dir |-> "reply",
                               payload |-> u32(consumed + rh_len + 2),
                               status |-> StatusAt(rh_len)])
    /\ pc' = "loop"
    /\ UNCHANGED <<frame, tot_len, h_len, rpc_len, start, cnt, buffer, rc>>

Process ==
    \/ LoopEnd \/ UdpMessage
    \/ TcpSole \/ TcpFirst \/ TcpComplete \/ TcpSubsequent
    \/ BadHeader
    \/ \E rh_len \in 1..INT_MAX : HeaderOnly(rh_len) \/ Call(rh_len) \/ Reply(rh_len)

Next == Packet \/ Process

Spec == Init /\ [][Next]_vars

\* The function runs; nothing is assumed of the packets.
FairSpec == Spec /\ WF_vars(Process)
-----------------------------------------------------------------------------
\* Types: every length in its unsigned range.
TypeOK ==
    /\ pc \in {"idle", "loop", "rpc"} /\ proto \in {"tcp", "udp"}
    /\ {tot_len, consumed, rpc_len, start, length} \subseteq 0..(WORD - 1)
    /\ h_len \in Nat
    /\ cnt \in 0..2 /\ buffer \in BOOLEAN /\ rc \in {-13, -12, -11, -5, 0, 1}

\* reassemblyBuffer is "free before return if not null" (nfsrecord.c:160): no
\* return leaves it allocated, also not those that do not look at it.
BufferFreed == pc = "idle" => ~ buffer

\* Where another message is looked for (nfsrecord.c:297), the one before ends,
\* whatever the lengths in its header claim (nfsrecord.c:546).
AtMessageEnd ==
    pc = "loop" /\ cnt > 0 /\ consumed < tot_len => consumed = u32(start + rpc_len)

\* processPacket comes to an end on every packet, however absurd its lengths.
LoopTerminates == pc # "idle" ~> pc = "idle"

\* The status printed for a reply is the word before its payload
\* (nfsrecord.c:472-481), if the reply is the first message of its packet.
FirstStatusOwn ==
    printed.dir = "reply" /\ cnt = 1 => printed.status = printed.payload - 1
=============================================================================
