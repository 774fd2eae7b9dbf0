--------------------------- MODULE RpcLoopProofs ---------------------------
(***************************************************************************)
(* Proofs about the loop of processPacket, for every word size, every      *)
(* length of the headers and of the packet, and every content.  The        *)
(* arithmetic of u_int32_t wraps around; IInv says where it cannot.        *)
(***************************************************************************)
EXTENDS RpcLoop, CommonProofs

\* Between the while and the end of the body the message starts at `consumed';
\* in a reassembly buffer it is alone and as long as the buffer, so that the loop
\* comes back only to leave (nfsrecord.c:361-364, 546).
InMessage ==
    /\ pc = "rpc" => consumed = start
    /\ buffer /\ pc = "rpc" => start = 0 /\ tot_len = rpc_len
    /\ buffer /\ pc = "loop" => consumed = tot_len

\* The first message of a packet starts behind the headers, and the frame is
\* short of half the range of a word.
FirstMessage ==
    /\ tot_len < WORD \div 2
    /\ pc = "loop" /\ cnt = 0 => consumed = h_len
    /\ pc = "rpc" => cnt > 0
    /\ pc = "rpc" /\ cnt = 1 => consumed = h_len /\ printed = Nothing

IInv ==
    /\ TypeOK
    /\ BufferFreed
    /\ AtMessageEnd
    /\ FirstStatusOwn
    /\ InMessage
    /\ FirstMessage
-----------------------------------------------------------------------------
\* A u_int32_t of which the carry was dropped before goes on as if it had not
\* been: what makes `consumed += payload_len' right although payload_len may
\* have wrapped (nfsrecord.c:499, 546).
LEMMA Wraps ==
    /\ WORD \in Nat \ {0}
    /\ \A n \in Int : u32(n) \in 0..(WORD - 1)
    /\ \A n \in 0..(WORD - 1) : u32(n) = n
    /\ \A a, b \in Int : u32(a + u32(b)) = u32(a + b)
<1>1. WORD \in Nat \ {0}
  BY RpcLoopAssumption
<1>2. /\ \A n \in Int : n % WORD \in 0..(WORD - 1)
      /\ \A n \in 0..(WORD - 1) : n % WORD = n
      /\ \A a, b \in Int : (a + (b % WORD)) % WORD = (a + b) % WORD
  BY <1>1, Unsigned, Zenon
<1> QED
  BY <1>1, <1>2 DEF u32

\* Whatever length its header claims, a message that starts at `consumed' ends
\* rpc_len behind it.
LEMMA EndOfMessage ==
    ASSUME TypeOK, NEW len \in Int
    PROVE  u32(consumed + len + payload_len(len)) = u32(consumed + rpc_len)
<1>1. consumed \in Int /\ rpc_len \in Int
  BY RpcLoopAssumption DEF TypeOK
<1>2. u32((consumed + len) + u32(rpc_len - len)) = u32((consumed + len) + (rpc_len - len))
  BY <1>1, Wraps
<1>3. (consumed + len) + (rpc_len - len) = consumed + rpc_len
  BY <1>1
<1> QED
  BY <1>2, <1>3 DEF payload_len

\* The bounds of the frame and of the buffer leave half the range of a word.
LEMMA Bounds ==
    /\ WORD \in Nat /\ HDR \in Nat /\ MaxPayload \in Nat /\ MAXRPC \in Nat
    /\ MAXRPC < WORD \div 2 /\ HDR + MaxPayload < WORD \div 2
    /\ WORD \div 2 \in Nat /\ 2 * (WORD \div 2) <= WORD
    /\ WORD > 0 /\ WORD \div 2 < WORD
    /\ INT_MAX \in Nat /\ INT_MAX < WORD \div 2
  BY RpcLoopAssumption DEF INT_MAX

\* The program before its first packet.
LEMMA InitIInv == Init => IInv
<1> SUFFICES ASSUME Init PROVE IInv
  OBVIOUS
<1>1. TypeOK
  <2>1. 0 \in 0..(WORD - 1)
    BY Bounds
  <2>2. buffer \in BOOLEAN
    BY Zenon DEF Init
  <2> QED
    BY <2>1, <2>2 DEF Init, TypeOK
<1>2. BufferFreed /\ AtMessageEnd /\ InMessage
  BY DEF Init, BufferFreed, AtMessageEnd, InMessage
<1>3. FirstStatusOwn /\ FirstMessage
  BY Bounds DEF Init, FirstStatusOwn, FirstMessage, Nothing
<1> QED
  BY <1>1, <1>2, <1>3 DEF IInv

\* One step per action of the loop (nfsrecord.c:297-558).
LEMMA NextIInv == IInv /\ [Next]_vars => IInv'
<1> SUFFICES ASSUME IInv, [Next]_vars PROVE IInv'
  OBVIOUS
<1> USE Bounds DEF IInv
<1>t. /\ tot_len \in Nat /\ consumed \in Nat /\ h_len \in Nat /\ rpc_len \in Nat
      /\ start \in Nat /\ cnt \in 0..2
      /\ consumed < WORD /\ start < WORD /\ rpc_len < WORD /\ tot_len < WORD
  BY DEF TypeOK
<1>1. ASSUME Packet PROVE IInv'
  <2>1. PICK size \in 1..MaxPayload :
            /\ tot_len' = HDR + size
            /\ length' \in 0..size
            /\ rpc_len' = IF proto' = "udp" THEN size ELSE 0
    BY <1>1 DEF Packet
  <2>2. /\ pc' = "loop" /\ proto' \in {"tcp", "udp"} /\ consumed' = HDR /\ h_len' = HDR
        /\ start' = HDR /\ cnt' = 0 /\ buffer' = FALSE /\ printed' = Nothing /\ rc' = rc
    BY <1>1 DEF Packet
  <2>3. TypeOK'
    <3>1. {tot_len', consumed', rpc_len', start', length'} \subseteq 0..(WORD - 1)
      BY <2>1, <2>2
    <3>2. buffer' \in BOOLEAN
      BY <2>2, Zenon
    <3> QED
      BY <2>2, <3>1, <3>2 DEF TypeOK
  <2>4. BufferFreed' /\ AtMessageEnd' /\ InMessage'
    BY <2>2 DEF BufferFreed, AtMessageEnd, InMessage
  <2>5. FirstStatusOwn' /\ FirstMessage'
    BY <2>1, <2>2 DEF FirstStatusOwn, FirstMessage, Nothing
  <2> QED
    BY <2>3, <2>4, <2>5
<1>2. ASSUME LoopEnd PROVE IInv'
  BY <1>2, <1>t DEF LoopEnd, ReturnFreeing, frame, TypeOK, BufferFreed,
     AtMessageEnd, FirstStatusOwn, InMessage, FirstMessage
<1>3. ASSUME UdpMessage PROVE IInv'
  BY <1>3, <1>t DEF UdpMessage, Iterate, frame, TypeOK, BufferFreed, AtMessageEnd,
     FirstStatusOwn, InMessage, FirstMessage, Nothing
<1>4. ASSUME TcpSole PROVE IInv'
  <2>1. consumed' = consumed + 1 /\ consumed + 1 < WORD /\ ~ buffer
    BY <1>4, <1>t, Wraps DEF TcpSole, Iterate, SkipMark, InMessage, FirstMessage
  <2> QED
    BY <1>4, <1>t, <2>1 DEF TcpSole, Iterate, SkipMark, frame, TypeOK, BufferFreed,
       AtMessageEnd, FirstStatusOwn, InMessage, FirstMessage, Nothing
<1>5. ASSUME TcpFirst PROVE IInv'
  <2>1. consumed' = consumed + 1 /\ consumed + 1 < WORD /\ ~ buffer
    BY <1>5, <1>t, Wraps DEF TcpFirst, Iterate, SkipMark, InMessage, FirstMessage
  <2> QED
    BY <1>5, <1>t, <2>1 DEF TcpFirst, Iterate, SkipMark, Return, frame, TypeOK,
       BufferFreed, AtMessageEnd, FirstStatusOwn, InMessage, FirstMessage, Nothing
<1>6. ASSUME TcpComplete PROVE IInv'
  BY <1>6, <1>t DEF TcpComplete, Iterate, UseBuffer, frame, TypeOK, BufferFreed,
     AtMessageEnd, FirstStatusOwn, InMessage, FirstMessage, Nothing
<1>7. ASSUME TcpSubsequent PROVE IInv'
  BY <1>7, <1>t DEF TcpSubsequent, Iterate, Return, frame, TypeOK, BufferFreed,
     AtMessageEnd, FirstStatusOwn, InMessage, FirstMessage, Nothing
<1>8. ASSUME BadHeader PROVE IInv'
  BY <1>8, <1>t DEF BadHeader, ReturnFreeing, frame, TypeOK, BufferFreed,
     AtMessageEnd, FirstStatusOwn, InMessage, FirstMessage
<1>9. ASSUME NEW rh_len \in 1..INT_MAX, HeaderOnly(rh_len) PROVE IInv'
  <2>1. consumed' \in 0..(WORD - 1)
    BY <1>9, <1>t, Wraps DEF HeaderOnly
  <2>2. /\ pc = "rpc"
        /\ \/ consumed' = tot_len /\ pc' = "loop" /\ rc' = rc /\ buffer' = buffer
           \/ pc' = "idle" /\ rc' = 1 /\ buffer' = FALSE
        /\ UNCHANGED <<proto, length, tot_len, h_len, rpc_len, start, cnt, printed>>
    BY <1>9 DEF HeaderOnly, ReturnFreeing, frame
  <2>3. TypeOK'
    BY <2>1, <2>2 DEF TypeOK
  <2>4. BufferFreed' /\ AtMessageEnd' /\ InMessage'
    BY <1>t, <2>2 DEF BufferFreed, AtMessageEnd, InMessage
  <2>5. FirstStatusOwn' /\ FirstMessage'
    BY <1>t, <2>2 DEF FirstStatusOwn, FirstMessage
  <2> QED
    BY <2>3, <2>4, <2>5
<1>10. ASSUME NEW rh_len \in 1..INT_MAX, Call(rh_len) PROVE IInv'
  <2>1. consumed' = u32(start + rpc_len) /\ consumed' \in 0..(WORD - 1)
    BY <1>10, <1>t, Wraps, EndOfMessage DEF Call, InMessage
  <2>2. buffer => consumed' = tot_len
    BY <1>10, <1>t, <2>1, Wraps DEF Call, InMessage
  <2> QED
    BY <1>10, <1>t, <2>1, <2>2 DEF Call, PrintRecord, frame, TypeOK, BufferFreed,
       AtMessageEnd, FirstStatusOwn, InMessage, FirstMessage, Nothing
<1>11. ASSUME NEW rh_len \in 1..INT_MAX, Reply(rh_len) PROVE IInv'
  <2>1. consumed' = u32(start + rpc_len) /\ consumed' \in 0..(WORD - 1)
    BY <1>11, <1>t, Wraps, EndOfMessage DEF Reply, InMessage
  <2>2. buffer => consumed' = tot_len
    BY <1>11, <1>t, <2>1, Wraps DEF Reply, InMessage
  <2>3. u32(consumed + rh_len + 2) = consumed + rh_len + 2
    BY <1>11, <1>t, Wraps DEF Reply, FirstMessage
  <2> QED
    BY <1>11, <1>t, <2>1, <2>2, <2>3 DEF Reply, StatusAt, PrintRecord, frame,
       TypeOK, BufferFreed, AtMessageEnd, FirstStatusOwn, InMessage, FirstMessage,
       Nothing
<1>12. CASE UNCHANGED vars
  BY <1>12 DEF vars, frame, TypeOK, BufferFreed, AtMessageEnd, FirstStatusOwn,
     InMessage, FirstMessage
<1> QED
  BY <1>1, <1>2, <1>3, <1>4, <1>5, <1>6, <1>7, <1>8, <1>9, <1>10, <1>11, <1>12 DEF
     Next, Process

\* The inductive invariant of the loop.
THEOREM LoopInvariant == Spec => []IInv
  BY InitIInv, NextIInv, PTL DEF Spec

\* Every length of processPacket stays in the range of a u_int32_t.
THEOREM LengthsTyped == Spec => []TypeOK
<1>1. IInv => TypeOK
  BY DEF IInv
<1> QED
  BY <1>1, LoopInvariant, PTL

\* No return of processPacket leaves the reassembly buffer allocated, although
\* those at nfsrecord.c:338, 346 and 374 do not look at it.
THEOREM BufferAlwaysFreed == Spec => []BufferFreed
<1>1. IInv => BufferFreed
  BY DEF IInv
<1> QED
  BY <1>1, LoopInvariant, PTL

\* The loop looks for the next message where the one before ends, whatever the
\* lengths in the headers are and wherever the sums wrap (nfsrecord.c:499, 546).
THEOREM NextAtMessageEnd == Spec => []AtMessageEnd
<1>1. IInv => AtMessageEnd
  BY DEF IInv
<1> QED
  BY <1>1, LoopInvariant, PTL

\* The status of the first reply of a packet is read in front of its payload,
\* although the two places are computed from different variables
\* (nfsrecord.c:472-481).
THEOREM FirstStatusRight == Spec => []FirstStatusOwn
<1>1. IInv => FirstStatusOwn
  BY DEF IInv
<1> QED
  BY <1>1, LoopInvariant, PTL
=============================================================================
