------------------------------ MODULE Headers ------------------------------
(***************************************************************************)
(* From a captured frame to the data of an NFS procedure: getEtherHeader,  *)
(* getIpHeader, getTcpHeader, getUdpHeader, getRpcHeader and get_auth of   *)
(* nfsdump2/nfsrecord.c, as processPacket calls them for the first message *)
(* of a frame.                                                             *)
(*                                                                         *)
(* A frame is built the way its sender builds it, and the functions see of *)
(* it what they read: the half-words behind the two Ethernet addresses     *)
(* (Half) and the words of the RPC message (Word).  A capture may lack the *)
(* last words of a frame; a word that is read all the same has whatever    *)
(* value is found there, and the model takes the most misleading one, that *)
(* which the sender gave it.                                               *)
(***************************************************************************)
EXTENDS Sequences, Integers

CONSTANTS
    Links,              \* kinds of Ethernet frames: "rfc894", "802.3", "vlan"
    Types, Versions,    \* Ethernet types, and versions of IP
    IpOptions, TcpOptions,  \* numbers of words of options
    Offsets,            \* fragment offsets, with the flags
    Protocols,          \* numbers of IP protocols
    MachineNames,       \* lengths of the name in an AUTH_UNIX credential
    Verifiers,          \* lengths of a verifier
    Groups,             \* numbers of groups
    Programs,           \* RPC programs
    Bodies,             \* numbers of words behind the RPC header
    Cuts                \* numbers of words that the capture lacks

ASSUME HeadersAssumption ==
    /\ Links \subseteq {"rfc894", "802.3", "vlan"}
    /\ \A t \in Types : t \in Nat /\ 1500 < t /\ t < 65536   \* no length
    /\ Versions \subseteq 0..15 /\ IpOptions \subseteq 0..10 /\ TcpOptions \subseteq 0..10
    /\ \A o \in Offsets : o \in Nat /\ o < 65536
    /\ Protocols \subseteq Nat /\ MachineNames \subseteq Nat /\ Verifiers \subseteq Nat
    /\ Groups \subseteq Nat /\ Programs \subseteq Nat /\ Bodies \subseteq Nat
    /\ Cuts \subseteq Nat

VARIABLES
    frame, msg,     \* the frame, and the RPC message in it
    stage,          \* the header looked at next, "payload" or "dropped"
    e_len, i_len, proto, consumed, rpc_len,
    dir, euid, egid

vars == <<frame, msg, stage, e_len, i_len, proto, consumed, rpc_len, dir, euid, egid>>
input == <<frame, msg>>

IP == 2048
VLAN == 33024
SNAP == 43690           \* both bytes 0xAA
ETHERMTU == 1500
TCP == 6
UDP == 17
CALL == 0
REPLY == 1
RPC_VERSION == 2
NFS_PROGRAM == 100003
MOUNT_PROGRAM == 100005
AUTH_NONE == 0
AUTH_UNIX == 1
Uid == 501
Gid == 20
-----------------------------------------------------------------------------
\* The sender's side.

Pad(n) == (n + 3) \div 4
Opaque(n, word) == <<n>> \o [i \in 1..Pad(n) |-> word]

UnixBody(m) == <<7>> \o Opaque(m.machine, 99) \o <<Uid, Gid>>
                     \o <<m.groups>> \o [i \in 1..m.groups |-> Gid]
Credential(m) ==
    IF m.flavor = AUTH_UNIX
    THEN <<AUTH_UNIX, 4 * Len(UnixBody(m))>> \o UnixBody(m)
    ELSE <<m.flavor, 0>>
Verifier(m) == <<AUTH_NONE>> \o Opaque(m.verifier, 98)

\* The words before the data of the procedure, or before the accept status.
RpcWords(m) ==
    CASE m.kind = "call" ->
            <<77, CALL, m.rpcvers, m.prog, 3, 1>> \o Credential(m) \o Verifier(m)
      [] m.kind = "accepted" -> <<77, REPLY, 0>> \o Verifier(m)
      [] m.kind = "mismatch" -> <<77, REPLY, 1, 0, 2, 2>>
      [] m.kind = "auth_error" -> <<77, REPLY, 1, 1, 5>>

Call == [kind : {"call"}, rpcvers : {2, 3}, prog : Programs,
         flavor : {AUTH_NONE, AUTH_UNIX}, machine : MachineNames,
         groups : Groups, verifier : Verifiers, body : Bodies]
Accepted == [kind : {"accepted"}, verifier : Verifiers, body : Bodies \ {0}]
Denied == [kind : {"mismatch", "auth_error"}, body : {0}]

Frame == [link : Links, type : Types, version : Versions, ipOptions : IpOptions,
          offset : Offsets, protocol : Protocols, tcpOptions : TcpOptions,
          cut : Cuts]

LinkLen == CASE frame.link = "rfc894" -> 14
             [] frame.link = "802.3" -> 22
             [] frame.link = "vlan" -> 18
IpLen == 20 + 4 * frame.ipOptions
TransportLen == IF frame.protocol = TCP THEN 20 + 4 * frame.tcpOptions ELSE 8
MarkLen == IF frame.protocol = TCP THEN 4 ELSE 0
RpcLen == 4 * Len(RpcWords(msg))
ip_len == IpLen + TransportLen + MarkLen + RpcLen + 4 * msg.body

PayloadAt == LinkLen + IpLen + TransportLen + MarkLen + RpcLen
packet_len == LinkLen + ip_len
tot_len == packet_len - 4 * frame.cut

IpHalves == <<256 * (16 * frame.version + 5 + frame.ipOptions), ip_len, 1, frame.offset>>
Halves == CASE frame.link = "rfc894" -> <<frame.type>> \o IpHalves
            [] frame.link = "802.3" -> <<8 + ip_len, SNAP, 768, 0, frame.type>> \o IpHalves
            [] frame.link = "vlan" -> <<VLAN, 1, frame.type>> \o IpHalves

\* Bytes k and k + 1 of the frame, and word i of the message.
Half(k) == Halves[(k - 12) \div 2 + 1]
Word(i) == IF i < Len(RpcWords(msg)) THEN RpcWords(msg)[i + 1] ELSE 0
-----------------------------------------------------------------------------
Init ==
    /\ frame \in Frame
    /\ msg \in Call \cup Accepted \cup Denied
    /\ stage = "ether"
    /\ e_len = 0 /\ i_len = 0 /\ proto = 0 /\ consumed = 0 /\ rpc_len = 0
    /\ dir = -1 /\ euid = -1 /\ egid = -1

Drop ==
    /\ stage' = "dropped"
    /\ UNCHANGED <<input, e_len, i_len, proto, consumed, rpc_len, dir, euid, egid>>

\* A wrong length of an 802.3 header: that of the addresses and the length.
getEtherHeader_Short ==
    CASE Half(12) = VLAN -> [len |-> 18, proto |-> Half(20)]
      [] Half(12) <= ETHERMTU -> [len |-> 14, proto |-> Half(20)]
      [] OTHER -> [len |-> 14, proto |-> Half(12)]

\* The third case is that of a jumbo frame; in it, 22 is taken off although the
\* length counts 8 of these bytes.
getEtherHeader ==
    CASE Half(12) = VLAN -> [len |-> 18, proto |-> Half(20)]
      [] Half(12) # VLAN /\ Half(12) <= ETHERMTU -> [len |-> 22, proto |-> Half(20)]
      [] /\ Half(12) # VLAN /\ Half(12) = tot_len - 22
         /\ Half(14) = SNAP /\ Half(16) \div 256 = 3 ->
            [len |-> 22, proto |-> Half(20)]
      [] OTHER -> [len |-> 14, proto |-> Half(12)]

MinimumLen == 14 + 20 + 8

EtherHeader ==
    /\ stage = "ether"
    /\ IF tot_len <= MinimumLen \/ getEtherHeader.proto # IP
       THEN Drop
       ELSE /\ e_len' = getEtherHeader.len
            /\ consumed' = e_len'
            /\ stage' = "ip"
            /\ UNCHANGED <<input, i_len, proto, rpc_len, dir, euid, egid>>

\* The IP header starts at e_len.
IpHeader ==
    /\ stage = "ip"
    /\ LET vhl == Half(e_len) \div 256
           off == Half(e_len + 6)
       IN  IF \/ vhl \div 16 # 4
              \/ off % 8192 # 0                 \* not the first fragment
              \/ consumed + 4 * (vhl % 16) >= tot_len
           THEN Drop
           ELSE /\ i_len' = 4 * (vhl % 16)
                /\ consumed' = consumed + i_len'
                /\ proto' = frame.protocol
                /\ stage' = "transport"
                /\ UNCHANGED <<input, e_len, rpc_len, dir, euid, egid>>

TcpHeader ==
    /\ stage = "transport" /\ proto = TCP
    /\ LET h_len == 4 * (5 + frame.tcpOptions)
       IN  IF consumed + 20 >= tot_len \/ consumed + h_len >= tot_len
           THEN Drop
           ELSE /\ consumed' = consumed + h_len + 4     \* the record mark
                /\ rpc_len' = RpcLen + 4 * msg.body
                /\ stage' = "rpc"
                /\ UNCHANGED <<input, e_len, i_len, proto, dir, euid, egid>>

UdpHeader ==
    /\ stage = "transport" /\ proto = UDP
    /\ IF consumed + 8 >= tot_len
       THEN Drop
       ELSE /\ consumed' = consumed + 8
            /\ rpc_len' = tot_len - consumed'
            /\ stage' = "rpc"
            /\ UNCHANGED <<input, e_len, i_len, proto, dir, euid, egid>>

OtherTransport ==
    /\ stage = "transport" /\ ~ (proto \in {TCP, UDP})
    /\ Drop
-----------------------------------------------------------------------------
\* getRpcHeader.  `ui' is the index of a word of the message, max_ptr that of
\* the first word that was not captured.

max_ptr == (tot_len - consumed) \div 4

\* A wrong length: the bytes that fill the last word are forgotten.
Skip_Unrounded(len) == (len + 2 * 4) \div 4

\* The words of a credential or verifier of len bytes.
Skip(len) == (len + 2 * 4 + 3) \div 4

\* pi is the first word behind the machine name.
get_auth(ui) ==
    LET pi == ui + 4 + Pad(Word(ui + 3))
    IN  [euid |-> Word(pi), egid |-> Word(pi + 1)]

\* cb_cred is word 6.
cred == 6
verf == cred + Skip(Word(cred + 1))

RpcCall ==
    /\ stage = "rpc" /\ Word(1) = CALL
    /\ Word(2) = RPC_VERSION /\ Word(3) \in {NFS_PROGRAM, MOUNT_PROGRAM}
    /\ cred + 1 < max_ptr /\ verf + 1 < max_ptr
    /\ Word(cred) = AUTH_UNIX
    /\ LET rh_len == 4 * (verf + Skip(Word(verf + 1)))
       IN  IF consumed + rh_len >= tot_len
           THEN Drop
           ELSE /\ stage' = "payload"
                /\ consumed' = consumed + rh_len
                /\ dir' = CALL
                /\ euid' = get_auth(cred).euid /\ egid' = get_auth(cred).egid
                /\ UNCHANGED <<input, e_len, i_len, proto, rpc_len>>

\* Word 3 is the verifier's flavor, if the reply was accepted.
RpcReply ==
    /\ stage = "rpc" /\ Word(1) = REPLY
    /\ 3 + 1 < max_ptr
    /\ LET rh_len == 4 * (3 + Skip(Word(4)))
       IN  IF consumed + rh_len >= tot_len
           THEN Drop
           ELSE /\ stage' = "payload"
                /\ consumed' = consumed + rh_len
                /\ dir' = REPLY
                /\ UNCHANGED <<input, e_len, i_len, proto, rpc_len, euid, egid>>

\* The returns of -1.
BadRpcHeader ==
    /\ stage = "rpc"
    /\ \/ /\ Word(1) = CALL
          /\ \/ Word(2) # RPC_VERSION \/ ~ (Word(3) \in {NFS_PROGRAM, MOUNT_PROGRAM})
             \/ cred + 1 >= max_ptr \/ verf + 1 >= max_ptr
             \/ Word(cred) # AUTH_UNIX
       \/ Word(1) = REPLY /\ 3 + 1 >= max_ptr
    /\ Drop

Next ==
    \/ EtherHeader \/ IpHeader
    \/ TcpHeader \/ UdpHeader \/ OtherTransport
    \/ RpcCall \/ RpcReply \/ BadRpcHeader

Spec == Init /\ [][Next]_vars
-----------------------------------------------------------------------------
Recordable ==
    /\ frame.type = IP /\ frame.version = 4 /\ frame.offset % 8192 = 0
    /\ frame.protocol \in {TCP, UDP}
    /\ PayloadAt < tot_len
    /\ \/ msg.kind = "accepted"
       \/ /\ msg.kind = "call" /\ msg.rpcvers = RPC_VERSION
          /\ msg.prog \in {NFS_PROGRAM, MOUNT_PROGRAM} /\ msg.flavor = AUTH_UNIX

Plain == frame.link = "rfc894" \/ (frame.link = "802.3" /\ 8 + ip_len <= ETHERMTU)
Done == stage \in {"payload", "dropped"}

\* Of frames without a VLAN tag, and of 802.3 frames of the usual size, a record
\* is made if and only if they hold a call of NFS or MOUNT with credentials, or
\* an accepted reply, in the first fragment of an IPv4 packet of TCP or UDP, and
\* at least a word behind the headers was captured (nfsrecord.c:178-379, 404).
\* The type of a frame with a VLAN tag is looked for at bytes 20 and 21, where the
\* length of the IP packet is (nfsrecord.c:673), although the comment at 655 says
\* that everything is shifted by 4 bytes: it is recorded only if that length is by
\* chance the number of the type IP.
RecordedIffNfs ==
    Done => /\ Plain => (stage = "payload" <=> Recordable)
            /\ frame.link = "vlan" /\ frame.type = IP =>
                  (stage = "payload" <=> Recordable /\ ip_len = IP)

\* What is recorded is decoded from where its sender put the procedure's data,
\* whatever options, names, groups and verifiers come before it, and with the
\* credentials of the call (nfsrecord.c:789-823, 894-906).
HeadersExact ==
    stage = "payload" =>
        /\ consumed = PayloadAt
        /\ dir = CALL => msg.kind = "call" /\ euid = Uid /\ egid = Gid
        /\ dir = REPLY => msg.kind = "accepted"
=============================================================================
