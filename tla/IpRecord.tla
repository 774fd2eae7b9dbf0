------------------------------ MODULE IpRecord ------------------------------
(***************************************************************************)
(* The packets of iphdump: processPacket, getEtherHeader, getIpHeader and  *)
(* printPacketHeader of nfsdump2/iprecord.c, which print one line for each *)
(* packet of TCP, UDP or ICMP.  Both programs look at the same frame, each *)
(* with its own copy of the functions: nfsdump in the actions of Headers,  *)
(* iphdump in packetPrinter.                                               *)
(*                                                                         *)
(* A line has the protocol's letter, the place where the transport header  *)
(* was looked for, from which the ports come, and of an echo request the   *)
(* number of bytes printed that had not been captured.                     *)
(***************************************************************************)
EXTENDS Headers

VARIABLES
    seen,       \* iphdump has had the frame
    out         \* the lines it printed for it

ipVars == <<vars, seen, out>>

ICMP == 1
ICMP_PAYLOAD_SZ == 16
SizeofIcmp == 28            \* sizeof(struct icmp)

Line(letter, at, behind) == <<[letter |-> letter, at |-> at, behind |-> behind]>>
Fragment == Line("#", 0, 0)
-----------------------------------------------------------------------------
\* getEtherHeader: there is no case for a VLAN tag.
iph_getEtherHeader ==
    IF \/ Half(12) <= ETHERMTU
       \/ Half(12) = tot_len - 22 /\ Half(14) = SNAP /\ Half(16) \div 256 = 3
    THEN [len |-> 22, proto |-> Half(20)]
    ELSE [len |-> 14, proto |-> Half(12)]

\* getIpHeader of the header at byte `at': 0 for a fragment, which gets a line
\* of its own, -1 for another version.
iph_getIpHeader(at) ==
    LET vhl == Half(at) \div 256
    IN  CASE vhl \div 16 # 4 -> -1
          [] vhl \div 16 = 4 /\ Half(at + 6) % 8192 # 0 -> 0
          [] OTHER -> 4 * (vhl % 16)

\* A wrong way to the ports: the options of the IP header are not counted.
Transport_NoOptions(at) == at + 20

\* Where the transport header begins.
Transport(at) == at + iph_getIpHeader(at)

\* What is printed for a packet whose transport header is at byte `at': nothing
\* if no byte behind that header was captured.
Behind(n) == IF n > tot_len THEN n - tot_len ELSE 0
iph_Tcp(at) ==
    IF at + 20 >= tot_len \/ at + 4 * (5 + frame.tcpOptions) >= tot_len THEN <<>>
    ELSE Line("T", at, 0)
iph_Udp(at) == IF at + 8 >= tot_len THEN <<>> ELSE Line("U", at, 0)

\* The 16 bytes of an echo request are copied without a look at the length.
iph_Icmp(at, echo) ==
    CASE at + SizeofIcmp >= tot_len -> <<>>
      [] at + SizeofIcmp < tot_len /\ echo ->
            Line("C", at, Behind(at + SizeofIcmp + ICMP_PAYLOAD_SZ))
      [] at + SizeofIcmp < tot_len /\ ~ echo -> Line("C", at, 0)

processPacket(echo) ==
    LET ether == iph_getEtherHeader
        ihl == iph_getIpHeader(ether.len)
        at == Transport(ether.len)
    IN  CASE tot_len <= MinimumLen \/ ether.proto # IP -> <<>>
          [] tot_len > MinimumLen /\ ether.proto = IP /\ ihl = -1 -> <<>>
          [] tot_len > MinimumLen /\ ether.proto = IP /\ ihl = 0 -> Fragment
          [] OTHER ->
               CASE at >= tot_len -> <<>>
                 [] at < tot_len /\ frame.protocol = TCP -> iph_Tcp(at)
                 [] at < tot_len /\ frame.protocol = UDP -> iph_Udp(at)
                 [] at < tot_len /\ frame.protocol = ICMP -> iph_Icmp(at, echo)
                 [] OTHER -> <<>>

packetPrinter ==
    /\ ~ seen
    /\ seen' = TRUE
    /\ \E echo \in BOOLEAN : out' = processPacket(echo)
    /\ UNCHANGED vars
-----------------------------------------------------------------------------
IpInit == Init /\ seen = FALSE /\ out = <<>>

\* The two programs do not share anything: iphdump goes last.
IpNext ==
    \/ Next /\ UNCHANGED <<seen, out>>
    \/ stage \in {"payload", "dropped"} /\ packetPrinter

IpSpec == IpInit /\ [][IpNext]_ipVars
-----------------------------------------------------------------------------
\* What nfsdump records of a frame without a VLAN tag, iphdump prints in one line,
\* as a packet of the same transport protocol and with the ports of the header
\* that nfsdump skipped, although the headers are taken apart by other functions
\* (iprecord.c:182-290, nfsrecord.c:178-268).  A fragment or a frame without IPv4
\* is never printed as a packet, and bytes of an echo request are printed that were
\* not captured only if the capture ends within the 16 bytes behind the header.
SameFrames ==
    seen =>
        /\ stage = "payload" /\ frame.link # "vlan" =>
              out = Line(IF proto = TCP THEN "T" ELSE "U", e_len + i_len, 0)
        /\ \A i \in DOMAIN out :
              /\ out[i].letter = "#" <=> frame.offset % 8192 # 0
              /\ out[i].letter # "#" => out[i].at = LinkLen + IpLen
              /\ out[i].behind < ICMP_PAYLOAD_SZ
=============================================================================
