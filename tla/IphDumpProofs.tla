--------------------------- MODULE IphDumpProofs ---------------------------
(***************************************************************************)
(* Proofs about iphdump, and about the headers of a packet, which nfsdump  *)
(* and iphdump take apart with functions of the same form.                 *)
(*                                                                         *)
(* IphDump: for every option, every number of intervals and of packets and *)
(* every limit on open files; RunInv says for each place of main which     *)
(* rights and descriptors the process has.                                 *)
(*                                                                         *)
(* Headers and IpRecord: of frames of any length, with any options,        *)
(* credentials and verifiers, those that nfsdump records are the right     *)
(* ones, decoded from the right word, and iphdump sees the same.  First    *)
(* come the words that the functions find in a frame, then the lengths     *)
(* they compute from them; the invariant HeadersInv says for each stage    *)
(* how far `consumed' has come in the frame that was sent.                 *)
(***************************************************************************)
EXTENDS IphDump, IpRecord, SequenceTheorems, TLAPS

\* Everything behind the filter runs with the user's rights, and so does the
\* opening of a savefile (iphdump.c:347, 377).
Rights ==
    /\ FilesAsUser
    /\ pc \in Looping \cup {"filter", "sigterm", "sigint", "sighup", "nohup", "dump"}
       => uid = "user"
    /\ pc = "open" /\ opt.offline => uid = "user"

\* SIGHUP has its default action only before the call that catches it; nohup(1)'s
\* setting is in force but for one moment (iphdump.c:391).
Signals ==
    /\ NohupKept
    /\ hup = "default" => pc \in (Starting \ {"nohup", "dump"}) \cup Ended
    /\ nohup /\ ~ (pc \in {"nohup"} \cup Ended) => hup = "ignore"

\* A descriptor is open for the capture, the filter, the dump and the log, and for
\* the summary of each log (iphdump.c:541, 595, 625).
Descriptors ==
    /\ OutFileOpens
    /\ pc \in {"options", "open"} => fds = 3
    /\ pc \in {"setuid", "filter"} => fds <= 4
    /\ pc \in {"sigterm", "sigint", "sighup", "nohup", "dump"}
       => fds <= 4 + (IF opt.infile THEN 1 ELSE 0)
    /\ OutFile # "tmp" => fds <= Base + logged
    /\ pc = "rename" => OutFile = "tmp"
    /\ pc = "sum" => fds + 1 <= Base + logged
    /\ pc = "tmp" => fds <= Base + logged

\* Nothing is printed before the loop.
Lines ==
    /\ LinesKept
    /\ pc \in Starting => lines = 0 /\ written = 0

RunInv == TypeOK /\ Rights /\ Signals /\ Descriptors /\ Lines
-----------------------------------------------------------------------------
\* What becomes of the number of -N (iphdump.c:207).
LEMMA UnsignedRange == \A v \in Iterations : Unsigned(v) \in 0..UintMax
  BY IphDumpAssumption DEF Unsigned

\* What the clocks and the end of life are set to.
LEMMA FlagsKept ==
    ASSUME TypeOK, [RunNext]_runVars
    PROVE  over' \in BOOLEAN /\ dead' \in BOOLEAN /\ last' \in BOOLEAN
<1>1. over \in BOOLEAN /\ dead \in BOOLEAN /\ last \in BOOLEAN
  BY DEF TypeOK
<1>2. /\ over' = over \/ over' = TRUE \/ over' = FALSE
      /\ dead' = dead \/ dead' = TRUE
      /\ last' = last \/ last' = LifeOver
  BY DEF RunNext, runVars, clocks, loop, main, start, updateOutFile, ParseOptions,
     OpenInput, SetUid, ReadFilter, SigTerm, SigInt, SigHup, setsignal, RestoreHup,
     OpenDump, StartingUp, Rename, printSummary, OpenTmp, AssertFails, StopAtCount,
     StopAtEndOfLife, Expire, Capture, CapturePlain, LoopReturns, PlainReturns,
     Close, Exit, Leave, Packet, LoopFails, IntervalPasses, LifePasses, Hangup,
     Terminate, EndedBy
<1>3. LifeOver \in BOOLEAN
  BY DEF LifeOver
<1> QED
  BY <1>1, <1>2, <1>3, Zenon

\* The other variables.
LEMMA TypesKept ==
    ASSUME TypeOK, [RunNext]_runVars
    PROVE  TypeOK'
<1> USE DEF TypeOK, Options, Starting, Looping, Ended,
            started, startup, clocks, loop, output, signals
<1>0. opt.count \in Nat /\ PACKET_POLL_CNT \in Nat /\ UintMax \in Nat
  BY IphDumpAssumption
<1>1. CASE start
  BY FlagsKept, <1>1, UnsignedRange DEF start, ParseOptions, OpenInput, SetUid,
     ReadFilter, SigTerm, SigInt, SigHup, setsignal, RestoreHup, OpenDump, Open,
     StartingUp
<1>2. CASE updateOutFile
  BY FlagsKept, <1>2, <1>0 DEF updateOutFile, Rename, printSummary, OpenTmp,
     AssertFails, Running
<1>3. CASE StopAtCount \/ StopAtEndOfLife \/ Expire \/ Capture \/ CapturePlain
           \/ LoopReturns \/ PlainReturns \/ Close \/ Exit
  BY FlagsKept, <1>3, <1>0 DEF StopAtCount, StopAtEndOfLife, Expire, Capture,
     CapturePlain, LoopReturns, PlainReturns, Close, Exit, Leave, Running
<1>4. CASE Packet \/ LoopFails \/ IntervalPasses \/ LifePasses
  BY FlagsKept, <1>4, <1>0 DEF Packet, LoopFails, IntervalPasses, LifePasses,
     Running, AtEnd, Buffer
<1>5. CASE Hangup \/ Terminate
  BY FlagsKept, <1>5 DEF Hangup, Terminate, EndedBy, cleanup
<1>6. CASE UNCHANGED runVars
  BY <1>6 DEF runVars
<1> QED
  BY <1>1, <1>2, <1>3, <1>4, <1>5, <1>6 DEF RunNext, main

\* Rights are given up once and files are opened after that (iphdump.c:347-397).
LEMMA RightsKept ==
    ASSUME TypeOK, Rights, [RunNext]_runVars
    PROVE  Rights'
<1> USE DEF TypeOK, Rights, FilesAsUser, Options, Starting, Looping, Ended,
            started, startup, clocks, loop, output, signals
<1>1. CASE start
  BY <1>1 DEF start, ParseOptions, OpenInput, SetUid, ReadFilter, SigTerm, SigInt,
     SigHup, setsignal, RestoreHup, OpenDump, Open, StartingUp
<1>2. CASE updateOutFile
  BY <1>2 DEF updateOutFile, Rename, printSummary, OpenTmp, AssertFails, Running
<1>3. CASE StopAtCount \/ StopAtEndOfLife \/ Expire \/ Capture \/ CapturePlain
           \/ LoopReturns \/ PlainReturns \/ Close \/ Exit
  BY <1>3 DEF StopAtCount, StopAtEndOfLife, Expire, Capture, CapturePlain,
     LoopReturns, PlainReturns, Close, Exit, Leave, Running
<1>4. CASE Packet \/ LoopFails \/ IntervalPasses \/ LifePasses
  BY <1>4 DEF Packet, LoopFails, IntervalPasses, LifePasses, Running
<1>5. CASE Hangup \/ Terminate
  BY <1>5 DEF Hangup, Terminate, EndedBy, cleanup
<1>6. CASE UNCHANGED runVars
  BY <1>6 DEF runVars
<1> QED
  BY <1>1, <1>2, <1>3, <1>4, <1>5, <1>6 DEF RunNext, main

\* The window of SIGHUP is one step long (iphdump.c:391-392).
LEMMA SignalsKept ==
    ASSUME TypeOK, Signals, [RunNext]_runVars
    PROVE  Signals'
<1> USE DEF TypeOK, Signals, NohupKept, Starting, Looping, Ended,
            started, startup, clocks, loop, output, signals
<1>1. CASE start
  BY <1>1 DEF start, ParseOptions, OpenInput, SetUid, ReadFilter, SigTerm, SigInt,
     SigHup, setsignal, RestoreHup, OpenDump, Open, StartingUp
<1>2. CASE updateOutFile
  BY <1>2 DEF updateOutFile, Rename, printSummary, OpenTmp, AssertFails, Running
<1>3. CASE StopAtCount \/ StopAtEndOfLife \/ Expire \/ Capture \/ CapturePlain
           \/ LoopReturns \/ PlainReturns \/ Close \/ Exit
  BY <1>3 DEF StopAtCount, StopAtEndOfLife, Expire, Capture, CapturePlain,
     LoopReturns, PlainReturns, Close, Exit, Leave, Running
<1>4. CASE Packet \/ LoopFails \/ IntervalPasses \/ LifePasses
  BY <1>4 DEF Packet, LoopFails, IntervalPasses, LifePasses, Running
<1>5. CASE Hangup \/ Terminate
  BY <1>5 DEF Hangup, Terminate, EndedBy, cleanup
<1>6. CASE UNCHANGED runVars
  BY <1>6 DEF runVars
<1> QED
  BY <1>1, <1>2, <1>3, <1>4, <1>5, <1>6 DEF RunNext, main

\* Each log that is complete leaves one descriptor open (iphdump.c:540-596).
LEMMA DescriptorsKept ==
    ASSUME TypeOK, Descriptors, [RunNext]_runVars
    PROVE  Descriptors'
<1> USE DEF TypeOK, Descriptors, OutFileOpens, Base, Options, Starting, Looping, Ended,
            started, startup, clocks, loop, output, signals
<1>1. CASE start
  BY <1>1 DEF start, ParseOptions, OpenInput, SetUid, ReadFilter, SigTerm, SigInt,
     SigHup, setsignal, RestoreHup, OpenDump, Open, StartingUp
<1>2. CASE updateOutFile
  BY <1>2 DEF updateOutFile, Rename, printSummary, OpenTmp, AssertFails, Running
<1>3. CASE StopAtCount \/ StopAtEndOfLife \/ Expire \/ Capture \/ CapturePlain
           \/ LoopReturns \/ PlainReturns \/ Close \/ Exit
  BY <1>3 DEF StopAtCount, StopAtEndOfLife, Expire, Capture, CapturePlain,
     LoopReturns, PlainReturns, Close, Exit, Leave, Running
<1>4. CASE Packet \/ LoopFails \/ IntervalPasses \/ LifePasses
  BY <1>4 DEF Packet, LoopFails, IntervalPasses, LifePasses, Running
<1>5. CASE Hangup \/ Terminate
  BY <1>5 DEF Hangup, Terminate, EndedBy, cleanup
<1>6. CASE UNCHANGED runVars
  BY <1>6 DEF runVars
<1> QED
  BY <1>1, <1>2, <1>3, <1>4, <1>5, <1>6 DEF RunNext, main

\* A handler or exit writes the buffer (iphdump.c:484, 495, 509).
LEMMA PrintedKept ==
    ASSUME TypeOK, Signals, Lines, [RunNext]_runVars
    PROVE  Lines'
<1> USE DEF TypeOK, Signals, Lines, LinesKept, Options, Starting, Looping, Ended,
            started, startup, clocks, loop, output, signals
<1>1. CASE start
  BY <1>1 DEF start, ParseOptions, OpenInput, SetUid, ReadFilter, SigTerm, SigInt,
     SigHup, setsignal, RestoreHup, OpenDump, Open, StartingUp
<1>2. CASE updateOutFile
  BY <1>2 DEF updateOutFile, Rename, printSummary, OpenTmp, AssertFails, Running
<1>3. CASE StopAtCount \/ StopAtEndOfLife \/ Expire \/ Capture \/ CapturePlain
           \/ LoopReturns \/ PlainReturns \/ Close \/ Exit
  BY <1>3 DEF StopAtCount, StopAtEndOfLife, Expire, Capture, CapturePlain,
     LoopReturns, PlainReturns, Close, Exit, Leave, Running
<1>4. CASE Packet \/ LoopFails \/ IntervalPasses \/ LifePasses
  BY <1>4 DEF Packet, LoopFails, IntervalPasses, LifePasses, Running, Buffer
<1>5. CASE Hangup \/ Terminate
  BY <1>5 DEF Hangup, Terminate, EndedBy, cleanup, BeforeTerm
<1>6. CASE UNCHANGED runVars
  BY <1>6 DEF runVars
<1> QED
  BY <1>1, <1>2, <1>3, <1>4, <1>5, <1>6 DEF RunNext, main

\* The program when it is started, with the rights of root.
LEMMA RunInitInv == RunInit => RunInv
<1> SUFFICES ASSUME RunInit PROVE RunInv
  OBVIOUS
<1>1. TypeOK
  <2>1. over \in BOOLEAN /\ dead \in BOOLEAN /\ last \in BOOLEAN /\ nohup \in BOOLEAN
    BY Zenon DEF RunInit
  <2>2. opt \in Options
    BY DEF RunInit
  <2> QED
    BY <2>1, <2>2, IphDumpAssumption DEF RunInit, TypeOK, Starting
<1>2. opt.infile \in BOOLEAN /\ opt.dump \in BOOLEAN
  BY <1>1 DEF TypeOK, Options
<1>3. Rights /\ Signals
  BY DEF RunInit, Rights, FilesAsUser, Signals, NohupKept, Starting, Looping, Ended
<1>4. Descriptors /\ Lines
  BY <1>2 DEF RunInit, Descriptors, OutFileOpens, Base, Lines, LinesKept, Ended
<1> QED
  BY <1>1, <1>3, <1>4 DEF RunInv

\* The inductive invariant of a run of iphdump.
THEOREM RunInvariant == RunSpec => []RunInv
<1>1. RunInv /\ [RunNext]_runVars => RunInv'
  BY TypesKept, RightsKept, SignalsKept, DescriptorsKept, PrintedKept DEF RunInv
<1> QED
  BY <1>1, RunInitInv, PTL DEF RunSpec

\* Every file that the user names is opened with the user's rights, whatever the
\* options (iphdump.c:345, 375).
THEOREM FilesOpenedAsUser == RunSpec => []FilesAsUser
<1>1. RunInv => FilesAsUser
  BY DEF RunInv, Rights
<1> QED
  BY <1>1, RunInvariant, PTL

\* A log cannot be opened only after as many summaries were left open as there are
\* descriptors (iphdump.c:596, 625).
THEOREM DescriptorsCounted == RunSpec => []OutFileOpens
<1>1. RunInv => OutFileOpens
  BY DEF RunInv, Descriptors
<1> QED
  BY <1>1, RunInvariant, PTL

\* No printed line is lost, but for a failed assertion and a signal behind
\* pcap_close (iphdump.c:478, 494).
THEOREM NoLineLost == RunSpec => []LinesKept
<1>1. RunInv => LinesKept
  BY DEF RunInv, Lines
<1> QED
  BY <1>1, RunInvariant, PTL

\* Under nohup(1) SIGHUP ends the program at one place only (iphdump.c:391).
THEOREM HangupWindow == RunSpec => []NohupKept
<1>1. RunInv => NohupKept
  BY DEF RunInv, Signals
<1> QED
  BY <1>1, RunInvariant, PTL
-----------------------------------------------------------------------------
\* Where the elements of a concatenation are.
LEMMA ConcatParts ==
    ASSUME NEW S, NEW s \in Seq(S), NEW t \in Seq(S)
    PROVE  /\ s \o t \in Seq(S) /\ Len(s \o t) = Len(s) + Len(t)
           /\ Len(s) \in Nat /\ Len(t) \in Nat
           /\ \A i \in 1..Len(s) : (s \o t)[i] = s[i]
           /\ \A i \in 1..Len(t) : (s \o t)[Len(s) + i] = t[i]
<1>1. Len(s) \in Nat /\ Len(t) \in Nat
  BY LenProperties
<1>2. /\ s \o t \in Seq(S) /\ Len(s \o t) = Len(s) + Len(t)
      /\ \A i \in 1..(Len(s) + Len(t)) :
           (s \o t)[i] = IF i <= Len(s) THEN s[i] ELSE t[i - Len(s)]
  BY ConcatProperties
<1> DEFINE u == s \o t
           m == Len(s)
           n == Len(t)
<1>3. /\ m \in Nat /\ n \in Nat
      /\ \A i \in 1..(m + n) : u[i] = IF i <= m THEN s[i] ELSE t[i - m]
  BY <1>1, <1>2
<1> HIDE DEF u, m, n
<1>4. \A i \in 1..m : i \in 1..(m + n) /\ i <= m
  BY <1>3
<1>5. \A i \in 1..n : m + i \in 1..(m + n) /\ ~ (m + i <= m) /\ (m + i) - m = i
  BY <1>3
<1>6. \A i \in 1..m : u[i] = s[i]
  BY <1>3, <1>4
<1>7. \A i \in 1..n : u[m + i] = t[i]
  BY <1>3, <1>5
<1> QED
  BY <1>1, <1>2, <1>6, <1>7 DEF u, m, n

\* What the header functions find in the half-words behind the addresses.
LEMMA HalfWords ==
    /\ frame.link = "rfc894" =>
         /\ Half(12) = frame.type
         /\ Half(14) = 256 * (16 * frame.version + 5 + frame.ipOptions)
         /\ Half(16) = ip_len /\ Half(18) = 1 /\ Half(20) = frame.offset
    /\ frame.link = "802.3" =>
         /\ Half(12) = 8 + ip_len /\ Half(14) = SNAP /\ Half(16) = 768
         /\ Half(18) = 0 /\ Half(20) = frame.type
         /\ Half(22) = 256 * (16 * frame.version + 5 + frame.ipOptions)
         /\ Half(28) = frame.offset
    /\ frame.link = "vlan" =>
         /\ Half(12) = VLAN /\ Half(14) = 1
         /\ Half(18) = 256 * (16 * frame.version + 5 + frame.ipOptions)
         /\ Half(20) = ip_len /\ Half(24) = frame.offset
<1>1. /\ Half(12) = Halves[1] /\ Half(14) = Halves[2] /\ Half(16) = Halves[3]
      /\ Half(18) = Halves[4] /\ Half(20) = Halves[5] /\ Half(22) = Halves[6]
      /\ Half(24) = Halves[7] /\ Half(28) = Halves[9]
  <2>1. /\ (12 - 12) \div 2 + 1 = 1 /\ (14 - 12) \div 2 + 1 = 2 /\ (16 - 12) \div 2 + 1 = 3
        /\ (18 - 12) \div 2 + 1 = 4 /\ (20 - 12) \div 2 + 1 = 5 /\ (22 - 12) \div 2 + 1 = 6
        /\ (24 - 12) \div 2 + 1 = 7 /\ (28 - 12) \div 2 + 1 = 9
    OBVIOUS
  <2> QED
    BY <2>1 DEF Half
<1> DEFINE vhl == 256 * (16 * frame.version + 5 + frame.ipOptions)
           jumbo == 8 + ip_len
           S == {vhl, ip_len, 1, frame.offset, frame.type, jumbo, SNAP, 768, 0, VLAN}
           t == <<vhl, ip_len, 1, frame.offset>>
<1>2. IpHalves = t
  BY DEF IpHalves
<1> HIDE DEF vhl, jumbo
<1>3. /\ t \in Seq(S) /\ Len(t) = 4
      /\ t[1] = vhl /\ t[2] = ip_len /\ t[3] = 1 /\ t[4] = frame.offset
  OBVIOUS
<1> HIDE DEF t
<1>4. CASE frame.link = "rfc894"
  <2> DEFINE s == <<frame.type>>
  <2>1. Halves = s \o t
    BY <1>2, <1>4 DEF Halves
  <2>2. s \in Seq(S) /\ Len(s) = 1 /\ s[1] = frame.type
    OBVIOUS
  <2> HIDE DEF s, S
  <2>3. /\ \A i \in 1..Len(s) : Halves[i] = s[i]
        /\ \A i \in 1..Len(t) : Halves[Len(s) + i] = t[i]
    <3>1. s \in Seq(S) /\ t \in Seq(S)
      BY <1>3, <2>2
    <3>2. /\ \A i \in 1..Len(s) : (s \o t)[i] = s[i]
          /\ \A i \in 1..Len(t) : (s \o t)[Len(s) + i] = t[i]
      BY <3>1, ConcatParts
    <3> QED
      BY <2>1, <3>2
  <2>4. /\ Halves[1] = frame.type /\ Halves[2] = vhl /\ Halves[3] = ip_len
        /\ Halves[4] = 1 /\ Halves[5] = frame.offset
    BY <1>3, <2>2, <2>3
  <2> QED
    BY <1>1, <1>4, <2>4 DEF vhl
<1>5. CASE frame.link = "802.3"
  <2> DEFINE s == <<jumbo, SNAP, 768, 0, frame.type>>
  <2>1. Halves = s \o t
    BY <1>2, <1>5 DEF Halves, jumbo
  <2>2. s \in Seq(S) /\ Len(s) = 5 /\ s[1] = jumbo /\ s[2] = SNAP /\ s[3] = 768
        /\ s[4] = 0 /\ s[5] = frame.type
    OBVIOUS
  <2> HIDE DEF s, S
  <2>3. /\ \A i \in 1..Len(s) : Halves[i] = s[i]
        /\ \A i \in 1..Len(t) : Halves[Len(s) + i] = t[i]
    <3>1. s \in Seq(S) /\ t \in Seq(S)
      BY <1>3, <2>2
    <3>2. /\ \A i \in 1..Len(s) : (s \o t)[i] = s[i]
          /\ \A i \in 1..Len(t) : (s \o t)[Len(s) + i] = t[i]
      BY <3>1, ConcatParts
    <3> QED
      BY <2>1, <3>2
  <2>4. /\ Halves[1] = jumbo /\ Halves[2] = SNAP /\ Halves[3] = 768 /\ Halves[4] = 0
        /\ Halves[5] = frame.type /\ Halves[6] = vhl /\ Halves[9] = frame.offset
    <3>1. 1 \in 1..Len(s) /\ 2 \in 1..Len(s) /\ 3 \in 1..Len(s) /\ 4 \in 1..Len(s) /\ 5 \in 1..Len(s)
      BY <2>2
    <3>2. 1 \in 1..Len(t) /\ Len(s) + 1 = 6 /\ 4 \in 1..Len(t) /\ Len(s) + 4 = 9
      BY <1>3, <2>2
    <3> QED
      BY <1>3, <2>2, <2>3, <3>1, <3>2
  <2> QED
    BY <1>1, <1>5, <2>4 DEF vhl, jumbo
<1>6. CASE frame.link = "vlan"
  <2> DEFINE s == <<VLAN, 1, frame.type>>
  <2>1. Halves = s \o t
    BY <1>2, <1>6 DEF Halves
  <2>2. s \in Seq(S) /\ Len(s) = 3 /\ s[1] = VLAN /\ s[2] = 1 /\ s[3] = frame.type
    OBVIOUS
  <2> HIDE DEF s, S
  <2>3. /\ \A i \in 1..Len(s) : Halves[i] = s[i]
        /\ \A i \in 1..Len(t) : Halves[Len(s) + i] = t[i]
    <3>1. s \in Seq(S) /\ t \in Seq(S)
      BY <1>3, <2>2
    <3>2. /\ \A i \in 1..Len(s) : (s \o t)[i] = s[i]
          /\ \A i \in 1..Len(t) : (s \o t)[Len(s) + i] = t[i]
      BY <3>1, ConcatParts
    <3> QED
      BY <2>1, <3>2
  <2>4. /\ Halves[1] = VLAN /\ Halves[2] = 1
        /\ Halves[4] = vhl /\ Halves[5] = ip_len /\ Halves[7] = frame.offset
    <3>1. 1 \in 1..Len(s) /\ 2 \in 1..Len(s) /\ 3 \in 1..Len(s)
      BY <2>2
    <3>2. 1 \in 1..Len(t) /\ Len(s) + 1 = 4 /\ 2 \in 1..Len(t) /\ Len(s) + 2 = 5 /\ 4 \in 1..Len(t) /\ Len(s) + 4 = 7
      BY <1>3, <2>2
    <3> QED
      BY <1>3, <2>2, <2>3, <3>1, <3>2
  <2> QED
    BY <1>1, <1>6, <2>4 DEF vhl
<1> QED
  BY <1>4, <1>5, <1>6

\* What XDR fills up to words.
LEMMA PadType == \A n \in Nat : Pad(n) \in Nat
  BY DEF Pad

LEMMA RepeatedWord ==
    ASSUME NEW n \in Nat, NEW w \in Nat
    PROVE  [i \in 1..n |-> w] \in Seq(Nat) /\ Len([i \in 1..n |-> w]) = n
<1> DEFINE s == [i \in 1..n |-> w]
<1>1. s \in [1..n -> Nat]
  OBVIOUS
<1>2. s \in Seq(Nat)
  BY <1>1
<1>3. DOMAIN s = 1..n /\ DOMAIN s = 1..Len(s) /\ Len(s) \in Nat
  <2>1. DOMAIN s = 1..n
    OBVIOUS
  <2> HIDE DEF s
  <2> QED
    BY <1>2, <2>1, LenProperties
<1> HIDE DEF s
<1>4. Len(s) = n
  BY <1>3
<1> QED
  BY <1>2, <1>4 DEF s

LEMMA OpaqueWords ==
    ASSUME NEW n \in Nat, NEW w \in Nat
    PROVE  /\ Opaque(n, w) \in Seq(Nat) /\ Len(Opaque(n, w)) = 1 + Pad(n)
           /\ Opaque(n, w)[1] = n
<1> DEFINE s == <<n>>
           t == [i \in 1..Pad(n) |-> w]
<1>1. s \in Seq(Nat) /\ Len(s) = 1 /\ s[1] = n
  OBVIOUS
<1>2. t \in Seq(Nat) /\ Len(t) = Pad(n)
  BY PadType, RepeatedWord
<1>3. Opaque(n, w) = s \o t
  BY DEF Opaque
<1> HIDE DEF s, t
<1>4. /\ s \o t \in Seq(Nat) /\ Len(s \o t) = Len(s) + Len(t)
      /\ \A i \in 1..Len(s) : (s \o t)[i] = s[i]
  BY <1>1, <1>2, ConcatParts
<1> QED
  BY <1>1, <1>2, <1>3, <1>4

\* The body of an AUTH_UNIX credential: stamp, machine name, uid, gid, groups.
LEMMA UnixWords ==
    ASSUME NEW m, m.machine \in Nat, m.groups \in Nat
    PROVE  LET p == Pad(m.machine) IN
           /\ UnixBody(m) \in Seq(Nat) /\ Len(UnixBody(m)) = 5 + p + m.groups
           /\ UnixBody(m)[2] = m.machine
           /\ UnixBody(m)[3 + p] = Uid /\ UnixBody(m)[4 + p] = Gid
<1> DEFINE p == Pad(m.machine)
           g == m.groups
           a == <<7>>
           b == Opaque(m.machine, 99)
           c == <<Uid, Gid>>
           d == <<g>>
           f == [i \in 1..g |-> Gid]
<1>1. p \in Nat /\ g \in Nat
  BY PadType
<1>2. /\ a \in Seq(Nat) /\ Len(a) = 1
      /\ c \in Seq(Nat) /\ Len(c) = 2 /\ c[1] = Uid /\ c[2] = Gid
      /\ d \in Seq(Nat) /\ Len(d) = 1
  BY DEF Uid, Gid
<1>3. b \in Seq(Nat) /\ Len(b) = 1 + p /\ b[1] = m.machine
  BY OpaqueWords
<1>4. f \in Seq(Nat) /\ Len(f) = g
  BY RepeatedWord DEF Gid
<1>5. UnixBody(m) = (((a \o b) \o c) \o d) \o f
  BY DEF UnixBody
<1> HIDE DEF p, g, a, b, c, d, f
<1> DEFINE ab == a \o b
           abc == ab \o c
           abcd == abc \o d
<1>6. /\ ab \in Seq(Nat) /\ Len(ab) = 2 + p /\ ab[2] = m.machine
  <2>1. /\ ab \in Seq(Nat) /\ Len(ab) = Len(a) + Len(b)
        /\ \A i \in 1..Len(b) : ab[Len(a) + i] = b[i]
    <3>1. a \in Seq(Nat) /\ b \in Seq(Nat)
      BY <1>2, <1>3
    <3> QED
      BY <3>1, ConcatParts
  <2>2. 1 \in 1..Len(b) /\ Len(a) + 1 = 2 /\ Len(a) + Len(b) = 2 + p
    BY <1>1, <1>2, <1>3
  <2> QED
    BY <1>3, <2>1, <2>2
<1> HIDE DEF ab
<1>7. /\ abc \in Seq(Nat) /\ Len(abc) = 4 + p /\ abc[2] = m.machine
      /\ abc[3 + p] = Uid /\ abc[4 + p] = Gid
  <2>1. /\ abc \in Seq(Nat) /\ Len(abc) = Len(ab) + Len(c)
        /\ \A i \in 1..Len(ab) : abc[i] = ab[i]
        /\ \A i \in 1..Len(c) : abc[Len(ab) + i] = c[i]
    <3>1. ab \in Seq(Nat) /\ c \in Seq(Nat)
      BY <1>2, <1>6
    <3> QED
      BY <3>1, ConcatParts
  <2>2. 1 \in 1..Len(c) /\ 2 \in 1..Len(c) /\ 2 \in 1..Len(ab)
    BY <1>1, <1>2, <1>6
  <2>3. Len(ab) + 1 = 3 + p /\ Len(ab) + 2 = 4 + p /\ Len(ab) + Len(c) = 4 + p
    BY <1>1, <1>2, <1>6
  <2> QED
    BY <1>2, <1>6, <2>1, <2>2, <2>3
<1> HIDE DEF abc
<1>8. /\ abcd \in Seq(Nat) /\ Len(abcd) = 5 + p /\ abcd[2] = m.machine
      /\ abcd[3 + p] = Uid /\ abcd[4 + p] = Gid
  <2>1. /\ abcd \in Seq(Nat) /\ Len(abcd) = Len(abc) + Len(d)
        /\ \A i \in 1..Len(abc) : abcd[i] = abc[i]
    <3>1. abc \in Seq(Nat) /\ d \in Seq(Nat)
      BY <1>2, <1>7
    <3> QED
      BY <3>1, ConcatParts
  <2>2. 2 \in 1..Len(abc) /\ 3 + p \in 1..Len(abc) /\ 4 + p \in 1..Len(abc)
        /\ Len(abc) + Len(d) = 5 + p
    BY <1>1, <1>2, <1>7
  <2> QED
    BY <1>7, <2>1, <2>2
<1> HIDE DEF abcd
<1>9. /\ abcd \o f \in Seq(Nat) /\ Len(abcd \o f) = 5 + p + g /\ (abcd \o f)[2] = m.machine
      /\ (abcd \o f)[3 + p] = Uid /\ (abcd \o f)[4 + p] = Gid
  <2>1. /\ abcd \o f \in Seq(Nat) /\ Len(abcd \o f) = Len(abcd) + Len(f)
        /\ \A i \in 1..Len(abcd) : (abcd \o f)[i] = abcd[i]
    <3>1. abcd \in Seq(Nat) /\ f \in Seq(Nat)
      BY <1>4, <1>8
    <3> QED
      BY <3>1, ConcatParts
  <2>2. 2 \in 1..Len(abcd) /\ 3 + p \in 1..Len(abcd) /\ 4 + p \in 1..Len(abcd)
        /\ Len(abcd) + Len(f) = 5 + p + g
    BY <1>1, <1>4, <1>8
  <2> QED
    BY <1>8, <2>1, <2>2
<1> QED
  BY <1>5, <1>9 DEF ab, abc, abcd, p, g

\* A verifier: its flavor, its length, its bytes.
LEMMA VerifierWords ==
    ASSUME NEW m, m.verifier \in Nat
    PROVE  /\ Verifier(m) \in Seq(Nat) /\ Len(Verifier(m)) = 2 + Pad(m.verifier)
           /\ Verifier(m)[1] = AUTH_NONE /\ Verifier(m)[2] = m.verifier
<1> DEFINE a == <<AUTH_NONE>>
           b == Opaque(m.verifier, 98)
<1>1. a \in Seq(Nat) /\ Len(a) = 1 /\ a[1] = AUTH_NONE
  BY DEF AUTH_NONE
<1>2. b \in Seq(Nat) /\ Len(b) = 1 + Pad(m.verifier) /\ b[1] = m.verifier
  BY OpaqueWords
<1>3. Verifier(m) = a \o b /\ Pad(m.verifier) \in Nat
  BY PadType DEF Verifier
<1> HIDE DEF a, b
<1>4. /\ a \o b \in Seq(Nat) /\ Len(a \o b) = Len(a) + Len(b)
      /\ \A i \in 1..Len(a) : (a \o b)[i] = a[i]
      /\ \A i \in 1..Len(b) : (a \o b)[Len(a) + i] = b[i]
  <2>1. a \in Seq(Nat) /\ b \in Seq(Nat)
    BY <1>1, <1>2
  <2> QED
    BY <2>1, ConcatParts
<1>5. 1 \in 1..Len(a) /\ 1 \in 1..Len(b) /\ Len(a) + 1 = 2
      /\ Len(a) + Len(b) = 2 + Pad(m.verifier)
  BY <1>1, <1>2, <1>3
<1> QED
  BY <1>1, <1>2, <1>3, <1>4, <1>5

\* The lengths and numbers that a message may have.
LEMMA Numbers ==
    /\ Protocols \subseteq Nat /\ MachineNames \subseteq Nat /\ Verifiers \subseteq Nat
    /\ Groups \subseteq Nat /\ Programs \subseteq Nat /\ Bodies \subseteq Nat
    /\ Cuts \subseteq Nat
  BY HeadersAssumption

\* A call of the sender (nfsrecord.c:789-823): where its fields are, and how long
\* its header is.
LEMMA CallWords ==
    ASSUME msg \in Call
    PROVE  LET p == Pad(msg.machine)
               l == 5 + p + msg.groups
               q == Pad(msg.verifier)
           IN  /\ p \in Nat /\ q \in Nat /\ msg.groups \in Nat /\ msg.body \in Nat
               /\ msg.machine \in Nat /\ msg.verifier \in Nat
               /\ Len(RpcWords(msg)) \in Nat
               /\ Word(1) = CALL /\ Word(2) = msg.rpcvers /\ Word(3) = msg.prog
               /\ Word(6) = msg.flavor
               /\ msg.flavor = AUTH_UNIX =>
                    /\ Len(RpcWords(msg)) = 10 + l + q
                    /\ Word(7) = 4 * l /\ Word(9) = msg.machine
                    /\ Word(10 + p) = Uid /\ Word(11 + p) = Gid
                    /\ Word(9 + l) = msg.verifier
<1> DEFINE p == Pad(msg.machine)
           q == Pad(msg.verifier)
           l == 5 + p + msg.groups
           a == <<77, CALL, msg.rpcvers, msg.prog, 3, 1>>
           c == Credential(msg)
           v == Verifier(msg)
<1>1. /\ msg.kind = "call" /\ msg.rpcvers \in Nat /\ msg.prog \in Nat
      /\ msg.flavor \in {AUTH_NONE, AUTH_UNIX}
      /\ msg.machine \in Nat /\ msg.groups \in Nat /\ msg.verifier \in Nat /\ msg.body \in Nat
  <2>1. /\ msg.kind = "call" /\ msg.rpcvers \in {2, 3} /\ msg.prog \in Programs
        /\ msg.flavor \in {AUTH_NONE, AUTH_UNIX}
        /\ msg.machine \in MachineNames /\ msg.groups \in Groups
        /\ msg.verifier \in Verifiers /\ msg.body \in Bodies
    BY DEF Call
  <2>2. \A n \in {2, 3} : n \in Nat
    OBVIOUS
  <2> QED
    BY <2>1, <2>2, Numbers
<1>2. p \in Nat /\ q \in Nat /\ l \in Nat
  BY <1>1, PadType
<1>3. /\ a \in Seq(Nat) /\ Len(a) = 6 /\ a[2] = CALL /\ a[3] = msg.rpcvers /\ a[4] = msg.prog
  BY <1>1 DEF CALL
<1>4. v \in Seq(Nat) /\ Len(v) = 2 + q /\ v[2] = msg.verifier
  BY <1>1, VerifierWords
<1>5. /\ c \in Seq(Nat) /\ Len(c) \in Nat /\ Len(c) >= 2 /\ c[1] = msg.flavor
      /\ msg.flavor = AUTH_UNIX => /\ Len(c) = 2 + l /\ c[2] = 4 * l /\ c[4] = msg.machine
                                   /\ c[5 + p] = Uid /\ c[6 + p] = Gid
  <2>1. CASE msg.flavor # AUTH_UNIX
    <3>1. c = <<msg.flavor, 0>>
      BY <2>1 DEF Credential
    <3>2. msg.flavor \in Nat
      BY <1>1 DEF AUTH_NONE, AUTH_UNIX
    <3> HIDE DEF c
    <3> QED
      BY <2>1, <3>1, <3>2
  <2>2. CASE msg.flavor = AUTH_UNIX
    <3> DEFINE u == UnixBody(msg)
               h == <<AUTH_UNIX, 4 * Len(u)>>
    <3>1. u \in Seq(Nat) /\ Len(u) = l /\ u[2] = msg.machine /\ u[3 + p] = Uid /\ u[4 + p] = Gid
      BY <1>1, UnixWords
    <3>2. c = h \o u
      BY <2>2 DEF Credential
    <3> HIDE DEF u, c, l, p
    <3>3. 4 * Len(u) \in Nat /\ 4 * Len(u) = 4 * l
      BY <1>2, <3>1
    <3>4. h \in Seq(Nat) /\ Len(h) = 2 /\ h[1] = AUTH_UNIX /\ h[2] = 4 * l
      BY <3>3 DEF AUTH_UNIX
    <3> HIDE DEF h
    <3>5. /\ h \o u \in Seq(Nat) /\ Len(h \o u) = Len(h) + Len(u)
          /\ \A i \in 1..Len(h) : (h \o u)[i] = h[i]
          /\ \A i \in 1..Len(u) : (h \o u)[Len(h) + i] = u[i]
      <4>1. h \in Seq(Nat) /\ u \in Seq(Nat)
        BY <3>1, <3>4
      <4> QED
        BY <4>1, ConcatParts
    <3>6. /\ 1 \in 1..Len(h) /\ 2 \in 1..Len(h) /\ Len(h) + Len(u) = 2 + l
      BY <3>1, <3>4
    <3>7. /\ 2 \in 1..Len(u) /\ 3 + p \in 1..Len(u) /\ 4 + p \in 1..Len(u)
      <4>1. p \in Nat /\ msg.groups \in Nat
        BY <1>1, <1>2
      <4>2. Len(u) = 5 + p + msg.groups
        BY <3>1 DEF l
      <4> QED
        BY <4>1, <4>2
    <3>8. /\ Len(h) + 2 = 4 /\ Len(h) + (3 + p) = 5 + p /\ Len(h) + (4 + p) = 6 + p
      BY <1>2, <3>4
    <3>9. c \in Seq(Nat) /\ c[1] = AUTH_UNIX /\ c[2] = 4 * l /\ Len(c) = 2 + l
      BY <3>2, <3>4, <3>5, <3>6
    <3>10. c[4] = msg.machine /\ c[5 + p] = Uid /\ c[6 + p] = Gid
      BY <3>1, <3>2, <3>5, <3>7, <3>8
    <3>11. Len(c) \in Nat /\ Len(c) >= 2
      BY <1>2, <3>9
    <3> QED
      BY <2>2, <3>9, <3>10, <3>11
  <2> QED
    BY <2>1, <2>2
<1>6. RpcWords(msg) = (a \o c) \o v
  BY <1>1 DEF RpcWords
<1> HIDE DEF a, c, v, l, p, q
<1> DEFINE ac == a \o c
<1>7. /\ ac \in Seq(Nat) /\ Len(ac) = 6 + Len(c)
      /\ \A i \in 1..6 : ac[i] = a[i]
      /\ \A i \in 1..Len(c) : ac[6 + i] = c[i]
  <2>1. a \in Seq(Nat) /\ c \in Seq(Nat)
    BY <1>3, <1>5
  <2>2. /\ ac \in Seq(Nat) /\ Len(ac) = Len(a) + Len(c)
        /\ \A i \in 1..Len(a) : ac[i] = a[i]
        /\ \A i \in 1..Len(c) : ac[Len(a) + i] = c[i]
    BY <2>1, ConcatParts
  <2>3. Len(a) = 6
    BY <1>3
  <2> QED
    BY <2>2, <2>3
<1> HIDE DEF ac
<1> DEFINE w == ac \o v
<1>8. /\ w \in Seq(Nat) /\ Len(w) = 6 + Len(c) + 2 + q
      /\ \A i \in 1..(6 + Len(c)) : w[i] = ac[i]
      /\ \A i \in 1..(2 + q) : w[6 + Len(c) + i] = v[i]
  <2>1. ac \in Seq(Nat) /\ v \in Seq(Nat)
    BY <1>4, <1>7
  <2>2. /\ w \in Seq(Nat) /\ Len(w) = Len(ac) + Len(v)
        /\ \A i \in 1..Len(ac) : w[i] = ac[i]
        /\ \A i \in 1..Len(v) : w[Len(ac) + i] = v[i]
    BY <2>1, ConcatParts
  <2>3. Len(ac) = 6 + Len(c) /\ Len(v) = 2 + q
    BY <1>4, <1>7
  <2>4. (6 + Len(c)) + (2 + q) = 6 + Len(c) + 2 + q
    BY <1>2, <1>5
  <2> QED
    BY <2>2, <2>3, <2>4
<1> HIDE DEF w
<1>9. RpcWords(msg) = w
  BY <1>6 DEF w, ac
<1>10. Len(w) \in Nat /\ Len(w) >= 10
  BY <1>2, <1>5, <1>8
<1>11. \A i \in Nat : i < Len(w) => Word(i) = w[i + 1]
  BY <1>9 DEF Word
<1>12. \A i \in 0..5 : Word(i) = a[i + 1]
  <2> SUFFICES ASSUME NEW i \in 0..5 PROVE Word(i) = a[i + 1]
    OBVIOUS
  <2>1. i \in Nat /\ i < Len(w) /\ i + 1 \in 1..6 /\ i + 1 \in 1..(6 + Len(c))
    BY <1>5, <1>10
  <2> QED
    BY <1>7, <1>8, <1>11, <2>1
<1>13. \A i \in 1..Len(c) : Word(5 + i) = c[i]
  <2> SUFFICES ASSUME NEW i \in 1..Len(c) PROVE Word(5 + i) = c[i]
    OBVIOUS
  <2>1. /\ 5 + i \in Nat /\ 5 + i < Len(w) /\ (5 + i) + 1 = 6 + i
        /\ 6 + i \in 1..(6 + Len(c))
    <3>1. q \in Nat /\ Len(c) \in Nat /\ Len(w) = 6 + Len(c) + 2 + q
      BY <1>2, <1>5, <1>8
    <3> QED
      BY <3>1
  <2>2. Word(5 + i) = w[6 + i]
    BY <1>11, <2>1
  <2>3. w[6 + i] = ac[6 + i] /\ ac[6 + i] = c[i]
    BY <1>7, <1>8, <2>1
  <2> QED
    BY <2>2, <2>3
<1>14. Word(1) = CALL /\ Word(2) = msg.rpcvers /\ Word(3) = msg.prog
  <2>1. /\ 1 \in 0..5 /\ 1 + 1 = 2 /\ 2 \in 0..5 /\ 2 + 1 = 3 /\ 3 \in 0..5 /\ 3 + 1 = 4
    OBVIOUS
  <2> QED
    BY <1>3, <1>12, <2>1
<1>15. Word(6) = msg.flavor
  <2>1. 1 \in 1..Len(c) /\ 5 + 1 = 6
    BY <1>5
  <2> QED
    BY <1>5, <1>13, <2>1
<1>16. ASSUME msg.flavor = AUTH_UNIX
       PROVE  /\ Len(w) = 10 + l + q
              /\ Word(7) = 4 * l /\ Word(9) = msg.machine
              /\ Word(10 + p) = Uid /\ Word(11 + p) = Gid
              /\ Word(9 + l) = msg.verifier
  <2>1. Len(c) = 2 + l /\ c[2] = 4 * l /\ c[4] = msg.machine
        /\ c[5 + p] = Uid /\ c[6 + p] = Gid
    BY <1>5, <1>16
  <2>2. Len(w) = 10 + l + q
    BY <1>2, <1>8, <2>1
  <2>3. /\ 2 \in 1..Len(c) /\ 4 \in 1..Len(c) /\ 5 + p \in 1..Len(c) /\ 6 + p \in 1..Len(c)
        /\ 5 + 2 = 7 /\ 5 + 4 = 9
        /\ 5 + (5 + p) = 10 + p /\ 5 + (6 + p) = 11 + p
    BY <1>1, <1>2, <2>1 DEF l
  <2>4. Word(9 + l) = w[(9 + l) + 1] /\ (9 + l) + 1 = 6 + Len(c) + 2
    <3>1. 9 + l \in Nat /\ 9 + l < Len(w) /\ (9 + l) + 1 = 6 + Len(c) + 2
      BY <1>2, <2>1, <2>2
    <3> QED
      BY <1>11, <3>1
  <2>5. 2 \in 1..(2 + q)
    BY <1>2
  <2>6. w[6 + Len(c) + 2] = v[2]
    BY <1>8, <2>5
  <2> QED
    BY <1>4, <1>13, <2>1, <2>2, <2>3, <2>4, <2>6
<1> QED
  BY <1>1, <1>2, <1>9, <1>10, <1>14, <1>15, <1>16 DEF p, q, l

\* A reply of the sender (nfsrecord.c:894-906).
LEMMA ReplyWords ==
    ASSUME msg \in Accepted \cup Denied
    PROVE  /\ msg.body \in Nat /\ Len(RpcWords(msg)) \in Nat
           /\ Word(1) = REPLY /\ Word(4) \in Nat
           /\ msg.kind = "accepted" =>
                /\ msg.verifier \in Nat /\ Pad(msg.verifier) \in Nat
                /\ Len(RpcWords(msg)) = 5 + Pad(msg.verifier)
                /\ Word(4) = msg.verifier
           /\ msg.kind # "accepted" =>
                /\ msg.body = 0
                /\ Len(RpcWords(msg)) <= 3 + Skip(Word(4))
<1>1. CASE msg \in Accepted
  <2> DEFINE q == Pad(msg.verifier)
             a == <<77, REPLY, 0>>
             v == Verifier(msg)
  <2>1. msg.kind = "accepted" /\ msg.verifier \in Nat /\ msg.body \in Nat
    <3>1. msg.kind = "accepted" /\ msg.verifier \in Verifiers /\ msg.body \in Bodies
      BY <1>1 DEF Accepted
    <3> QED
      BY <3>1, Numbers
  <2>2. q \in Nat
    BY <2>1, PadType
  <2>3. a \in Seq(Nat) /\ Len(a) = 3 /\ a[2] = REPLY
    BY DEF REPLY
  <2>4. v \in Seq(Nat) /\ Len(v) = 2 + q /\ v[2] = msg.verifier
    BY <2>1, VerifierWords
  <2>5. RpcWords(msg) = a \o v
    BY <2>1 DEF RpcWords
  <2> HIDE DEF a, v, q
  <2>6. /\ Len(a \o v) = Len(a) + Len(v)
        /\ \A i \in 1..Len(a) : (a \o v)[i] = a[i]
        /\ \A i \in 1..Len(v) : (a \o v)[Len(a) + i] = v[i]
    <3>1. a \in Seq(Nat) /\ v \in Seq(Nat)
      BY <2>3, <2>4
    <3> QED
      BY <3>1, ConcatParts
  <2>7. Len(RpcWords(msg)) = 5 + q /\ 1 < 5 + q /\ 4 < 5 + q /\ 5 + q \in Nat
    BY <2>2, <2>3, <2>4, <2>5, <2>6
  <2>8. 2 \in 1..Len(a) /\ 2 \in 1..Len(v) /\ Len(a) + 2 = 5
    BY <2>2, <2>3, <2>4
  <2>9. RpcWords(msg)[2] = REPLY /\ RpcWords(msg)[5] = msg.verifier
    BY <2>3, <2>4, <2>5, <2>6, <2>8
  <2>10. Word(1) = REPLY /\ Word(4) = msg.verifier
    <3>1. 1 + 1 = 2 /\ 4 + 1 = 5
      OBVIOUS
    <3> QED
      BY <2>7, <2>9, <3>1 DEF Word
  <2> QED
    BY <2>1, <2>2, <2>7, <2>10 DEF q
<1>2. CASE msg \in Denied
  <2>1. msg.kind \in {"mismatch", "auth_error"} /\ msg.body = 0
    BY <1>2 DEF Denied
  <2>2. CASE msg.kind = "mismatch"
    <3>1. RpcWords(msg) = <<77, REPLY, 1, 0, 2, 2>>
      BY <2>2 DEF RpcWords
    <3>2. Len(RpcWords(msg)) = 6 /\ Word(1) = REPLY /\ Word(4) = 2
      BY <3>1 DEF Word
    <3>3. Skip(2) = 3
      BY DEF Skip
    <3> QED
      BY <2>1, <2>2, <3>2, <3>3
  <2>3. CASE msg.kind = "auth_error"
    <3>1. RpcWords(msg) = <<77, REPLY, 1, 1, 5>>
      BY <2>3 DEF RpcWords
    <3>2. Len(RpcWords(msg)) = 5 /\ Word(1) = REPLY /\ Word(4) = 5
      BY <3>1 DEF Word
    <3>3. Skip(5) = 4
      BY DEF Skip
    <3> QED
      BY <2>1, <2>3, <3>2, <3>3
  <2> QED
    BY <2>1, <2>2, <2>3
<1> QED
  BY <1>1, <1>2

-----------------------------------------------------------------------------
\* The type IP, where getEtherHeader looks for it.
TypeSeen == IF frame.link = "vlan" THEN ip_len = IP ELSE frame.type = IP

\* The link header was taken for what it is.
LinkFound ==
    /\ TypeSeen
    /\ frame.link = "802.3" => 8 + ip_len <= ETHERMTU

\* The frames that are to end as a record.
Wanted ==
    /\ LinkFound
    /\ frame.version = 4 /\ frame.offset % 8192 = 0
    /\ frame.protocol \in {TCP, UDP}
    /\ PayloadAt < tot_len
    /\ \/ msg.kind = "accepted"
       \/ /\ msg.kind = "call" /\ msg.rpcvers = RPC_VERSION
          /\ msg.prog \in {NFS_PROGRAM, MOUNT_PROGRAM} /\ msg.flavor = AUTH_UNIX

\* An IP header of another version, at byte k.
OtherVersion(k) == (Half(k) \div 256) \div 16 # 4

Given ==
    /\ frame \in Frame /\ msg \in Call \cup Accepted \cup Denied
    /\ stage \in {"ether", "ip", "transport", "rpc", "payload", "dropped"}

AtIp ==
    stage = "ip" =>
        /\ consumed = e_len
        /\ \/ LinkFound /\ e_len = LinkLen
           \/ OtherVersion(e_len) /\ ~ Wanted

IpFound ==
    /\ LinkFound /\ e_len = LinkLen /\ i_len = IpLen /\ proto = frame.protocol
    /\ frame.version = 4 /\ frame.offset % 8192 = 0

AtTransport == stage = "transport" => IpFound /\ consumed = LinkLen + IpLen

AtRpc ==
    stage = "rpc" => /\ IpFound /\ proto \in {TCP, UDP}
                     /\ consumed = LinkLen + IpLen + TransportLen + MarkLen

AtPayload ==
    stage = "payload" =>
        /\ IpFound /\ proto \in {TCP, UDP} /\ Wanted
        /\ consumed = PayloadAt
        /\ \/ dir = CALL /\ msg.kind = "call" /\ euid = Uid /\ egid = Gid
           \/ dir = REPLY /\ msg.kind = "accepted"

AtDropped == stage = "dropped" => ~ Wanted

HeadersInv == Given /\ AtIp /\ AtTransport /\ AtRpc /\ AtPayload /\ AtDropped

\* iphdump has printed what it prints of the frame.
Printed ==
    seen => /\ stage \in {"payload", "dropped"}
            /\ \E echo \in BOOLEAN : out = processPacket(echo)

IpInv == HeadersInv /\ Printed

-----------------------------------------------------------------------------
LEMMA FrameFields ==
    ASSUME Given
    PROVE  /\ frame.link \in {"rfc894", "802.3", "vlan"}
           /\ frame.type \in Nat /\ 1500 < frame.type
           /\ frame.version \in 0..15 /\ frame.ipOptions \in 0..10
           /\ frame.tcpOptions \in 0..10 /\ frame.offset \in Nat
           /\ frame.protocol \in Nat /\ frame.cut \in Nat
<1>1. /\ frame.link \in Links /\ frame.type \in Types /\ frame.version \in Versions
      /\ frame.ipOptions \in IpOptions /\ frame.tcpOptions \in TcpOptions
      /\ frame.offset \in Offsets /\ frame.protocol \in Protocols /\ frame.cut \in Cuts
  BY DEF Given, Frame
<1>2. frame.link \in {"rfc894", "802.3", "vlan"}
  <2>1. Links \subseteq {"rfc894", "802.3", "vlan"}
    BY HeadersAssumption
  <2> QED
    BY <1>1, <2>1
<1>3. frame.type \in Nat /\ 1500 < frame.type /\ frame.offset \in Nat
  <2>1. /\ \A t \in Types : t \in Nat /\ 1500 < t
        /\ \A o \in Offsets : o \in Nat
    BY HeadersAssumption
  <2> QED
    BY <1>1, <2>1
<1>4. frame.version \in 0..15 /\ frame.ipOptions \in 0..10 /\ frame.tcpOptions \in 0..10
  <2>1. Versions \subseteq 0..15 /\ IpOptions \subseteq 0..10 /\ TcpOptions \subseteq 0..10
    BY HeadersAssumption
  <2> QED
    BY <1>1, <2>1
<1>5. frame.protocol \in Nat /\ frame.cut \in Nat
  BY <1>1, Numbers
<1> QED
  BY <1>2, <1>3, <1>4, <1>5

\* The lengths of a frame, as numbers.
LEMMA Lengths ==
    ASSUME Given
    PROVE  /\ LinkLen \in {14, 18, 22} /\ IpLen \in Nat /\ IpLen >= 20
           /\ TransportLen \in Nat /\ TransportLen >= 8 /\ MarkLen \in {0, 4}
           /\ RpcLen \in Nat /\ RpcLen = 4 * Len(RpcWords(msg)) /\ msg.body \in Nat
           /\ PayloadAt \in Nat /\ PayloadAt >= 42 /\ ip_len \in Nat
           /\ tot_len \in Int /\ tot_len = PayloadAt + 4 * msg.body - 4 * frame.cut
<1>1. /\ LinkLen \in {14, 18, 22}
      /\ frame.ipOptions \in Nat /\ frame.tcpOptions \in Nat /\ frame.cut \in Nat
  BY FrameFields DEF LinkLen
<1>2. msg.body \in Nat /\ Len(RpcWords(msg)) \in Nat
  BY CallWords, ReplyWords DEF Given
<1>3. IpLen \in Nat /\ IpLen >= 20
  BY <1>1 DEF IpLen
<1>4. TransportLen \in Nat /\ TransportLen >= 8 /\ MarkLen \in {0, 4}
  BY <1>1 DEF TransportLen, MarkLen
<1>5. RpcLen \in Nat /\ RpcLen = 4 * Len(RpcWords(msg))
  BY <1>2 DEF RpcLen
<1>6. PayloadAt \in Nat /\ PayloadAt >= 42
  BY <1>1, <1>3, <1>4, <1>5 DEF PayloadAt
<1>7. ip_len \in Nat
  BY <1>2, <1>3, <1>4, <1>5 DEF ip_len
<1>8. tot_len \in Int /\ tot_len = PayloadAt + 4 * msg.body - 4 * frame.cut
  <2>1. LinkLen \in Nat /\ MarkLen \in Nat
    BY <1>1, <1>4
  <2>2. tot_len = (LinkLen + ip_len) - 4 * frame.cut
    BY DEF tot_len, packet_len
  <2>3. ip_len = IpLen + TransportLen + MarkLen + RpcLen + 4 * msg.body
    BY DEF ip_len
  <2>4. PayloadAt = LinkLen + IpLen + TransportLen + MarkLen + RpcLen
    BY DEF PayloadAt
  <2>5. /\ IpLen \in Nat /\ TransportLen \in Nat /\ RpcLen \in Nat
        /\ msg.body \in Nat /\ frame.cut \in Nat
    BY <1>1, <1>2, <1>3, <1>4, <1>5
  <2> QED
    BY <2>1, <2>2, <2>3, <2>4, <2>5
<1> QED
  BY <1>1, <1>2, <1>3, <1>4, <1>5, <1>6, <1>7, <1>8

LEMMA NatLengths ==
    ASSUME Given
    PROVE  /\ LinkLen \in Nat /\ IpLen \in Nat /\ TransportLen \in Nat /\ MarkLen \in Nat
           /\ RpcLen \in Nat /\ PayloadAt \in Nat /\ tot_len \in Int
<1>1. LinkLen \in {14, 18, 22} /\ MarkLen \in {0, 4}
  BY Lengths
<1>2. /\ IpLen \in Nat /\ TransportLen \in Nat
      /\ RpcLen \in Nat /\ PayloadAt \in Nat /\ tot_len \in Int
  BY Lengths
<1> QED
  BY <1>1, <1>2

\* The byte of the version and the header length, which are 16 * v + 5 + o.
LEMMA FirstByte ==
    ASSUME NEW v \in 0..15, NEW o \in 0..10
    PROVE  LET h == 256 * (16 * v + 5 + o)
           IN  /\ (h \div 256) \div 16 = v /\ (h \div 256) % 16 = 5 + o
               /\ h # SNAP
<1> DEFINE b == 16 * v + 5 + o
           h == 256 * b
<1>1. b \in Nat /\ h \in Nat
  OBVIOUS
<1>2. b \div 16 = v /\ b % 16 = 5 + o
  OBVIOUS
<1> HIDE DEF b
<1>3. h \div 256 = b
  BY <1>1
<1>4. h # SNAP
  BY <1>1 DEF SNAP
<1> QED
  BY <1>2, <1>3, <1>4 DEF b

\* nfsrecord.c:660-691: no frame that is wanted gets lost, and another frame is
\* taken for a packet of IP only where its header has another version than 4.
LEMMA EtherRight ==
    ASSUME Given
    PROVE  /\ Wanted => getEtherHeader.proto = IP
           /\ getEtherHeader.proto = IP =>
                \/ LinkFound /\ getEtherHeader.len = LinkLen
                \/ OtherVersion(getEtherHeader.len) /\ ~ Wanted
<1>1. /\ frame.link \in {"rfc894", "802.3", "vlan"}
      /\ frame.type \in Nat /\ 1500 < frame.type
      /\ frame.version \in 0..15 /\ frame.ipOptions \in 0..10 /\ frame.cut \in Nat
  BY FrameFields
<1>2. /\ ip_len \in Nat /\ tot_len \in Int /\ LinkLen \in {14, 18, 22}
  BY Lengths
<1>3. /\ (1 \div 256) \div 16 # 4 /\ (0 \div 256) \div 16 # 4 /\ (SNAP \div 256) \div 16 # 4
  BY DEF SNAP
<1>4. CASE frame.link = "rfc894"
  <2>1. /\ Half(12) = frame.type /\ Half(14) # SNAP /\ Half(18) = 1
    BY <1>1, <1>4, HalfWords, FirstByte
  <2>2. CASE frame.type = VLAN
    <3>1. getEtherHeader.len = 18
      BY <2>1, <2>2 DEF getEtherHeader
    <3>2. ~ TypeSeen
      BY <1>4, <2>2 DEF TypeSeen, VLAN, IP
    <3> QED
      BY <1>3, <2>1, <3>1, <3>2 DEF OtherVersion, Wanted, LinkFound
  <2>3. CASE frame.type # VLAN
    <3>1. getEtherHeader = [len |-> 14, proto |-> frame.type]
      BY <1>1, <2>1, <2>3 DEF getEtherHeader, ETHERMTU
    <3>2. LinkLen = 14
      BY <1>4 DEF LinkLen
    <3> QED
      BY <1>4, <3>1, <3>2 DEF TypeSeen, LinkFound, Wanted
  <2> QED
    BY <2>2, <2>3
<1>5. CASE frame.link = "802.3"
  <2>1. /\ Half(12) = 8 + ip_len /\ Half(14) = SNAP /\ Half(18) = 0 /\ Half(20) = frame.type
    BY <1>5, HalfWords
  <2>2. LinkLen = 22
    BY <1>5 DEF LinkLen
  <2>3. CASE 8 + ip_len <= ETHERMTU
    <3>1. Half(12) # VLAN
      BY <1>2, <2>1, <2>3 DEF ETHERMTU, VLAN
    <3>2. getEtherHeader = [len |-> 22, proto |-> frame.type]
      BY <2>1, <2>3, <3>1 DEF getEtherHeader
    <3> QED
      BY <1>5, <2>2, <2>3, <3>2 DEF TypeSeen, LinkFound, Wanted
  <2>4. CASE ~ (8 + ip_len <= ETHERMTU)
    <3>1. ~ Wanted
      BY <1>5, <2>4 DEF Wanted, LinkFound
    <3>2. tot_len - 22 = ip_len - 4 * frame.cut /\ Half(12) # tot_len - 22
      BY <1>1, <1>2, <2>1, <2>2 DEF tot_len, packet_len
    <3>3. getEtherHeader.len \in {14, 18}
      BY <2>1, <2>4, <3>2 DEF getEtherHeader
    <3>4. OtherVersion(getEtherHeader.len)
      BY <1>3, <2>1, <3>3 DEF OtherVersion
    <3> QED
      BY <3>1, <3>4
  <2> QED
    BY <2>3, <2>4
<1>6. CASE frame.link = "vlan"
  <2>1. Half(12) = VLAN /\ Half(20) = ip_len
    BY <1>6, HalfWords
  <2>2. getEtherHeader = [len |-> 18, proto |-> ip_len]
    BY <2>1 DEF getEtherHeader
  <2>3. LinkLen = 18
    BY <1>6 DEF LinkLen
  <2> QED
    BY <1>6, <2>2, <2>3 DEF TypeSeen, LinkFound, Wanted
<1> QED
  BY <1>1, <1>4, <1>5, <1>6

\* Where the IP header is.
LEMMA IpHalfWords ==
    ASSUME Given
    PROVE  /\ (Half(LinkLen) \div 256) \div 16 = frame.version
           /\ 4 * ((Half(LinkLen) \div 256) % 16) = IpLen
           /\ Half(LinkLen + 6) = frame.offset
<1>1. /\ frame.link \in {"rfc894", "802.3", "vlan"}
      /\ frame.version \in 0..15 /\ frame.ipOptions \in 0..10
  BY FrameFields
<1>2. /\ Half(LinkLen) = 256 * (16 * frame.version + 5 + frame.ipOptions)
      /\ Half(LinkLen + 6) = frame.offset
  <2>1. /\ frame.link = "rfc894" => LinkLen = 14 /\ LinkLen + 6 = 20
        /\ frame.link = "802.3" => LinkLen = 22 /\ LinkLen + 6 = 28
        /\ frame.link = "vlan" => LinkLen = 18 /\ LinkLen + 6 = 24
    BY DEF LinkLen
  <2> QED
    BY <1>1, <2>1, HalfWords
<1>3. /\ (Half(LinkLen) \div 256) \div 16 = frame.version
      /\ (Half(LinkLen) \div 256) % 16 = 5 + frame.ipOptions
  BY <1>1, <1>2, FirstByte
<1> QED
  BY <1>1, <1>2, <1>3 DEF IpLen

\* nfsrecord.c:789-823: the length of a call's header, as getRpcHeader counts it,
\* and the words that it reads on the way.
LEMMA CallHeader ==
    ASSUME msg \in Call, msg.flavor = AUTH_UNIX
    PROVE  /\ verf \in Nat /\ verf + 2 <= Len(RpcWords(msg)) /\ 8 <= verf
           /\ 4 * (verf + Skip(Word(verf + 1))) = RpcLen
           /\ get_auth(cred).euid = Uid /\ get_auth(cred).egid = Gid
<1> DEFINE p == Pad(msg.machine)
           q == Pad(msg.verifier)
           l == 5 + p + msg.groups
<1>1. /\ p \in Nat /\ q \in Nat /\ msg.groups \in Nat
      /\ msg.verifier \in Nat /\ Len(RpcWords(msg)) = 10 + l + q
      /\ Word(7) = 4 * l /\ Word(9) = msg.machine
      /\ Word(10 + p) = Uid /\ Word(11 + p) = Gid
      /\ Word(9 + l) = msg.verifier
  <2>1. LET pp == Pad(msg.machine)
            ll == 5 + pp + msg.groups
            qq == Pad(msg.verifier)
        IN  /\ pp \in Nat /\ qq \in Nat /\ msg.groups \in Nat /\ msg.verifier \in Nat
            /\ msg.flavor = AUTH_UNIX =>
                 /\ Len(RpcWords(msg)) = 10 + ll + qq
                 /\ Word(7) = 4 * ll /\ Word(9) = msg.machine
                 /\ Word(10 + pp) = Uid /\ Word(11 + pp) = Gid
                 /\ Word(9 + ll) = msg.verifier
    BY CallWords, Zenon
  <2> QED
    BY <2>1, Zenon
<1>2. l \in Nat
  <2>1. p \in Nat /\ msg.groups \in Nat
    BY <1>1
  <2> QED
    BY <2>1
<1>3. q = (msg.verifier + 3) \div 4 /\ p = Pad(msg.machine)
  BY DEF Pad
<1> HIDE DEF p, q, l
<1>4. Skip(4 * l) = l + 2
  BY <1>2 DEF Skip
<1>5. Skip(msg.verifier) = q + 2
  <2> DEFINE n == msg.verifier
  <2>1. n \in Nat /\ q = (n + 3) \div 4 /\ q \in Nat
    BY <1>1, <1>3
  <2>2. Skip(n) = (n + 11) \div 4
    BY <2>1 DEF Skip
  <2> HIDE DEF n
  <2>3. Skip(n) = q + 2
    BY <2>1, <2>2
  <2> QED
    BY <2>3 DEF n
<1>6. verf = 8 + l
  <2>1. cred + 1 = 7 /\ cred = 6
    BY DEF cred
  <2>2. 6 + (l + 2) = 8 + l
    BY <1>2
  <2> QED
    BY <1>1, <1>4, <2>1, <2>2 DEF verf
<1>7. Word(verf + 1) = msg.verifier
  <2>1. (8 + l) + 1 = 9 + l
    BY <1>2
  <2> QED
    BY <1>1, <1>6, <2>1
<1>8. 4 * (verf + Skip(Word(verf + 1))) = RpcLen
  <2>1. (8 + l) + (q + 2) = 10 + l + q
    BY <1>1, <1>2
  <2> QED
    BY <1>1, <1>5, <1>6, <1>7, <2>1 DEF RpcLen
<1>9. get_auth(cred).euid = Uid /\ get_auth(cred).egid = Gid
  <2>1. Word(cred + 3) = msg.machine /\ cred + 4 = 10
    BY <1>1 DEF cred
  <2>2. cred + 4 + Pad(Word(cred + 3)) = 10 + p
    BY <1>3, <2>1
  <2>3. (10 + p) + 1 = 11 + p
    BY <1>1
  <2> QED
    BY <1>1, <2>2, <2>3 DEF get_auth
<1> QED
  BY <1>1, <1>2, <1>6, <1>8, <1>9

\* nfsrecord.c:894-906: the same of an accepted reply, and of a denied one, which
\* seems to have at least as many words as it has.
LEMMA ReplyHeader ==
    ASSUME msg \in Accepted \cup Denied
    PROVE  /\ 4 * (3 + Skip(Word(4))) \in Nat
           /\ msg.kind = "accepted" =>
                4 * (3 + Skip(Word(4))) = RpcLen /\ 5 <= Len(RpcWords(msg))
           /\ msg.kind # "accepted" =>
                msg.body = 0 /\ RpcLen <= 4 * (3 + Skip(Word(4)))
<1>1. /\ Len(RpcWords(msg)) \in Nat /\ Word(4) \in Nat
      /\ msg.kind = "accepted" =>
           /\ msg.verifier \in Nat /\ Pad(msg.verifier) \in Nat
           /\ Len(RpcWords(msg)) = 5 + Pad(msg.verifier)
           /\ Word(4) = msg.verifier
      /\ msg.kind # "accepted" =>
           /\ msg.body = 0
           /\ Len(RpcWords(msg)) <= 3 + Skip(Word(4))
  BY ReplyWords
<1>2. Skip(Word(4)) \in Nat
  BY <1>1 DEF Skip
<1>3. RpcLen = 4 * Len(RpcWords(msg))
  BY DEF RpcLen
<1>4. CASE msg.kind = "accepted"
  <2> DEFINE n == msg.verifier
             q == Pad(n)
  <2>1. n \in Nat /\ q = (n + 3) \div 4 /\ q \in Nat
    BY <1>1, <1>4 DEF Pad
  <2>2. Skip(n) = (n + 11) \div 4
    BY <2>1 DEF Skip
  <2> HIDE DEF n, q
  <2>3. Skip(n) = q + 2
    BY <2>1, <2>2
  <2>4. 3 + (q + 2) = 5 + q /\ 5 <= 5 + q
    BY <2>1
  <2>5. 3 + Skip(Word(4)) = Len(RpcWords(msg))
    BY <1>1, <1>4, <2>3, <2>4 DEF n, q
  <2>6. 5 <= Len(RpcWords(msg))
    BY <1>1, <1>4, <2>4 DEF n, q
  <2> QED
    BY <1>2, <1>3, <1>4, <2>5, <2>6
<1>5. CASE msg.kind # "accepted"
  BY <1>1, <1>2, <1>3, <1>5
<1> QED
  BY <1>4, <1>5

\* The words that were captured reach behind the header of a frame that is wanted.
LEMMA Captured ==
    ASSUME Given, consumed + RpcLen = PayloadAt, consumed \in Nat, PayloadAt < tot_len
    PROVE  max_ptr \in Int /\ Len(RpcWords(msg)) <= max_ptr
<1> DEFINE n == Len(RpcWords(msg))
           t == tot_len
<1>1. n \in Nat /\ t \in Int /\ RpcLen = 4 * n /\ PayloadAt \in Nat
  <2>1. Len(RpcWords(msg)) \in Nat
    BY CallWords, ReplyWords DEF Given
  <2> QED
    BY <2>1, Lengths
<1>2. consumed + 4 * n < t
  BY <1>1
<1>3. max_ptr = (t - consumed) \div 4
  BY DEF max_ptr
<1> HIDE DEF n, t
<1>4. t - consumed \in Int /\ 4 * n <= t - consumed
  BY <1>1, <1>2
<1> DEFINE d == t - consumed
<1> HIDE DEF d
<1>5. d \in Int /\ 4 * n <= d /\ max_ptr = d \div 4
  BY <1>3, <1>4 DEF d
<1>6. d \div 4 \in Int /\ n <= d \div 4
  BY <1>1, <1>5
<1> QED
  BY <1>5, <1>6 DEF n

LEMMA HeadersInit == Init => HeadersInv
  BY DEF Init, HeadersInv, Given, AtIp, AtTransport, AtRpc, AtPayload, AtDropped

\* What a frame and its message determine stays as it is.
LEMMA Unchanged ==
    ASSUME UNCHANGED input
    PROVE  /\ frame' = frame /\ msg' = msg
           /\ UNCHANGED <<LinkLen, IpLen, TransportLen, MarkLen, RpcLen, PayloadAt>>
           /\ UNCHANGED <<ip_len, tot_len>>
           /\ LinkFound' = LinkFound /\ Wanted' = Wanted
<1>1. frame' = frame /\ msg' = msg
  BY DEF input
<1>2. UNCHANGED <<LinkLen, IpLen, TransportLen, MarkLen, RpcLen>>
  BY <1>1 DEF LinkLen, IpLen, TransportLen, MarkLen, RpcLen
<1>3. UNCHANGED <<PayloadAt, ip_len>>
  BY <1>1, <1>2 DEF PayloadAt, ip_len
<1>4. UNCHANGED tot_len
  BY <1>1, <1>2, <1>3 DEF tot_len, packet_len
<1>5. LinkFound' = LinkFound
  BY <1>1, <1>3 DEF LinkFound, TypeSeen
<1>6. Wanted' = Wanted
  BY <1>1, <1>3, <1>4, <1>5 DEF Wanted
<1> QED
  BY <1>1, <1>2, <1>3, <1>4, <1>5, <1>6

\* A frame that is dropped must not be one that is wanted.
LEMMA DropRight ==
    ASSUME HeadersInv, ~ Wanted, Drop
    PROVE  HeadersInv'
<1>1. ~ Wanted'
  BY Unchanged DEF Drop
<1>2. stage' = "dropped" /\ frame' = frame /\ msg' = msg
  BY DEF Drop, input
<1>3. Given'
  BY <1>2 DEF HeadersInv, Given
<1> QED
  BY <1>1, <1>2, <1>3 DEF HeadersInv, AtIp, AtTransport, AtRpc, AtPayload, AtDropped

LEMMA EtherStep ==
    ASSUME HeadersInv, EtherHeader
    PROVE  HeadersInv'
<1>1. Given /\ stage = "ether"
  BY DEF HeadersInv, EtherHeader
<1>2. CASE tot_len <= MinimumLen \/ getEtherHeader.proto # IP
  <2>1. Drop
    BY <1>2 DEF EtherHeader
  <2>2. ~ Wanted
    <3>1. tot_len <= 42 => ~ (PayloadAt < tot_len)
      BY <1>1, Lengths
    <3>2. MinimumLen = 42
      BY DEF MinimumLen
    <3> QED
      BY <1>1, <1>2, <3>1, <3>2, EtherRight DEF Wanted
  <2> QED
    BY <2>1, <2>2, DropRight
<1>3. CASE ~ (tot_len <= MinimumLen \/ getEtherHeader.proto # IP)
  <2>1. /\ e_len' = getEtherHeader.len /\ consumed' = e_len' /\ stage' = "ip"
        /\ UNCHANGED input
    BY <1>3 DEF EtherHeader
  <2>2. \/ LinkFound /\ getEtherHeader.len = LinkLen
        \/ OtherVersion(getEtherHeader.len) /\ ~ Wanted
    BY <1>1, <1>3, EtherRight
  <2>3. /\ frame' = frame /\ msg' = msg /\ LinkLen' = LinkLen
        /\ LinkFound' = LinkFound /\ Wanted' = Wanted
    BY <2>1, Unchanged
  <2>4. OtherVersion(getEtherHeader.len) => OtherVersion(e_len)'
    <3>1. OtherVersion(e_len)' <=> (Half(e_len)' \div 256) \div 16 # 4
      BY DEF OtherVersion
    <3>2. Half(e_len)' = Half(getEtherHeader.len)
      <4>1. frame' = frame /\ ip_len' = ip_len
        BY <2>1, Unchanged
      <4>2. Halves' = Halves
        BY <4>1 DEF Halves, IpHalves
      <4> QED
        BY <2>1, <4>2 DEF Half
    <3> QED
      BY <3>1, <3>2 DEF OtherVersion
  <2>5. Given'
    BY <1>1, <2>1, <2>3 DEF Given
  <2> QED
    BY <2>1, <2>2, <2>3, <2>4, <2>5
       DEF HeadersInv, AtIp, AtTransport, AtRpc, AtPayload, AtDropped
<1> QED
  BY <1>2, <1>3

LEMMA IpStep ==
    ASSUME HeadersInv, IpHeader
    PROVE  HeadersInv'
<1> DEFINE vhl == Half(e_len) \div 256
           off == Half(e_len + 6)
           bad == vhl \div 16 # 4 \/ off % 8192 # 0 \/ consumed + 4 * (vhl % 16) >= tot_len
<1>1. Given /\ stage = "ip" /\ consumed = e_len
  BY DEF HeadersInv, AtIp, IpHeader
<1>2. ASSUME LinkFound, e_len = LinkLen
      PROVE  vhl \div 16 = frame.version /\ 4 * (vhl % 16) = IpLen /\ off = frame.offset
  BY <1>1, <1>2, IpHalfWords
<1>3. \/ LinkFound /\ e_len = LinkLen
      \/ vhl \div 16 # 4 /\ ~ Wanted
  BY <1>1 DEF HeadersInv, AtIp, OtherVersion
<1>4. CASE bad
  <2>1. Drop
    BY <1>4 DEF IpHeader
  <2>2. ASSUME LinkFound, e_len = LinkLen, Wanted PROVE FALSE
    <3>1. LinkLen + IpLen >= tot_len
      BY <1>1, <1>2, <1>4, <2>2 DEF Wanted
    <3>2. LinkLen + IpLen <= PayloadAt /\ LinkLen + IpLen \in Nat
      <4>1. /\ LinkLen \in Nat /\ IpLen \in Nat /\ TransportLen \in Nat
            /\ MarkLen \in Nat /\ RpcLen \in Nat
        BY <1>1, NatLengths
      <4> QED
        BY <4>1 DEF PayloadAt
    <3> QED
      <4>1. PayloadAt \in Nat /\ tot_len \in Int /\ PayloadAt < tot_len
        BY <1>1, <2>2, Lengths DEF Wanted
      <4> QED
        BY <3>1, <3>2, <4>1
  <2>3. ~ Wanted
    BY <1>3, <2>2
  <2> QED
    BY <2>1, <2>3, DropRight
<1>5. CASE ~ bad
  <2>1. /\ i_len' = 4 * (vhl % 16) /\ consumed' = consumed + i_len'
        /\ proto' = frame.protocol /\ stage' = "transport" /\ e_len' = e_len
        /\ UNCHANGED input
    BY <1>5 DEF IpHeader
  <2>2. LinkFound /\ e_len = LinkLen
    BY <1>3, <1>5
  <2>3. frame.version = 4 /\ frame.offset % 8192 = 0 /\ i_len' = IpLen
    BY <1>2, <1>5, <2>1, <2>2
  <2>4. /\ frame' = frame /\ msg' = msg /\ LinkLen' = LinkLen /\ IpLen' = IpLen
        /\ LinkFound' = LinkFound
    BY <2>1, Unchanged
  <2>5. Given'
    BY <1>1, <2>1, <2>4 DEF Given
  <2> HIDE DEF bad, vhl, off
  <2>6. IpFound'
    BY <2>1, <2>2, <2>3, <2>4 DEF IpFound
  <2> QED
    BY <1>1, <2>1, <2>2, <2>3, <2>4, <2>5, <2>6
       DEF HeadersInv, AtIp, AtTransport, AtRpc, AtPayload, AtDropped
<1> QED
  BY <1>4, <1>5

LEMMA TcpStep ==
    ASSUME HeadersInv, TcpHeader
    PROVE  HeadersInv'
<1> DEFINE h == 4 * (5 + frame.tcpOptions)
           bad == consumed + 20 >= tot_len \/ consumed + h >= tot_len
<1>1. /\ Given /\ stage = "transport" /\ proto = TCP /\ IpFound
      /\ consumed = LinkLen + IpLen /\ frame.protocol = TCP
  BY DEF HeadersInv, AtTransport, TcpHeader, IpFound
<1>2. /\ LinkLen \in Nat /\ IpLen \in Nat /\ RpcLen \in Nat /\ frame.tcpOptions \in Nat
      /\ PayloadAt \in Nat /\ tot_len \in Int
  BY <1>1, NatLengths, FrameFields
<1>3. h \in Nat /\ h >= 20 /\ TransportLen = h /\ MarkLen = 4
  BY <1>1, <1>2 DEF TransportLen, MarkLen
<1>4. CASE bad
  <2>1. Drop
    BY <1>4 DEF TcpHeader
  <2> HIDE DEF h
  <2>2. PayloadAt = LinkLen + IpLen + h + 4 + RpcLen
    BY <1>3 DEF PayloadAt
  <2>3. ~ (PayloadAt < tot_len)
    BY <1>1, <1>2, <1>3, <1>4, <2>2
  <2>4. ~ Wanted
    BY <2>3 DEF Wanted
  <2> QED
    BY <2>1, <2>4, DropRight
<1>5. CASE ~ bad
  <2>1. /\ consumed' = consumed + h + 4 /\ stage' = "rpc"
        /\ UNCHANGED <<input, e_len, i_len, proto>>
    BY <1>5 DEF TcpHeader
  <2> HIDE DEF h, bad
  <2>2. /\ frame' = frame /\ msg' = msg /\ LinkLen' = LinkLen /\ IpLen' = IpLen
        /\ TransportLen' = TransportLen /\ MarkLen' = MarkLen /\ LinkFound' = LinkFound
    BY <2>1, Unchanged
  <2>3. Given' /\ IpFound'
    BY <1>1, <2>1, <2>2 DEF Given, IpFound
  <2>4. consumed' = LinkLen' + IpLen' + TransportLen' + MarkLen'
    BY <1>1, <1>3, <2>1, <2>2
  <2>5. proto' \in {TCP, UDP}
    BY <1>1, <2>1
  <2> QED
    BY <2>1, <2>3, <2>4, <2>5
       DEF HeadersInv, AtIp, AtTransport, AtRpc, AtPayload, AtDropped
<1> QED
  BY <1>4, <1>5

LEMMA UdpStep ==
    ASSUME HeadersInv, UdpHeader
    PROVE  HeadersInv'
<1>1. /\ Given /\ stage = "transport" /\ proto = UDP /\ IpFound
      /\ consumed = LinkLen + IpLen /\ frame.protocol = UDP
  BY DEF HeadersInv, AtTransport, UdpHeader, IpFound
<1>2. /\ LinkLen \in Nat /\ IpLen \in Nat /\ RpcLen \in Nat
      /\ PayloadAt \in Nat /\ tot_len \in Int
  BY <1>1, NatLengths
<1>3. TransportLen = 8 /\ MarkLen = 0
  BY <1>1 DEF TransportLen, MarkLen, UDP, TCP
<1>4. CASE consumed + 8 >= tot_len
  <2>1. Drop
    BY <1>4 DEF UdpHeader
  <2>2. PayloadAt = LinkLen + IpLen + 8 + 0 + RpcLen
    BY <1>3 DEF PayloadAt
  <2>3. ~ (PayloadAt < tot_len)
    BY <1>1, <1>2, <1>4, <2>2
  <2>4. ~ Wanted
    BY <2>3 DEF Wanted
  <2> QED
    BY <2>1, <2>4, DropRight
<1>5. CASE ~ (consumed + 8 >= tot_len)
  <2>1. /\ consumed' = consumed + 8 /\ stage' = "rpc"
        /\ UNCHANGED <<input, e_len, i_len, proto>>
    BY <1>5 DEF UdpHeader
  <2>2. /\ frame' = frame /\ msg' = msg /\ LinkLen' = LinkLen /\ IpLen' = IpLen
        /\ TransportLen' = TransportLen /\ MarkLen' = MarkLen /\ LinkFound' = LinkFound
    BY <2>1, Unchanged
  <2>3. Given' /\ IpFound'
    BY <1>1, <2>1, <2>2 DEF Given, IpFound
  <2>4. consumed' = LinkLen' + IpLen' + TransportLen' + MarkLen'
    <3>1. LinkLen + IpLen + 8 = LinkLen + IpLen + 8 + 0
      BY <1>2
    <3> QED
      BY <1>1, <1>3, <2>1, <2>2, <3>1
  <2>5. proto' \in {TCP, UDP}
    BY <1>1, <2>1
  <2> QED
    BY <2>1, <2>3, <2>4, <2>5
       DEF HeadersInv, AtIp, AtTransport, AtRpc, AtPayload, AtDropped
<1> QED
  BY <1>4, <1>5

LEMMA OtherStep ==
    ASSUME HeadersInv, OtherTransport
    PROVE  HeadersInv'
<1>1. ~ Wanted
  BY DEF HeadersInv, AtTransport, OtherTransport, IpFound, Wanted
<1> QED
  BY <1>1, DropRight DEF OtherTransport

\* At the RPC header: what is left of the frame, and where the payload begins.
LEMMA RpcPlace ==
    ASSUME HeadersInv, stage = "rpc"
    PROVE  /\ Given /\ IpFound /\ proto \in {TCP, UDP}
           /\ consumed \in Nat /\ consumed + RpcLen = PayloadAt
           /\ RpcLen \in Nat /\ PayloadAt \in Nat /\ tot_len \in Int
<1>1. /\ Given /\ IpFound /\ proto \in {TCP, UDP}
      /\ consumed = LinkLen + IpLen + TransportLen + MarkLen
  BY DEF HeadersInv, AtRpc
<1>2. /\ LinkLen \in Nat /\ IpLen \in Nat /\ TransportLen \in Nat /\ MarkLen \in Nat
      /\ RpcLen \in Nat /\ PayloadAt \in Nat /\ tot_len \in Int
  BY <1>1, NatLengths
<1>3. consumed \in Nat /\ consumed + RpcLen = PayloadAt
  BY <1>1, <1>2 DEF PayloadAt
<1> QED
  BY <1>1, <1>2, <1>3

\* The direction is that of the message.
LEMMA Directions ==
    ASSUME Given
    PROVE  /\ Word(1) = CALL => msg \in Call
           /\ Word(1) = REPLY => msg \in Accepted \cup Denied
  BY CallWords, ReplyWords DEF Given, CALL, REPLY

LEMMA CallStep ==
    ASSUME HeadersInv, RpcCall
    PROVE  HeadersInv'
<1>1. stage = "rpc" /\ Word(1) = CALL
  BY DEF RpcCall
<1>2. /\ Given /\ IpFound /\ proto \in {TCP, UDP}
      /\ consumed \in Nat /\ consumed + RpcLen = PayloadAt
      /\ RpcLen \in Nat /\ PayloadAt \in Nat /\ tot_len \in Int
  BY <1>1, RpcPlace
<1>3. msg \in Call
  BY <1>1, <1>2, Directions
<1>4. /\ msg.kind = "call" /\ msg.flavor = AUTH_UNIX /\ msg.rpcvers = RPC_VERSION
      /\ msg.prog \in {NFS_PROGRAM, MOUNT_PROGRAM}
  BY <1>3, CallWords DEF RpcCall, cred, Call
<1> DEFINE rh == 4 * (verf + Skip(Word(verf + 1)))
<1>5. rh = RpcLen /\ get_auth(cred).euid = Uid /\ get_auth(cred).egid = Gid
  BY <1>3, <1>4, CallHeader
<1>6. CASE consumed + rh >= tot_len
  <2>1. Drop
    BY <1>6 DEF RpcCall
  <2>2. ~ (PayloadAt < tot_len)
    BY <1>2, <1>5, <1>6
  <2>3. ~ Wanted
    BY <2>2 DEF Wanted
  <2> QED
    BY <2>1, <2>3, DropRight
<1>7. CASE ~ (consumed + rh >= tot_len)
  <2>1. /\ stage' = "payload" /\ consumed' = consumed + rh /\ dir' = CALL
        /\ euid' = get_auth(cred).euid /\ egid' = get_auth(cred).egid
        /\ UNCHANGED <<input, e_len, i_len, proto>>
    BY <1>7 DEF RpcCall
  <2> HIDE DEF rh
  <2>2. /\ frame' = frame /\ msg' = msg /\ LinkLen' = LinkLen /\ IpLen' = IpLen
        /\ PayloadAt' = PayloadAt /\ LinkFound' = LinkFound /\ Wanted' = Wanted
    BY <2>1, Unchanged
  <2>3. Given' /\ IpFound'
    BY <1>2, <2>1, <2>2 DEF Given, IpFound
  <2>4. consumed' = PayloadAt /\ PayloadAt < tot_len
    BY <1>2, <1>5, <1>7, <2>1
  <2>5. Wanted
    BY <1>2, <1>4, <2>4 DEF Wanted, IpFound
  <2>6. /\ dir' = CALL /\ msg'.kind = "call" /\ euid' = Uid /\ egid' = Gid
        /\ proto' \in {TCP, UDP}
    BY <1>2, <1>4, <1>5, <2>1, <2>2
  <2> QED
    BY <2>1, <2>2, <2>3, <2>4, <2>5, <2>6
       DEF HeadersInv, AtIp, AtTransport, AtRpc, AtPayload, AtDropped
<1> QED
  BY <1>6, <1>7

LEMMA ReplyStep ==
    ASSUME HeadersInv, RpcReply
    PROVE  HeadersInv'
<1>1. stage = "rpc" /\ Word(1) = REPLY
  BY DEF RpcReply
<1>2. /\ Given /\ IpFound /\ proto \in {TCP, UDP}
      /\ consumed \in Nat /\ consumed + RpcLen = PayloadAt
      /\ RpcLen \in Nat /\ PayloadAt \in Nat /\ tot_len \in Int
  BY <1>1, RpcPlace
<1>3. msg \in Accepted \cup Denied
  BY <1>1, <1>2, Directions
<1> DEFINE rh == 4 * (3 + Skip(Word(4)))
<1>4. /\ rh \in Nat
      /\ msg.kind = "accepted" => rh = RpcLen
      /\ msg.kind # "accepted" => msg.body = 0 /\ RpcLen <= rh
  BY <1>3, ReplyHeader
<1>5. CASE consumed + rh >= tot_len
  <2>1. Drop
    BY <1>5 DEF RpcReply
  <2> HIDE DEF rh
  <2>2. ~ Wanted
    <3>1. CASE msg.kind = "accepted"
      <4>1. ~ (PayloadAt < tot_len)
        BY <1>2, <1>4, <1>5, <3>1
      <4> QED
        BY <4>1 DEF Wanted
    <3>2. CASE msg.kind # "accepted"
      <4>1. msg.kind # "call"
        BY <1>3 DEF Accepted, Denied
      <4> QED
        BY <3>2, <4>1 DEF Wanted
    <3> QED
      BY <3>1, <3>2
  <2> QED
    BY <2>1, <2>2, DropRight
<1>6. CASE ~ (consumed + rh >= tot_len)
  <2>1. /\ stage' = "payload" /\ consumed' = consumed + rh /\ dir' = REPLY
        /\ UNCHANGED <<input, e_len, i_len, proto>>
    BY <1>6 DEF RpcReply
  <2> HIDE DEF rh
  <2>2. /\ frame' = frame /\ msg' = msg /\ LinkLen' = LinkLen /\ IpLen' = IpLen
        /\ PayloadAt' = PayloadAt /\ LinkFound' = LinkFound /\ Wanted' = Wanted
    BY <2>1, Unchanged
  <2>3. Given' /\ IpFound'
    BY <1>2, <2>1, <2>2 DEF Given, IpFound
  <2>4. msg.kind = "accepted"
    <3> SUFFICES ASSUME msg.kind # "accepted" PROVE FALSE
      OBVIOUS
    <3>1. msg.body = 0 /\ RpcLen <= rh
      BY <1>4
    <3>2. frame.cut \in Nat /\ tot_len = PayloadAt + 4 * msg.body - 4 * frame.cut
      BY <1>2, Lengths, FrameFields
    <3>3. tot_len <= PayloadAt
      BY <1>2, <3>1, <3>2
    <3>4. PayloadAt <= consumed + rh
      BY <1>2, <1>4, <3>1
    <3> QED
      BY <1>2, <1>4, <1>6, <3>3, <3>4
  <2>5. consumed' = PayloadAt /\ PayloadAt < tot_len
    BY <1>2, <1>4, <1>6, <2>1, <2>4
  <2>6. Wanted
    BY <1>2, <2>4, <2>5 DEF Wanted, IpFound
  <2>7. /\ dir' = REPLY /\ msg'.kind = "accepted" /\ proto' \in {TCP, UDP}
    BY <1>2, <2>1, <2>2, <2>4
  <2> QED
    BY <2>1, <2>2, <2>3, <2>5, <2>6, <2>7
       DEF HeadersInv, AtIp, AtTransport, AtRpc, AtPayload, AtDropped
<1> QED
  BY <1>5, <1>6

\* No header is refused that is wanted (nfsrecord.c:789-906).
LEMMA BadStep ==
    ASSUME HeadersInv, BadRpcHeader
    PROVE  HeadersInv'
<1>1. stage = "rpc" /\ Drop
  BY DEF BadRpcHeader
<1>2. /\ Given /\ consumed \in Nat /\ consumed + RpcLen = PayloadAt
  BY <1>1, RpcPlace
<1>3. ~ Wanted
  <2> SUFFICES ASSUME Wanted PROVE FALSE
    OBVIOUS
  <2>1. max_ptr \in Int /\ Len(RpcWords(msg)) <= max_ptr /\ Len(RpcWords(msg)) \in Nat
    <3>1. PayloadAt < tot_len
      BY DEF Wanted
    <3>2. Len(RpcWords(msg)) \in Nat
      BY <1>2, CallWords, ReplyWords DEF Given
    <3> QED
      BY <1>2, <3>1, <3>2, Captured
  <2>2. CASE Word(1) = CALL
    <3>1. msg \in Call
      BY <1>2, <2>2, Directions
    <3>2. /\ msg.rpcvers = RPC_VERSION /\ msg.prog \in {NFS_PROGRAM, MOUNT_PROGRAM}
          /\ msg.flavor = AUTH_UNIX
      BY <3>1 DEF Wanted, Call
    <3>3. /\ Word(2) = RPC_VERSION /\ Word(3) \in {NFS_PROGRAM, MOUNT_PROGRAM}
          /\ Word(cred) = AUTH_UNIX
      BY <3>1, <3>2, CallWords DEF cred
    <3>4. verf \in Nat /\ verf + 2 <= Len(RpcWords(msg)) /\ 8 <= verf
      BY <3>1, <3>2, CallHeader
    <3>5. ~ (cred + 1 >= max_ptr) /\ ~ (verf + 1 >= max_ptr)
      <4>1. cred = 6
        BY DEF cred
      <4> QED
        BY <2>1, <3>4, <4>1
    <3>6. CALL # REPLY
      BY DEF CALL, REPLY
    <3> QED
      BY <2>2, <3>3, <3>5, <3>6 DEF BadRpcHeader
  <2>3. CASE Word(1) = REPLY
    <3>1. msg \in Accepted \cup Denied
      BY <1>2, <2>3, Directions
    <3>2. msg.kind = "accepted"
      BY <3>1 DEF Wanted, Accepted, Denied
    <3>3. 5 <= Len(RpcWords(msg))
      BY <3>1, <3>2, ReplyHeader
    <3>4. ~ (3 + 1 >= max_ptr)
      BY <2>1, <3>3
    <3>5. CALL # REPLY
      BY DEF CALL, REPLY
    <3> QED
      BY <2>3, <3>4, <3>5 DEF BadRpcHeader
  <2> QED
    BY <2>2, <2>3 DEF BadRpcHeader
<1> QED
  BY <1>1, <1>3, DropRight

LEMMA HeadersStep == HeadersInv /\ [Next]_vars => HeadersInv'
<1> SUFFICES ASSUME HeadersInv, [Next]_vars PROVE HeadersInv'
  OBVIOUS
<1>1. CASE UNCHANGED vars
  <2>1. UNCHANGED <<input, stage, e_len, i_len, proto, consumed, dir, euid, egid>>
    BY <1>1 DEF vars, input
  <2>2. /\ frame' = frame /\ msg' = msg
        /\ UNCHANGED <<LinkLen, IpLen, TransportLen, MarkLen, PayloadAt>>
        /\ LinkFound' = LinkFound /\ Wanted' = Wanted
    BY <2>1, Unchanged
  <2>3. OtherVersion(e_len)' = OtherVersion(e_len)
    <3>1. OtherVersion(e_len)' <=> (Half(e_len)' \div 256) \div 16 # 4
      BY DEF OtherVersion
    <3>2. Half(e_len)' = Half(e_len)
      <4>1. frame' = frame /\ ip_len' = ip_len /\ e_len' = e_len
        BY <2>1, Unchanged
      <4>2. Halves' = Halves
        BY <4>1 DEF Halves, IpHalves
      <4> QED
        BY <4>1, <4>2 DEF Half
    <3> QED
      BY <3>1, <3>2 DEF OtherVersion
  <2>4. IpFound' = IpFound /\ Given' = Given
    BY <2>1, <2>2 DEF IpFound, Given
  <2> QED
    BY <2>1, <2>2, <2>3, <2>4 DEF HeadersInv, AtIp, AtTransport, AtRpc, AtPayload, AtDropped
<1> QED
  BY <1>1, EtherStep, IpStep, TcpStep, UdpStep, OtherStep, CallStep, ReplyStep, BadStep DEF Next

LEMMA InvImplies == HeadersInv => RecordedIffNfs /\ HeadersExact
<1> SUFFICES ASSUME HeadersInv PROVE RecordedIffNfs /\ HeadersExact
  OBVIOUS
<1>1. Done => (stage = "payload" <=> Wanted)
  <2>1. stage = "payload" => Wanted
    BY DEF HeadersInv, AtPayload
  <2>2. stage = "dropped" => ~ Wanted
    BY DEF HeadersInv, AtDropped
  <2>3. Done => (stage = "payload" \/ stage = "dropped")
    BY DEF Done
  <2> QED
    BY <2>1, <2>2, <2>3
<1>2. Plain => (Wanted <=> Recordable)
  <2> SUFFICES ASSUME Plain PROVE Wanted <=> Recordable
    OBVIOUS
  <2>1. frame.link # "vlan" /\ (LinkFound <=> frame.type = IP)
    BY DEF Plain, LinkFound, TypeSeen
  <2> QED
    BY <2>1 DEF Wanted, Recordable
<1>3. frame.link = "vlan" /\ frame.type = IP => (Wanted <=> Recordable /\ ip_len = IP)
  <2> SUFFICES ASSUME frame.link = "vlan", frame.type = IP
               PROVE  Wanted <=> Recordable /\ ip_len = IP
    OBVIOUS
  <2>1. LinkFound <=> ip_len = IP
    BY DEF LinkFound, TypeSeen
  <2> QED
    BY <2>1 DEF Wanted, Recordable
<1>4. RecordedIffNfs
  BY <1>1, <1>2, <1>3 DEF RecordedIffNfs
<1>5. HeadersExact
  BY DEF HeadersExact, HeadersInv, AtPayload, CALL, REPLY
<1> QED
  BY <1>4, <1>5

\* Of frames without a VLAN tag and of the usual size a record is made if and only
\* if they hold what is to be recorded (nfsrecord.c:178-379), for frames of every
\* length, with any options, names, verifiers and groups.
THEOREM RecordsRight == Spec => []RecordedIffNfs
<1>1. Spec => []HeadersInv
  BY HeadersInit, HeadersStep, PTL DEF Spec
<1> QED
  BY <1>1, InvImplies, PTL

\* Every record is decoded from the first word of the procedure's data, and has the
\* credentials of the caller (nfsrecord.c:789-823, 894-906).
THEOREM PayloadFound == Spec => []HeadersExact
<1>1. Spec => []HeadersInv
  BY HeadersInit, HeadersStep, PTL DEF Spec
<1> QED
  BY <1>1, InvImplies, PTL

-----------------------------------------------------------------------------
\* iprecord.c:182-290.  A frame that iphdump takes for a packet of IP either is one,
\* with its header where iphdump looks for it, or seems to be of another version.
LEMMA IphEtherRight ==
    ASSUME Given, iph_getEtherHeader.proto = IP
    PROVE  \/ iph_getEtherHeader.len = LinkLen
           \/ (Half(iph_getEtherHeader.len) \div 256) \div 16 # 4
<1>1. /\ frame.link \in {"rfc894", "802.3", "vlan"}
      /\ frame.type \in Nat /\ 1500 < frame.type
      /\ frame.version \in 0..15 /\ frame.ipOptions \in 0..10
  BY FrameFields
<1>2. (SNAP \div 256) \div 16 # 4
  BY DEF SNAP
<1>3. iph_getEtherHeader = [len |-> 22, proto |-> Half(20)]
      \/ iph_getEtherHeader = [len |-> 14, proto |-> Half(12)]
  BY DEF iph_getEtherHeader
<1>4. CASE frame.link = "rfc894"
  <2>1. /\ Half(12) = frame.type /\ Half(14) # SNAP
    BY <1>1, <1>4, HalfWords, FirstByte
  <2>2. ~ (Half(12) <= ETHERMTU)
    BY <1>1, <2>1 DEF ETHERMTU
  <2>3. iph_getEtherHeader = [len |-> 14, proto |-> frame.type]
    BY <2>1, <2>2 DEF iph_getEtherHeader
  <2> QED
    BY <1>4, <2>3 DEF LinkLen
<1>5. CASE frame.link = "802.3"
  <2>1. Half(14) = SNAP /\ LinkLen = 22
    BY <1>5, HalfWords DEF LinkLen
  <2> QED
    BY <1>2, <1>3, <2>1
<1>6. CASE frame.link = "vlan"
  <2>1. Half(12) = VLAN /\ Half(14) = 1
    BY <1>6, HalfWords
  <2>2. ~ (VLAN <= ETHERMTU) /\ 1 # SNAP /\ VLAN # IP
    BY DEF VLAN, ETHERMTU, SNAP, IP
  <2>3. iph_getEtherHeader.proto # IP
    BY <2>1, <2>2 DEF iph_getEtherHeader
  <2> QED
    BY <2>3
<1> QED
  BY <1>1, <1>4, <1>5, <1>6

\* What iphdump makes of the IP header.
LEMMA IphIpRight ==
    ASSUME Given
    PROVE  /\ (Half(LinkLen) \div 256) \div 16 # 4 => iph_getIpHeader(LinkLen) = -1
           /\ iph_getIpHeader(LinkLen) = 0 => frame.offset % 8192 # 0
           /\ frame.version = 4 /\ frame.offset % 8192 = 0 => iph_getIpHeader(LinkLen) = IpLen
           /\ iph_getIpHeader(LinkLen) # -1 /\ iph_getIpHeader(LinkLen) # 0 =>
                frame.offset % 8192 = 0 /\ Transport(LinkLen) = LinkLen + IpLen
<1> DEFINE vhl == Half(LinkLen) \div 256
           off == Half(LinkLen + 6)
<1>1. /\ vhl \div 16 = frame.version /\ 4 * (vhl % 16) = IpLen /\ off = frame.offset
  BY IpHalfWords
<1>2. IpLen \in Nat /\ IpLen >= 20
  BY Lengths
<1>3. CASE vhl \div 16 # 4
  BY <1>1, <1>3 DEF iph_getIpHeader
<1>4. CASE vhl \div 16 = 4 /\ off % 8192 # 0
  BY <1>1, <1>4 DEF iph_getIpHeader
<1>5. CASE vhl \div 16 = 4 /\ ~ (off % 8192 # 0)
  <2>1. iph_getIpHeader(LinkLen) = IpLen
    BY <1>1, <1>5 DEF iph_getIpHeader
  <2>2. IpLen # 0 /\ IpLen # -1
    BY <1>2
  <2> QED
    BY <1>1, <1>5, <2>1, <2>2 DEF Transport
<1> QED
  BY <1>3, <1>4, <1>5

\* The lines of one packet.
LEMMA OneLine ==
    ASSUME NEW l, NEW a, NEW b
    PROVE  \A i \in DOMAIN Line(l, a, b) :
             /\ Line(l, a, b)[i].letter = l /\ Line(l, a, b)[i].at = a
             /\ Line(l, a, b)[i].behind = b
  BY DEF Line

Good(o) ==
    \A i \in DOMAIN o :
        /\ o[i].letter = "#" <=> frame.offset % 8192 # 0
        /\ o[i].letter # "#" => o[i].at = LinkLen + IpLen
        /\ o[i].behind < ICMP_PAYLOAD_SZ

LEMMA NoLine == Good(<<>>)
  BY DEF Good

LEMMA GoodPacket ==
    ASSUME Given, frame.offset % 8192 = 0, NEW echo,
           NEW o, LET at == LinkLen + IpLen IN
                  \/ o = <<>> \/ o = iph_Tcp(at) \/ o = iph_Udp(at) \/ o = iph_Icmp(at, echo)
    PROVE  Good(o)
<1> DEFINE at == LinkLen + IpLen
<1>1. at \in Nat /\ tot_len \in Int
  BY NatLengths
<1>2. ASSUME NEW l \in {"T", "U", "C"}, NEW b \in Int, b < 16
      PROVE  Good(Line(l, at, b))
  BY <1>2, OneLine DEF Good, ICMP_PAYLOAD_SZ
<1>3. CASE o = <<>>
  BY <1>3, NoLine
<1>4. CASE o = iph_Tcp(at)
  <2>1. o = <<>> \/ o = Line("T", at, 0)
    BY <1>4 DEF iph_Tcp
  <2> QED
    BY <1>2, <2>1, NoLine
<1>5. CASE o = iph_Udp(at)
  <2>1. o = <<>> \/ o = Line("U", at, 0)
    BY <1>5 DEF iph_Udp
  <2> QED
    BY <1>2, <2>1, NoLine
<1>6. CASE o = iph_Icmp(at, echo)
  <2> DEFINE n == at + SizeofIcmp + ICMP_PAYLOAD_SZ
  <2>1. \/ o = <<>>
        \/ at + SizeofIcmp < tot_len /\ o = Line("C", at, Behind(n))
        \/ o = Line("C", at, 0)
    <3>1. CASE at + SizeofIcmp >= tot_len
      BY <1>6, <3>1 DEF iph_Icmp
    <3>2. CASE at + SizeofIcmp < tot_len
      BY <1>6, <3>2 DEF iph_Icmp
    <3> QED
      BY <1>1, <3>1, <3>2 DEF SizeofIcmp
  <2>2. at + SizeofIcmp < tot_len => Behind(n) \in Int /\ Behind(n) < 16
    <3>1. /\ SizeofIcmp = 28 /\ n = at + 44
      BY <1>1 DEF SizeofIcmp, ICMP_PAYLOAD_SZ
    <3> HIDE DEF n, at
    <3> QED
      BY <1>1, <3>1 DEF Behind
  <2> HIDE DEF n
  <2> QED
    BY <1>2, <2>1, <2>2, NoLine
<1> QED
  BY <1>3, <1>4, <1>5, <1>6

\* What iphdump prints of any frame.
LEMMA PrintsWell ==
    ASSUME Given, NEW echo
    PROVE  Good(processPacket(echo))
<1> DEFINE e == iph_getEtherHeader.len
           ihl == iph_getIpHeader(e)
           at == Transport(e)
           o == processPacket(echo)
<1>0. tot_len \in Int /\ MinimumLen = 42
  BY NatLengths DEF MinimumLen
<1>1. CASE tot_len <= MinimumLen \/ iph_getEtherHeader.proto # IP
  <2>1. tot_len <= MinimumLen => ~ (tot_len > MinimumLen)
    BY <1>0
  <2>2. o = <<>>
    BY <1>1, <2>1 DEF processPacket
  <2> QED
    BY <2>2, NoLine
<1>2. CASE ~ (tot_len <= MinimumLen \/ iph_getEtherHeader.proto # IP)
  <2>1. e = LinkLen \/ (Half(e) \div 256) \div 16 # 4
    BY <1>2, IphEtherRight
  <2>2. tot_len > MinimumLen /\ iph_getEtherHeader.proto = IP
    BY <1>0, <1>2
  <2>3. CASE ihl = -1
    <3>1. o = <<>>
      BY <2>2, <1>2, <2>3 DEF processPacket
    <3> QED
      BY <3>1, NoLine
  <2>4. CASE ihl # -1
    <3>1. e = LinkLen
      <4>1. (Half(e) \div 256) \div 16 # 4 => ihl = -1
        BY DEF iph_getIpHeader
      <4> QED
        BY <2>1, <2>4, <4>1
    <3>2. CASE ihl = 0
      <4>1. o = Fragment
        BY <1>2, <2>2, <2>4, <3>2 DEF processPacket
      <4>2. frame.offset % 8192 # 0
        BY <3>1, <3>2, IphIpRight
      <4>3. Good(Fragment)
        BY <4>2, OneLine DEF Good, Fragment, ICMP_PAYLOAD_SZ
      <4> QED
        BY <4>1, <4>3
    <3>3. CASE ihl # 0
      <4>1. frame.offset % 8192 = 0 /\ at = LinkLen + IpLen
        BY <2>4, <3>1, <3>3, IphIpRight
      <4>2. \/ o = <<>> \/ o = iph_Tcp(at) \/ o = iph_Udp(at) \/ o = iph_Icmp(at, echo)
        <5>1. o = CASE at >= tot_len -> <<>>
                    [] at < tot_len /\ frame.protocol = TCP -> iph_Tcp(at)
                    [] at < tot_len /\ frame.protocol = UDP -> iph_Udp(at)
                    [] at < tot_len /\ frame.protocol = ICMP -> iph_Icmp(at, echo)
                    [] OTHER -> <<>>
          BY <1>2, <2>2, <2>4, <3>3 DEF processPacket
        <5> HIDE DEF at, o
        <5> QED
          BY <5>1
      <4> HIDE DEF o
      <4>3. \/ o = <<>> \/ o = iph_Tcp(LinkLen + IpLen) \/ o = iph_Udp(LinkLen + IpLen)
            \/ o = iph_Icmp(LinkLen + IpLen, echo)
        BY <4>1, <4>2
      <4>4. Good(o)
        BY <4>1, <4>3, GoodPacket
      <4> QED
        BY <4>4 DEF o
    <3> QED
      BY <3>2, <3>3
  <2> QED
    BY <2>3, <2>4
<1> QED
  BY <1>1, <1>2

\* What iphdump prints of a frame that nfsdump recorded.
LEMMA PrintsRecorded ==
    ASSUME HeadersInv, stage = "payload", frame.link # "vlan", NEW echo
    PROVE  processPacket(echo) = Line(IF proto = TCP THEN "T" ELSE "U", e_len + i_len, 0)
<1> DEFINE o == processPacket(echo)
           at == LinkLen + IpLen
<1>1. /\ Given /\ IpFound /\ LinkFound /\ proto \in {TCP, UDP} /\ PayloadAt < tot_len
      /\ frame.type = IP /\ frame.protocol = proto
      /\ e_len = LinkLen /\ i_len = IpLen /\ frame.version = 4 /\ frame.offset % 8192 = 0
  BY DEF HeadersInv, AtPayload, IpFound, LinkFound, TypeSeen, Wanted
<1>2. /\ LinkLen \in Nat /\ IpLen \in Nat /\ TransportLen \in Nat /\ MarkLen \in Nat
      /\ RpcLen \in Nat /\ PayloadAt \in Nat /\ tot_len \in Int
  BY <1>1, NatLengths
<1>3. /\ at \in Nat /\ at + TransportLen < tot_len /\ TransportLen \in Nat
  <2>1. PayloadAt = LinkLen + IpLen + TransportLen + MarkLen + RpcLen
    BY DEF PayloadAt
  <2> QED
    BY <1>1, <1>2, <2>1
<1>4. tot_len > MinimumLen /\ ~ (tot_len <= MinimumLen)
  <2>1. PayloadAt >= 42
    BY <1>1, Lengths
  <2>2. MinimumLen = 42
    BY DEF MinimumLen
  <2> QED
    BY <1>1, <1>2, <2>1, <2>2
<1>5. iph_getEtherHeader.len = LinkLen /\ iph_getEtherHeader.proto = IP
  <2>1. frame.link \in {"rfc894", "802.3"} /\ frame.type \in Nat /\ 1500 < frame.type
        /\ frame.version \in 0..15 /\ frame.ipOptions \in 0..10
    BY <1>1, FrameFields
  <2>2. CASE frame.link = "rfc894"
    <3>1. Half(12) = frame.type /\ Half(14) # SNAP /\ LinkLen = 14
      BY <2>1, <2>2, HalfWords, FirstByte DEF LinkLen
    <3>2. ~ (Half(12) <= ETHERMTU)
      BY <2>1, <3>1 DEF ETHERMTU
    <3> QED
      BY <1>1, <3>1, <3>2 DEF iph_getEtherHeader
  <2>3. CASE frame.link = "802.3"
    <3>1. Half(12) = 8 + ip_len /\ Half(20) = frame.type /\ LinkLen = 22
      BY <2>3, HalfWords DEF LinkLen
    <3>2. Half(12) <= ETHERMTU
      BY <1>1, <2>3, <3>1 DEF LinkFound
    <3> QED
      BY <1>1, <3>1, <3>2 DEF iph_getEtherHeader
  <2> QED
    BY <2>1, <2>2, <2>3
<1>6. iph_getIpHeader(LinkLen) = IpLen /\ Transport(LinkLen) = at
  BY <1>1, IphIpRight DEF Transport
<1>7. IpLen # -1 /\ IpLen # 0
  BY <1>1, Lengths
<1>8. o = CASE at >= tot_len -> <<>>
            [] at < tot_len /\ frame.protocol = TCP -> iph_Tcp(at)
            [] at < tot_len /\ frame.protocol = UDP -> iph_Udp(at)
            [] at < tot_len /\ frame.protocol = ICMP -> iph_Icmp(at, echo)
            [] OTHER -> <<>>
  BY <1>4, <1>5, <1>6, <1>7 DEF processPacket
<1>9. at < tot_len /\ ~ (at >= tot_len)
  BY <1>2, <1>3
<1>10. TCP # UDP /\ TCP # ICMP /\ UDP # ICMP
  BY DEF TCP, UDP, ICMP
<1> HIDE DEF o, at
<1>11. CASE proto = TCP
  <2>1. o = iph_Tcp(at)
    BY <1>1, <1>8, <1>9, <1>10, <1>11
  <2>2. /\ frame.tcpOptions \in Nat /\ TransportLen = 20 + 4 * frame.tcpOptions
    BY <1>1, <1>11, FrameFields DEF TransportLen
  <2>3. ~ (at + 20 >= tot_len \/ at + 4 * (5 + frame.tcpOptions) >= tot_len)
    BY <1>2, <1>3, <2>2
  <2>4. o = Line("T", at, 0)
    BY <2>1, <2>3 DEF iph_Tcp
  <2> QED
    BY <1>1, <1>11, <2>4 DEF o, at
<1>12. CASE proto = UDP
  <2>1. o = iph_Udp(at)
    BY <1>1, <1>8, <1>9, <1>10, <1>12
  <2>2. TransportLen = 8
    BY <1>1, <1>10, <1>12 DEF TransportLen
  <2>3. ~ (at + 8 >= tot_len)
    BY <1>2, <1>3, <2>2
  <2>4. o = Line("U", at, 0)
    BY <2>1, <2>3 DEF iph_Udp
  <2> QED
    BY <1>1, <1>10, <1>12, <2>4 DEF o, at
<1> QED
  BY <1>1, <1>11, <1>12

\* The packet does not change while it is looked at.
LEMMA PacketStays ==
    ASSUME UNCHANGED vars
    PROVE  \A echo \in BOOLEAN : processPacket(echo)' = processPacket(echo)
<1>1. frame' = frame /\ ip_len' = ip_len /\ tot_len' = tot_len
  BY Unchanged DEF vars, input
<1>2. Halves' = Halves
  BY <1>1 DEF Halves, IpHalves
<1>3. \A k \in {12, 14, 16, 20} : Half(k)' = Half(k)
  BY <1>2 DEF Half
<1>4. iph_getEtherHeader' = iph_getEtherHeader
  BY <1>1, <1>3 DEF iph_getEtherHeader
<1> QED
  BY <1>1, <1>2, <1>4
     DEF processPacket, Transport, iph_getIpHeader, iph_Tcp, iph_Udp, iph_Icmp, Behind, Half

LEMMA IpInitInv == IpInit => IpInv
  BY HeadersInit DEF IpInit, IpInv, Printed

LEMMA IpStepInv == IpInv /\ [IpNext]_ipVars => IpInv'
<1> SUFFICES ASSUME IpInv, [IpNext]_ipVars PROVE IpInv'
  OBVIOUS
<1>1. [Next]_vars
  BY DEF IpNext, ipVars, packetPrinter
<1>2. HeadersInv'
  BY <1>1, HeadersStep DEF IpInv
<1>3. CASE packetPrinter /\ stage \in {"payload", "dropped"}
  <2>1. /\ UNCHANGED vars
        /\ \E echo \in BOOLEAN : out' = processPacket(echo)
    BY <1>3 DEF packetPrinter
  <2>2. \A echo \in BOOLEAN : processPacket(echo)' = processPacket(echo)
    BY <2>1, PacketStays
  <2>3. stage' = stage
    BY <2>1 DEF vars
  <2>4. Printed'
    BY <1>3, <2>1, <2>2, <2>3 DEF Printed
  <2> QED
    BY <1>2, <2>4 DEF IpInv
<1>4. CASE UNCHANGED ipVars
  <2>1. UNCHANGED vars /\ seen' = seen /\ out' = out
    BY <1>4 DEF ipVars
  <2>2. \A echo \in BOOLEAN : processPacket(echo)' = processPacket(echo)
    BY <2>1, PacketStays
  <2>3. stage' = stage
    BY <2>1 DEF vars
  <2>4. Printed'
    BY <2>1, <2>2, <2>3 DEF IpInv, Printed
  <2> QED
    BY <1>2, <2>4 DEF IpInv
<1>5. CASE Next /\ UNCHANGED <<seen, out>>
  <2>1. stage \in {"ether", "ip", "transport", "rpc"}
    BY <1>5 DEF Next, EtherHeader, IpHeader, TcpHeader, UdpHeader, OtherTransport,
                RpcCall, RpcReply, BadRpcHeader
  <2>2. ~ seen /\ seen' = seen
    BY <1>5, <2>1 DEF IpInv, Printed
  <2>3. Printed'
    BY <2>2 DEF Printed
  <2> QED
    BY <1>2, <2>3 DEF IpInv
<1> QED
  BY <1>3, <1>4, <1>5 DEF IpNext

LEMMA IpInvImplies == IpInv => SameFrames
<1> SUFFICES ASSUME IpInv, seen PROVE SameFrames
  BY DEF SameFrames
<1>1. HeadersInv /\ Given
  BY DEF IpInv, HeadersInv
<1>2. PICK echo \in BOOLEAN : out = processPacket(echo)
  BY DEF IpInv, Printed
<1>3. Good(out)
  BY <1>1, <1>2, PrintsWell
<1>4. stage = "payload" /\ frame.link # "vlan" =>
        out = Line(IF proto = TCP THEN "T" ELSE "U", e_len + i_len, 0)
  BY <1>1, <1>2, PrintsRecorded
<1> QED
  BY <1>3, <1>4 DEF SameFrames, Good

\* iphdump changes nothing of what nfsdump does with a frame.
LEMMA IpStepsAreSteps == IpSpec => Spec
<1>1. IpInit => Init
  BY DEF IpInit
<1>2. [IpNext]_ipVars => [Next]_vars
  BY DEF IpNext, ipVars, packetPrinter
<1> QED
  BY <1>1, <1>2, PTL DEF IpSpec, Spec

\* What nfsdump records of a frame without a VLAN tag iphdump prints, as the same
\* packet, and every packet that it prints has its ports where the frame has them
\* (iprecord.c:182-290, nfsrecord.c:178-268).
THEOREM SameFramesSeen == IpSpec => []SameFrames
<1>1. IpSpec => []IpInv
  BY IpInitInv, IpStepInv, PTL DEF IpSpec
<1> QED
  BY <1>1, IpInvImplies, PTL
=============================================================================
