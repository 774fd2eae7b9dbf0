------------------------------ MODULE LogProofs ------------------------------
(***************************************************************************)
(* Proofs about logs: that all of them are written, and that all of what   *)
(* one says is read.                                                       *)
(*                                                                         *)
(* IntervalLog: for intervals of any length, any number of runs, records   *)
(* and options, and any end of a run, crashes included; IInv is the        *)
(* invariant.                                                              *)
(*                                                                         *)
(* PathTree, from "Numbers and sequences" on: for logs of any length, any  *)
(* loss and repetition of lines, and any order of node's events, what      *)
(* operations.js has written is what the log says.  The Parser's pending   *)
(* calls are found from the log by Pending, and Output is what should have *)
(* been written of its first rows; ReplayInv is the invariant.             *)
(***************************************************************************)
EXTENDS IntervalLog, PathTree, WellFoundedInduction, SequenceTheorems, FiniteSetTheorems, TLAPS

\* A clock that is never set back and gives one answer to time() and to
\* gettimeofday(), as local time without a change to winter time, and scripts
\* that start the program with a temporary name of its own.  Without any of these
\* a log may be replaced within a run, or a file of records lost.
Regular ==
    /\ MaxBack = 0 /\ MaxLag = 0 /\ Shift = 0
    /\ OwnTmpName

IsSlot(s) == \E t \in Nat : s = SlotOf(t)

\* While the program runs, the logs are of slots that are over, and before the
\* slot of the open file, but for that of the slot in which the run began; the two
\* tests of the clock, in main and in updateOutFile, agree on that (nfsdump.c:460,
\* 565-568).
LogsNamed ==
    /\ \A s \in DOMAIN logs : IsSlot(s) /\ s <= clock
    /\ pc # "down" /\ ~ last =>
           \A s \in DOMAIN logs : s + Secs <= clock \/ s \in reopened
    /\ pc # "down" /\ last => pc \in {"close", "open"}
    /\ OutFile = "tmp" => /\ IsSlot(cur_logname) /\ cur_logname <= clock
                          /\ end_time = cur_logname + Secs
    /\ pc # "down" /\ OutFile = "tmp" =>
           \A s \in DOMAIN logs : \/ s + Secs <= cur_logname
                                  \/ (s = cur_logname /\ s \in reopened)
    /\ pc = "close" /\ ~ last /\ OutFile = "tmp" => end_time <= clock

\* While the program runs, the counters are those of the open file, and its
\* records are younger than those of the logs (nfsdump.c:555, 596).
Contents ==
    /\ pc = "poll" /\ OutFile = "NULL" => end_time = 0
    /\ pc = "open" => OutFile = "NULL"
    /\ pc = "capture" => OutFile = "tmp"
    /\ pc # "down" => stats = tmp
    /\ pc # "down" /\ OutFile = "NULL" => tmp = {}
    /\ pc # "down" => \A s \in DOMAIN logs : \A i \in logs[s], j \in tmp : i < j

IInv ==
    /\ TypeOK
    /\ LogsNamed
    /\ Contents
    /\ NothingLost
    /\ SummaryCounts
    /\ LogsInOrder
    /\ LastPushedOut
-----------------------------------------------------------------------------
\* What rounding down to an interval gives (nfsdump.c:566): the slot of a moment
\* is the last one that began before, and between two slots there is an interval.
LEMMA Slots ==
    /\ \A t \in Nat : SlotOf(t) \in Nat /\ SlotOf(t) <= t /\ t < SlotOf(t) + Secs
    /\ \A t, u \in Nat : SlotOf(u) <= t /\ SlotOf(u) # SlotOf(t) => SlotOf(u) + Secs <= SlotOf(t)
    /\ \A t, u \in Nat : SlotOf(u) + Secs <= t => SlotOf(u) + Secs <= SlotOf(t)
<1>1. Secs \in Nat \ {0}
  BY IntervalAssumption
<1>2. \A t \in Nat : /\ t % Secs \in 0..(Secs - 1) /\ t \div Secs \in Int
                     /\ t = Secs * (t \div Secs) + (t % Secs)
  BY <1>1
<1>3. \A t \in Nat : SlotOf(t) <= t /\ t < SlotOf(t) + Secs /\ SlotOf(t) \in Int
  BY <1>1, <1>2 DEF SlotOf
<1>4. \A t \in Nat : SlotOf(t) \in Nat
  <2> SUFFICES ASSUME NEW t \in Nat PROVE SlotOf(t) >= 0
    BY <1>3
  <2> DEFINE q == t \div Secs
  <2>1. SlotOf(t) = Secs * q /\ q \in Int /\ SlotOf(t) \in Int /\ SlotOf(t) > -Secs
    BY <1>1, <1>2, <1>3 DEF SlotOf
  <2> HIDE DEF q
  <2>2. q <= -1 => Secs * q <= -Secs
    BY <1>1, <2>1
  <2>3. q >= 0 => Secs * q >= 0
    BY <1>1, <2>1
  <2> QED
    BY <1>1, <2>1, <2>2, <2>3
<1>5. ASSUME NEW t \in Nat, NEW u \in Nat, SlotOf(u) < SlotOf(t)
      PROVE  SlotOf(u) + Secs <= SlotOf(t)
  <2> DEFINE qt == t \div Secs
             qu == u \div Secs
  <2>1. /\ SlotOf(t) = Secs * qt /\ qt \in Int /\ SlotOf(t) \in Nat
        /\ SlotOf(u) = Secs * qu /\ qu \in Int /\ SlotOf(u) \in Nat
    BY <1>1, <1>2, <1>4 DEF SlotOf
  <2> HIDE DEF qt, qu
  <2>2. qt <= qu => Secs * qt <= Secs * qu
    BY <1>1, <2>1
  <2>3. qu + 1 <= qt
    BY <1>5, <2>1, <2>2
  <2>4. Secs * (qu + 1) <= Secs * qt /\ Secs * (qu + 1) = Secs * qu + Secs
    BY <1>1, <2>1, <2>3
  <2> QED
    BY <1>1, <2>1, <2>4
<1>6. ASSUME NEW t \in Nat, NEW u \in Nat, SlotOf(u) <= t, SlotOf(u) # SlotOf(t)
      PROVE  SlotOf(u) + Secs <= SlotOf(t)
  <2>1. CASE SlotOf(u) < SlotOf(t)
    BY <1>5, <2>1
  <2>2. CASE SlotOf(t) < SlotOf(u)
    <3>1. SlotOf(t) + Secs <= SlotOf(u)
      BY <1>5, <2>2
    <3> QED
      BY <1>1, <1>3, <1>4, <1>6, <3>1
  <2> QED
    BY <1>4, <1>6, <2>1, <2>2
<1>7. ASSUME NEW t \in Nat, NEW u \in Nat, SlotOf(u) + Secs <= t
      PROVE  SlotOf(u) + Secs <= SlotOf(t)
  <2>1. SlotOf(u) <= t /\ SlotOf(u) # SlotOf(t)
    BY <1>1, <1>3, <1>4, <1>7
  <2> QED
    BY <1>6, <2>1
<1> QED
  BY <1>3, <1>4, <1>6, <1>7
-----------------------------------------------------------------------------
\* An empty directory and no run.
LEMMA InitIInv ==
    ASSUME Regular, Init
    PROVE  IInv
<1>1. TypeOK
  <2>1. last \in BOOLEAN /\ disturbed \in Disturbed
    BY Zenon DEF Init
  <2>2. /\ DOMAIN logs = {} /\ DOMAIN sums = {} /\ reopened = {} /\ replaced = {}
        /\ cur_logname = NoName /\ OutFile = "NULL"
    BY DEF Init
  <2>3. /\ clock \in Times /\ pc = "down" /\ iters \in 0..Iters /\ left \in 0..PACKET_POLL_CNT
        /\ end_time \in 0..(MaxTime + Secs) /\ EndOfLife \in Nat /\ total_cnt \in Nat
        /\ n \in 0..MaxRecords /\ runs \in 0..MaxRuns /\ flushed \in 0..n
    BY IntervalAssumption DEF Init, Times
  <2>4. cnt = 0 /\ LifeTime = 0 /\ stats = {} /\ tmp = {} /\ leftover = {} /\ lost = {}
    BY DEF Init
  <2> QED
    BY <2>1, <2>2, <2>3, <2>4 DEF TypeOK
<1>2. LogsNamed /\ Contents /\ NothingLost /\ SummaryCounts /\ LogsInOrder /\ LastPushedOut
  BY DEF Init, LogsNamed, Contents, NothingLost, SummaryCounts, LogsInOrder, LastPushedOut
<1> QED
  BY <1>1, <1>2 DEF IInv

\* The three truth values of the state.
LEMMA FlagsKept ==
    ASSUME TypeOK, [Next]_vars
    PROVE  last' \in BOOLEAN /\ disturbed' = disturbed
<1>1. last \in BOOLEAN
  BY DEF TypeOK
<1>2. last' = last \/ last' = TRUE \/ last' = FALSE
  BY DEF Next, vars, control, main, Tick, Start, Record, Uninteresting, Stop, Crash,
     Exit,
     StopAtCount, StopAtEndOfLife, Expire, GoOn, CloseOutFile, OpenOutFile, LoopReturns
<1>3. disturbed' = disturbed
  BY DEF Next, vars
<1> QED
  BY <1>1, <1>2, <1>3, Zenon

\* One step per operation of nfsdump.c:412-511 and 534-606.
LEMMA TypesKept ==
    ASSUME TypeOK, [Next]_vars
    PROVE  TypeOK'
<1> USE IntervalAssumption DEF Times, options, control, names, files
<1>1. last' \in BOOLEAN /\ disturbed' = disturbed
  BY FlagsKept
<1>2. CASE Tick
  BY <1>1, <1>2 DEF TypeOK, Tick
<1>3. CASE Start
  <2>1. cnt' \in Counts /\ LifeTime' \in LifeTimes /\ EndOfLife' \in Nat
    <3>1. cnt' \in Counts /\ LifeTime' \in LifeTimes /\ EndOfLife' = clock + LifeTime'
      BY <1>3, Zenon DEF Start
    <3>2. clock \in Nat /\ LifeTime' \in Nat
      BY <3>1 DEF TypeOK
    <3>3. \A a, b \in Nat : a + b \in Nat
      OBVIOUS
    <3> QED
      BY <3>1, <3>2, <3>3, Zenon
  <2>2. tmp' \subseteq 1..n /\ leftover' \subseteq 1..n
    BY <1>3 DEF TypeOK, Start
  <2>3. iters' \in 0..Iters /\ left' \in 0..PACKET_POLL_CNT /\ end_time' \in 0..(MaxTime + Secs)
        /\ total_cnt' \in Nat /\ runs' \in 0..MaxRuns
    BY <1>3 DEF TypeOK, Start
  <2> QED
    BY <1>1, <1>3, <2>1, <2>2, <2>3 DEF TypeOK, Start
<1>4. CASE StopAtCount \/ StopAtEndOfLife \/ Expire \/ GoOn \/ LoopReturns
  <2>1. /\ pc' \in {"down", "poll", "close", "capture"}
        /\ left' \in 0..PACKET_POLL_CNT /\ total_cnt' \in Nat
    BY <1>4 DEF TypeOK, StopAtCount, StopAtEndOfLife, Expire, GoOn, LoopReturns, Exit
  <2>2. UNCHANGED <<clock, iters, options, names, files, n, runs>>
    BY <1>4 DEF StopAtCount, StopAtEndOfLife, Expire, GoOn, LoopReturns, Exit
  <2> QED
    BY <1>1, <2>1, <2>2 DEF TypeOK
<1>5. CASE CloseOutFile
  BY <1>1, <1>5 DEF TypeOK, CloseOutFile, Publish, printSummary, Put
<1>6. CASE OpenOutFile
  <2>1. PICK time \in Times : cur_logname' = LogName(SlotOf(time)) /\ end_time' = SlotOf(time) + Secs
    BY <1>6 DEF OpenOutFile
  <2>2. cur_logname' \in Names /\ end_time' \in 0..(MaxTime + Secs)
    BY <2>1, Slots DEF Names
  <2>3. iters' \in 0..Iters /\ left' \in 0..PACKET_POLL_CNT
    BY <1>6 DEF OpenOutFile, Finished, Exit, TypeOK
  <2> QED
    BY <1>1, <1>6, <2>2, <2>3 DEF TypeOK, OpenOutFile, Exit
<1>7. CASE Record
  BY <1>1, <1>7 DEF TypeOK, Record
<1>8. CASE Uninteresting \/ Stop \/ Crash
  <2>1. pc' \in {"down", "capture"} /\ left' \in 0..PACKET_POLL_CNT
    BY <1>8 DEF TypeOK, Uninteresting, Stop, Crash, Exit
  <2>2. tmp' \subseteq tmp /\ lost' \subseteq lost \cup tmp
    BY <1>8 DEF Uninteresting, Stop, Crash
  <2>3. /\ UNCHANGED <<clock, iters, options, total_cnt, names, n, runs>>
        /\ UNCHANGED <<stats, leftover, logs, sums, flushed>>
    BY <1>8 DEF Uninteresting, Stop, Crash, Exit
  <2>4. UNCHANGED <<reopened, replaced>>
    BY <1>8 DEF Uninteresting, Stop, Crash
  <2> QED
    BY <1>1, <2>1, <2>2, <2>3, <2>4 DEF TypeOK
<1>9. CASE UNCHANGED vars
  BY <1>9 DEF TypeOK, vars
<1> QED
  BY <1>2, <1>3, <1>4, <1>5, <1>6, <1>7, <1>8, <1>9 DEF Next, main
-----------------------------------------------------------------------------
\* What a step may do to the files and to their names: only updateOutFile, a new
\* run and the capture of a packet change them.
Quiet ==
    \/ Tick \/ StopAtCount \/ StopAtEndOfLife \/ Expire \/ GoOn \/ LoopReturns
    \/ Uninteresting \/ Stop

\* The tests of the loop, the clock and packets without a record leave the files
\* alone.
LEMMA QuietSteps ==
    ASSUME Quiet
    PROVE  /\ UNCHANGED names /\ UNCHANGED files /\ UNCHANGED n
           /\ Tick \/ UNCHANGED clock
  BY DEF Quiet, Tick, StopAtCount, StopAtEndOfLife, Expire, GoOn, LoopReturns,
     Uninteresting, Stop

\* The clock does not go back.
LEMMA ClockForward ==
    ASSUME Regular, TypeOK, [Next]_vars
    PROVE  clock' >= clock
<1>1. clock \in Nat
  BY IntervalAssumption DEF TypeOK, Times
<1>2. CASE Tick
  BY <1>1, <1>2, IntervalAssumption DEF Tick, Regular, Times
<1>3. CASE ~ Tick
  <2>1. clock' = clock
    BY <1>3 DEF Next, vars, main, Start, Record, Uninteresting, Stop, Crash,
       StopAtCount, StopAtEndOfLife, Expire, GoOn, CloseOutFile, OpenOutFile, LoopReturns
  <2> QED
    BY <1>1, <2>1
<1> QED
  BY <1>2, <1>3

\* updateOutFile empties file and counters together (nfsdump.c:555, 596), and a
\* packet goes to both.
LEMMA ContentsKept ==
    ASSUME Regular, IInv, [Next]_vars
    PROVE  Contents'
<1> USE DEF options, control, names, files
<1>1. TypeOK /\ Contents
  BY DEF IInv
<1>2. CASE Quiet
  <2>1. UNCHANGED <<names, stats, tmp, logs>>
    BY <1>2, QuietSteps
  <2>2. CASE Tick \/ Uninteresting
    BY <1>1, <2>1, <2>2 DEF Contents, Tick, Uninteresting
  <2>3. CASE StopAtCount \/ Stop
    BY <2>3 DEF Contents, StopAtCount, Stop, Exit
  <2>4. CASE StopAtEndOfLife \/ Expire
    BY <1>1, <2>1, <2>4 DEF Contents, StopAtEndOfLife, Expire
  <2>5. CASE GoOn
    <3>1. OutFile = "tmp"
      BY <1>1, <2>5, IntervalAssumption DEF GoOn, IntervalOver, Contents, TypeOK, Times
    <3> QED
      BY <1>1, <2>1, <2>5, <3>1 DEF Contents, GoOn
  <2>6. CASE LoopReturns
    BY <1>1, <2>1, <2>6 DEF Contents, LoopReturns
  <2> QED
    BY <1>2, <2>2, <2>3, <2>4, <2>5, <2>6 DEF Quiet
<1>3. CASE Start
  <2>1. tmp' = {}
    BY <1>3 DEF Start, Regular
  <2> QED
    BY <1>3, <2>1 DEF Contents, Start
<1>4. CASE CloseOutFile
  <2>1. stats' = {} /\ tmp' = {} /\ OutFile' = "NULL"
    BY <1>1, <1>4 DEF CloseOutFile, Publish, printSummary, Contents, TypeOK
  <2> QED
    BY <1>4, <2>1 DEF Contents, CloseOutFile
<1>5. CASE OpenOutFile
  <2>1. stats' = {} /\ tmp' = {} /\ OutFile' = "tmp"
    BY <1>1, <1>5 DEF OpenOutFile, Contents
  <2>2. pc' \in {"down", "capture"}
    BY <1>5 DEF OpenOutFile, Exit
  <2> QED
    BY <2>1, <2>2 DEF Contents
<1>6. CASE Record
  <2>1. /\ tmp' = tmp \cup {n + 1} /\ stats' = stats \cup {n + 1}
        /\ UNCHANGED <<pc, names, logs>> /\ pc = "capture"
    BY <1>6 DEF Record
  <2>2. \A s \in DOMAIN logs : \A i \in logs[s] : i < n + 1
    BY <1>1 DEF TypeOK
  <2> QED
    BY <1>1, <2>1, <2>2 DEF Contents
<1>7. CASE Crash
  BY <1>7 DEF Contents, Crash, Exit
<1>8. CASE UNCHANGED vars
  BY <1>1, <1>8 DEF Contents, vars
<1> QED
  BY <1>2, <1>3, <1>4, <1>5, <1>6, <1>7, <1>8 DEF Next, main, Quiet
-----------------------------------------------------------------------------
\* Rounding puts a new slot behind every log but that of the slot itself.
LEMMA LogsBefore ==
    ASSUME TypeOK, LogsNamed
    PROVE  /\ SlotOf(clock) \in Nat /\ SlotOf(clock) <= clock /\ IsSlot(SlotOf(clock))
           /\ \A s \in DOMAIN logs : s + Secs <= clock => s + Secs <= SlotOf(clock)
           /\ \A s \in DOMAIN logs : s # SlotOf(clock) => s + Secs <= clock
<1>1. clock \in Nat /\ Secs \in Nat
  BY IntervalAssumption DEF TypeOK, Times
<1>2. SlotOf(clock) \in Nat /\ SlotOf(clock) <= clock /\ IsSlot(SlotOf(clock))
  BY <1>1, Slots DEF IsSlot
<1>3. ASSUME NEW s \in DOMAIN logs
      PROVE  /\ s + Secs <= clock => s + Secs <= SlotOf(clock)
             /\ s # SlotOf(clock) => s + Secs <= clock
  <2>1. PICK u \in Nat : s = SlotOf(u)
    BY DEF LogsNamed, IsSlot
  <2>2. s \in Nat /\ s <= clock
    BY <2>1, Slots DEF LogsNamed
  <2>3. s + Secs <= clock => s + Secs <= SlotOf(clock)
    BY <1>1, <2>1, Slots
  <2>4. s # SlotOf(clock) => s + Secs <= SlotOf(clock)
    BY <1>1, <2>1, <2>2, Slots
  <2> QED
    BY <1>1, <1>2, <2>2, <2>3, <2>4
<1> QED
  BY <1>2, <1>3

\* A file is closed when its slot is over, at the latest moment of the run
\* otherwise, and the next one is named after a later slot.
LEMMA NamedKept ==
    ASSUME Regular, IInv, [Next]_vars
    PROVE  LogsNamed'
<1> USE DEF options, control, names, files
<1>1. TypeOK /\ LogsNamed /\ Contents
  BY DEF IInv
<1>2. /\ clock \in Int /\ clock' \in Int /\ Secs \in Nat \ {0} /\ clock <= clock'
      /\ \A s \in DOMAIN logs : s \in Int
      /\ OutFile = "tmp" => cur_logname \in Int
  <2>1. \A s : IsSlot(s) => s \in Int
    BY Slots DEF IsSlot
  <2>2. clock \in Int /\ clock' \in Int /\ Secs \in Nat \ {0}
    BY <1>1, TypesKept, IntervalAssumption DEF TypeOK, Times
  <2> QED
    BY <1>1, <2>1, <2>2, ClockForward DEF LogsNamed
<1>3. CASE Quiet
  <2>1. UNCHANGED <<names, logs>>
    BY <1>3, QuietSteps
  <2>0. reopened' = reopened
    BY <1>3, QuietSteps
  <2>2. /\ \A s \in DOMAIN logs : IsSlot(s) /\ s <= clock'
        /\ OutFile = "tmp" => /\ IsSlot(cur_logname) /\ cur_logname <= clock'
                              /\ end_time = cur_logname + Secs
    BY <1>1, <1>2 DEF LogsNamed
  <2>3. CASE Tick
    <3>1. pc' = pc /\ last' = last
      BY <2>3 DEF Tick
    <3>2. pc # "down" /\ ~ last =>
              \A s \in DOMAIN logs : s + Secs <= clock' \/ s \in reopened
      BY <1>1, <1>2 DEF LogsNamed
    <3>3. pc = "close" /\ ~ last /\ OutFile = "tmp" => end_time <= clock'
      BY <1>1, <1>2 DEF LogsNamed
    <3> QED
      BY <1>1, <2>0, <2>1, <2>2, <3>1, <3>2, <3>3 DEF LogsNamed
  <2>4. CASE StopAtCount \/ Stop
    BY <2>1, <2>2, <2>4 DEF LogsNamed, StopAtCount, Stop, Exit
  <2>5. CASE StopAtEndOfLife
    BY <1>1, <2>0, <2>1, <2>2, <2>5 DEF LogsNamed, StopAtEndOfLife
  <2>6. CASE Expire
    BY <1>1, <2>0, <2>1, <2>2, <2>6 DEF LogsNamed, Expire, IntervalOver
  <2>7. CASE GoOn \/ LoopReturns \/ Uninteresting
    BY <1>1, <2>0, <2>1, <2>2, <2>7 DEF LogsNamed, GoOn, LoopReturns, Uninteresting
  <2> QED
    BY <1>3, <2>3, <2>4, <2>5, <2>6, <2>7 DEF Quiet
<1>4. CASE Start
  <2>1. reopened' = {SlotOf(clock)} \cap DOMAIN logs
    <3>1. LogName(SlotOf(clock)) = SlotOf(clock)
      BY <1>1, LogsBefore DEF LogName, Regular
    <3> QED
      BY <1>4, <3>1 DEF Start
  <2>2. \A s \in DOMAIN logs : s + Secs <= clock \/ s \in reopened'
    BY <1>1, <2>1, LogsBefore
  <2>3. UNCHANGED <<clock, logs>> /\ pc' = "poll" /\ last' = FALSE /\ OutFile' = "NULL"
    BY <1>4 DEF Start
  <2> QED
    BY <1>1, <2>2, <2>3 DEF LogsNamed
<1>5. CASE CloseOutFile
  <2>1. /\ UNCHANGED <<clock, last, end_time>> /\ pc = "close" /\ pc' = "open"
        /\ OutFile' = "NULL"
    BY <1>1, <1>5 DEF CloseOutFile, TypeOK
  <2>2. CASE OutFile = "NULL"
    <3>1. UNCHANGED <<logs, reopened>>
      BY <1>5, <2>2 DEF CloseOutFile
    <3> QED
      BY <1>1, <2>1, <3>1 DEF LogsNamed
  <2>3. CASE OutFile # "NULL"
    <3>1. DOMAIN logs' = DOMAIN logs \cup {cur_logname} /\ reopened' = reopened \ {cur_logname}
      BY <1>5, <2>3 DEF CloseOutFile, Publish, Put
    <3>2. OutFile = "tmp" /\ IsSlot(cur_logname) /\ cur_logname <= clock
      BY <1>1, <2>3 DEF LogsNamed, TypeOK
    <3>3. ~ last => cur_logname + Secs <= clock
      BY <1>1, <2>1, <3>2 DEF LogsNamed
    <3>4. ~ last => \A s \in DOMAIN logs' : s + Secs <= clock \/ s \in reopened'
      BY <1>1, <2>1, <3>1, <3>3 DEF LogsNamed
    <3>5. \A s \in DOMAIN logs' : IsSlot(s) /\ s <= clock
      BY <1>1, <3>1, <3>2 DEF LogsNamed
    <3> QED
      BY <2>1, <3>4, <3>5 DEF LogsNamed
  <2> QED
    BY <2>2, <2>3
<1>6. CASE OpenOutFile
  <2>1. /\ UNCHANGED <<clock, logs, last, reopened>> /\ OutFile' = "tmp" /\ pc = "open"
        /\ pc' = "down" \/ (pc' = "capture" /\ ~ last)
    BY <1>6 DEF OpenOutFile, Exit, Finished
  <2>2. cur_logname' = SlotOf(clock) /\ end_time' = SlotOf(clock) + Secs
    <3>1. PICK time \in Times : /\ time \in (clock - MaxLag)..clock
                                /\ cur_logname' = LogName(SlotOf(time))
                                /\ end_time' = SlotOf(time) + Secs
      BY <1>6 DEF OpenOutFile
    <3>2. time = clock
      BY <1>2, <3>1, IntervalAssumption DEF Regular, Times
    <3>3. LogName(SlotOf(clock)) = SlotOf(clock)
      BY <1>1, LogsBefore DEF LogName, Regular
    <3> QED
      BY <3>1, <3>2, <3>3
  <2>3. IsSlot(cur_logname') /\ cur_logname' <= clock
    BY <1>1, <2>2, LogsBefore
  <2>4. ~ last => \A s \in DOMAIN logs : s + Secs <= clock \/ s \in reopened
    BY <1>1, <2>1 DEF LogsNamed
  <2>5. ~ last => \A s \in DOMAIN logs : \/ s + Secs <= cur_logname'
                                         \/ (s = cur_logname' /\ s \in reopened)
    BY <1>1, <2>2, <2>4, LogsBefore
  <2> QED
    BY <1>1, <2>1, <2>2, <2>3, <2>4, <2>5 DEF LogsNamed
<1>7. CASE Record
  BY <1>1, <1>7 DEF LogsNamed, Record
<1>8. CASE Crash
  BY <1>1, <1>8 DEF LogsNamed, Crash, Exit
<1>9. CASE UNCHANGED vars
  BY <1>1, <1>9 DEF LogsNamed, vars
<1> QED
  BY <1>3, <1>4, <1>5, <1>6, <1>7, <1>8, <1>9 DEF Next, main, Quiet
-----------------------------------------------------------------------------
\* The name of the open file is that of no log, so that rename replaces nothing, or
\* of the one of the slot in which the run began (nfsdump.c:546).
LEMMA FreshName ==
    ASSUME TypeOK, LogsNamed, pc = "close", OutFile # "NULL"
    PROVE  \A s \in DOMAIN logs : s < cur_logname \/ (s = cur_logname /\ s \in reopened)
<1>1. OutFile = "tmp" /\ IsSlot(cur_logname) /\ Secs \in Nat \ {0}
  BY IntervalAssumption DEF TypeOK, LogsNamed
<1>2. \A s : IsSlot(s) => s \in Int
  BY Slots DEF IsSlot
<1>3. \A s \in DOMAIN logs : /\ s \in Int
                             /\ \/ s + Secs <= cur_logname
                                \/ (s = cur_logname /\ s \in reopened)
  BY <1>1, <1>2 DEF LogsNamed
<1>4. cur_logname \in Int
  BY <1>1, <1>2
<1> QED
  BY <1>1, <1>3, <1>4

\* Only closing the open file changes a log or a summary (nfsdump.c:546, 555).
LEMMA LogsUntouched ==
    ASSUME TypeOK, LogsNamed, [Next]_vars
    PROVE  \/ UNCHANGED <<logs, sums, replaced>>
           \/ /\ pc = "close" /\ OutFile # "NULL" /\ CloseOutFile
              /\ logs' = Put(logs, cur_logname, tmp)
              /\ sums' = sums \/ sums' = Put(sums, cur_logname, stats)
              /\ replaced' = replaced \cup (reopened \cap {cur_logname})
<1> USE DEF options, control, names, files
<1>1. CASE Quiet
  BY <1>1, QuietSteps
<1>2. CASE CloseOutFile
  BY <1>2 DEF CloseOutFile, Publish, printSummary
<1>3. CASE Start \/ OpenOutFile \/ Record \/ Crash \/ UNCHANGED vars
  BY <1>3 DEF Start, OpenOutFile, Record, Crash, vars
<1> QED
  BY <1>1, <1>2, <1>3 DEF Next, main, Quiet

\* A log that is there stays as it is, but for that of the slot in which the run
\* began.
LEMMA FinalKept ==
    ASSUME TypeOK, LogsNamed, [Next]_vars
    PROVE  \A s \in DOMAIN logs : /\ s \in DOMAIN logs'
                                  /\ logs'[s] # logs[s] => s \in reopened
<1>1. CASE UNCHANGED <<logs, sums, replaced>>
  BY <1>1
<1>2. CASE /\ pc = "close" /\ OutFile # "NULL"
           /\ logs' = Put(logs, cur_logname, tmp)
  <2>1. cur_logname \in DOMAIN logs => cur_logname \in reopened
    <3>1. cur_logname \in Int
      BY <1>2, Slots DEF LogsNamed, TypeOK, IsSlot
    <3> QED
      BY <1>2, <3>1, FreshName
  <2> QED
    BY <1>2, <2>1 DEF Put
<1> QED
  BY <1>1, <1>2, LogsUntouched

\* A record goes from the temporary file to a log, to the file of a former run, or
\* to nowhere in a crash.
LEMMA LostKept ==
    ASSUME Regular, IInv, [Next]_vars
    PROVE  NothingLost'
<1> USE DEF options, control, names, files
<1> DEFINE Logged == UNION {logs[s] : s \in DOMAIN logs}
<1>1. TypeOK /\ LogsNamed /\ Contents /\ NothingLost
  BY DEF IInv
<1>2. logs' = logs => Logged \subseteq Logged'
  OBVIOUS
<1>3. CASE Quiet
  BY <1>1, <1>3, QuietSteps DEF NothingLost
<1>4. CASE Start
  <2>1. n' = n /\ leftover' = leftover \cup tmp /\ lost' = lost /\ logs' = logs
    BY <1>4 DEF Start, Regular
  <2> QED
    BY <1>1, <1>2, <2>1 DEF NothingLost
<1>5. CASE CloseOutFile
  <2>1. n' = n /\ leftover' = leftover
    BY <1>5 DEF CloseOutFile
  <2>2. CASE OutFile = "NULL"
    BY <1>1, <1>5, <2>2 DEF CloseOutFile, NothingLost
  <2>3. CASE OutFile # "NULL"
    <3>1. /\ logs' = Put(logs, cur_logname, tmp)
          /\ lost' = lost \cup UNION {logs[s] : s \in reopened \cap {cur_logname}}
      BY <1>5, <2>3 DEF CloseOutFile, Publish
    <3>2. cur_logname \in DOMAIN logs => cur_logname \in reopened
      <4>1. cur_logname \in Int /\ pc = "close"
        BY <1>1, <1>5, <2>3, Slots DEF LogsNamed, TypeOK, IsSlot, CloseOutFile
      <4> QED
        BY <1>1, <2>3, <4>1, FreshName
    <3>3. tmp \subseteq Logged'
      BY <3>1 DEF Put
    <3>4. ASSUME NEW s \in DOMAIN logs
          PROVE  logs[s] \subseteq Logged' \cup lost'
      BY <3>1, <3>2 DEF Put
    <3>5. Logged \subseteq Logged' \cup lost'
      BY <3>4
    <3>6. lost \subseteq lost'
      BY <3>1
    <3> QED
      BY <1>1, <2>1, <3>3, <3>5, <3>6 DEF NothingLost
  <2> QED
    BY <2>2, <2>3
<1>6. CASE OpenOutFile
  <2>1. n' = n /\ leftover' = leftover /\ lost' = lost /\ tmp = {} /\ logs' = logs
    BY <1>1, <1>6 DEF OpenOutFile, Contents
  <2> QED
    BY <1>1, <1>2, <2>1 DEF NothingLost
<1>7. CASE Record
  <2>1. /\ n' = n + 1 /\ leftover' = leftover /\ lost' = lost /\ tmp' = tmp \cup {n + 1}
        /\ logs' = logs
    BY <1>7 DEF Record
  <2>2. 1..(n + 1) \subseteq (1..n) \cup {n + 1}
    BY <1>1 DEF TypeOK
  <2> QED
    BY <1>1, <1>2, <2>1, <2>2 DEF NothingLost
<1>8. CASE Crash
  <2>1. /\ n' = n /\ leftover' = leftover /\ tmp \subseteq tmp' \cup lost' /\ lost \subseteq lost'
        /\ logs' = logs
    BY <1>8 DEF Crash
  <2> QED
    BY <1>1, <1>2, <2>1 DEF NothingLost
<1>9. CASE UNCHANGED vars
  BY <1>1, <1>9 DEF NothingLost, vars
<1> QED
  BY <1>3, <1>4, <1>5, <1>6, <1>7, <1>8, <1>9 DEF Next, main, Quiet

\* The summary is written of the counters at the moment the log gets its name.
LEMMA SummariesKept ==
    ASSUME IInv, [Next]_vars
    PROVE  SummaryCounts'
<1>1. TypeOK /\ LogsNamed /\ Contents /\ SummaryCounts
  BY DEF IInv
<1>2. CASE UNCHANGED <<logs, sums, replaced>>
  BY <1>1, <1>2 DEF SummaryCounts
<1>3. CASE /\ pc = "close" /\ OutFile # "NULL"
           /\ logs' = Put(logs, cur_logname, tmp)
           /\ sums' = sums \/ sums' = Put(sums, cur_logname, stats)
           /\ replaced' = replaced \cup (reopened \cap {cur_logname})
  <2>1. cur_logname \in DOMAIN logs => cur_logname \in replaced'
    <3>1. cur_logname \in Int
      BY <1>1, <1>3, Slots DEF LogsNamed, TypeOK, IsSlot
    <3> QED
      BY <1>1, <1>3, <3>1, FreshName
  <2>2. stats = tmp
    BY <1>1, <1>3 DEF Contents
  <2>3. DOMAIN sums \subseteq DOMAIN logs /\ replaced \subseteq replaced'
    BY <1>1, <1>3 DEF TypeOK
  <2>4. ASSUME NEW s \in DOMAIN sums', s \notin replaced'
        PROVE  sums'[s] = logs'[s]
    <3>1. CASE s = cur_logname
      <4>1. s \notin DOMAIN sums
        BY <2>1, <2>3, <2>4, <3>1
      <4> QED
        BY <1>3, <2>2, <2>4, <3>1, <4>1 DEF Put
    <3>2. CASE s # cur_logname
      <4>1. s \in DOMAIN sums /\ sums'[s] = sums[s]
        BY <1>3, <2>4, <3>2 DEF Put
      <4>2. logs'[s] = logs[s]
        BY <1>3, <2>3, <3>2, <4>1 DEF Put
      <4> QED
        BY <1>1, <2>3, <2>4, <4>1, <4>2 DEF SummaryCounts
    <3> QED
      BY <3>1, <3>2
  <2> QED
    BY <2>4 DEF SummaryCounts
<1> QED
  BY <1>1, <1>2, <1>3, LogsUntouched

\* The log that is added is the last by name, and its records are the youngest.
LEMMA OrderKept ==
    ASSUME IInv, [Next]_vars
    PROVE  LogsInOrder'
<1>1. TypeOK /\ LogsNamed /\ Contents /\ LogsInOrder
  BY DEF IInv
<1>2. CASE UNCHANGED <<logs, sums, replaced>>
  BY <1>1, <1>2 DEF LogsInOrder
<1>3. CASE /\ pc = "close" /\ OutFile # "NULL"
           /\ logs' = Put(logs, cur_logname, tmp)
  <2>1. cur_logname \in Int /\ \A s \in DOMAIN logs : s \in Int
    BY <1>1, <1>3, Slots DEF LogsNamed, TypeOK, IsSlot
  <2>2. \A s \in DOMAIN logs' : ~ (cur_logname < s)
    BY <1>1, <1>3, <2>1, FreshName DEF Put
  <2>3. \A s \in DOMAIN logs : \A i \in logs[s], j \in tmp : i < j
    BY <1>1, <1>3 DEF Contents
  <2>4. \A s \in DOMAIN logs' :
            /\ s = cur_logname => logs'[s] = tmp
            /\ s # cur_logname => s \in DOMAIN logs /\ logs'[s] = logs[s]
    BY <1>3 DEF Put
  <2>5. ASSUME NEW s \in DOMAIN logs', NEW t \in DOMAIN logs',
               NEW i \in logs'[s], NEW j \in logs'[t], s < t
        PROVE  i < j
    <3>1. s # cur_logname
      BY <2>2, <2>5
    <3>2. s \in DOMAIN logs /\ i \in logs[s]
      BY <2>4, <3>1
    <3>3. CASE t = cur_logname
      BY <2>3, <2>4, <3>2, <3>3
    <3>4. CASE t # cur_logname
      <4>1. t \in DOMAIN logs /\ j \in logs[t]
        BY <2>4, <3>4
      <4> QED
        BY <1>1, <2>5, <3>2, <4>1 DEF LogsInOrder
    <3> QED
      BY <3>3, <3>4
  <2> QED
    BY <2>5 DEF LogsInOrder
<1> QED
  BY <1>1, <1>2, <1>3, LogsUntouched

\* The end of the last interval or of the life time comes after updateOutFile.
LEMMA PushedKept ==
    ASSUME IInv, [Next]_vars
    PROVE  LastPushedOut'
<1> USE DEF options, control, names, files
<1>1. LastPushedOut /\ Contents
  BY DEF IInv
<1>2. CASE Tick \/ UNCHANGED vars
  BY <1>1, <1>2, FlagsKept DEF LastPushedOut, CountReached, Tick, vars, IInv
<1>3. CASE StopAtCount
  BY <1>3 DEF LastPushedOut, CountReached, StopAtCount, Exit
<1>4. CASE Start \/ StopAtEndOfLife \/ Expire \/ GoOn \/ CloseOutFile \/ LoopReturns
           \/ Record \/ Uninteresting
  BY <1>4 DEF LastPushedOut, Start, StopAtEndOfLife, Expire, GoOn, CloseOutFile,
     LoopReturns,
     Record, Uninteresting
<1>5. CASE OpenOutFile
  BY <1>5 DEF LastPushedOut, OpenOutFile
<1>6. CASE Stop \/ Crash
  <2>1. disturbed'
    BY <1>6, FlagsKept DEF Stop, Crash, IInv
  <2> QED
    BY <2>1 DEF LastPushedOut
<1> QED
  BY <1>2, <1>3, <1>4, <1>5, <1>6 DEF Next, main
-----------------------------------------------------------------------------
\* The inductive invariant of interval logging, over every number of runs.
THEOREM LogInvariant == Regular => (Spec => []IInv)
<1> SUFFICES ASSUME Regular PROVE Spec => []IInv
  OBVIOUS
<1>1. Init => IInv
  BY InitIInv
<1>2. IInv /\ [Next]_vars => IInv'
  <2> SUFFICES ASSUME IInv, [Next]_vars PROVE IInv'
    OBVIOUS
  <2>1. TypeOK'
    BY TypesKept DEF IInv
  <2> QED
    BY <2>1, NamedKept, ContentsKept, LostKept, SummariesKept, OrderKept, PushedKept
       DEF IInv
<1> QED
  BY <1>1, <1>2, PTL DEF Spec

\* Types: a name is given only while a file is open, and a summary exists only
\* beside its log (nfsdump.c:545-557).
THEOREM LogTypes == Regular => (Spec => []TypeOK)
  BY LogInvariant, PTL DEF IInv

\* Whatever ends the runs, a record is lost only in the buffers of a crashed
\* process or in a log that a run replaces that began in its slot (nfsdump.c:541-548,
\* 596).
THEOREM RecordsKept == Regular => (Spec => []NothingLost)
  BY LogInvariant, PTL DEF IInv

\* A summary counts exactly the records of its log, unless the log was replaced
\* (nfsdump.c:554-556, 658).
THEOREM SummariesAgree == Regular => (Spec => []SummaryCounts)
  BY LogInvariant, PTL DEF IInv

\* The logs in the order of their names have the records in the order of capture
\* (nfsdump.c:565-578).
THEOREM NamesInOrder == Regular => (Spec => []LogsInOrder)
  BY LogInvariant, PTL DEF IInv

\* A run that ends by itself, but for -c, leaves nothing in its temporary file
\* (nfsdump.c:442-453).
THEOREM NothingLeftOver == Regular => (Spec => []LastPushedOut)
  BY LogInvariant, PTL DEF IInv

\* What is found under a log's name stays there unchanged, through all later slots
\* and runs: rename replaces no log but that of the slot in which a run began
\* (nfsdump.c:546, 591).
THEOREM LogsStayFinal == Regular => (Spec => LogFinal)
<1>1. IInv /\ [Next]_vars =>
          [\A s \in DOMAIN logs : /\ s \in DOMAIN logs'
                                  /\ logs'[s] # logs[s] => s \in reopened]_vars
  BY FinalKept DEF IInv
<1> QED
  BY <1>1, LogInvariant, PTL DEF Spec, LogFinal
-----------------------------------------------------------------------------
\* Numbers and sequences: a set of numbers has a least one, and so a property that goes
\* on from each number to the next holds of all; a set of places has a last one.

LEMMA Least ==
    ASSUME NEW T, T \subseteq Nat, T # {}
    PROVE  \E x \in T : \A y \in T : x <= y
<1> DEFINE R == OpToRel(<, Nat)
<1>1. IsWellFoundedOn(R, Nat)
  BY NatLessThanWellFounded
<1>2. \A x, y \in Nat : x < y => <<x, y>> \in R
  BY DEF OpToRel
<1> HIDE DEF R
<1>3. PICK x \in T : \A y \in T : ~ (<<y, x>> \in R)
  BY <1>1, WFMin
<1>4. ASSUME NEW y \in T PROVE x <= y
  <2>1. x \in Nat /\ y \in Nat /\ ~ (y < x)
    BY <1>2, <1>3
  <2> QED
    BY <2>1
<1> QED
  BY <1>3, <1>4

\* Induction, for the numbers that a set has.
LEMMA Counting ==
    ASSUME NEW T, 0 \in T, \A v \in Nat : v \in T => v + 1 \in T
    PROVE  Nat \subseteq T
<1> SUFFICES ASSUME ~ (Nat \subseteq T) PROVE FALSE
  OBVIOUS
<1> DEFINE S == {v \in Nat : v \notin T}
<1>1. S # {} /\ S \subseteq Nat
  OBVIOUS
<1>2. PICK x \in S : \A y \in S : x <= y
  BY <1>1, Least
<1>3. x # 0 /\ x \in Nat
  BY <1>2
<1>4. x - 1 \in Nat /\ (x - 1) + 1 = x /\ ~ (x <= x - 1)
  BY <1>3
<1>5. x - 1 \in T
  BY <1>2, <1>4
<1>6. x \in T
  BY <1>4, <1>5
<1> QED
  BY <1>2, <1>6

LEMMA Greatest ==
    ASSUME NEW v \in Nat, NEW S, S \subseteq 1..v, S # {}
    PROVE  Max(S) \in S /\ \A y \in S : Max(S) >= y
<1> DEFINE T == {k \in Nat : \A y \in S : y <= k}
<1>1. v \in T /\ T \subseteq Nat
  OBVIOUS
<1>2. PICK k \in T : \A y \in T : k <= y
  <2>1. T # {}
    BY <1>1
  <2> HIDE DEF T
  <2> QED
    BY <1>1, <2>1, Least
<1>3. k \in Nat /\ \A y \in S : y <= k
  BY <1>2
<1>4. k \in S
  <2>1. SUFFICES ASSUME k \notin S PROVE FALSE
    OBVIOUS
  <2>2. k # 0
    <3>1. PICK y \in S : y \in 1..v
      OBVIOUS
    <3> QED
      BY <1>3, <3>1
  <2>3. k - 1 \in Nat /\ ~ (k <= k - 1)
    BY <1>3, <2>2
  <2>4. \A y \in S : y <= k - 1
    BY <1>3, <2>1
  <2>5. k - 1 \in T
    BY <2>3, <2>4
  <2> QED
    BY <1>2, <2>3, <2>5
<1>5. \E x \in S : \A y \in S : x >= y
  BY <1>3, <1>4
<1> QED
  BY <1>5 DEF Max

\* Joining the sequences of a sequence, one after another.
Joins(g, s, m) == g = [i \in 1..m |-> IF i = 1 THEN s[i] ELSE g[i - 1] \o s[i]]

LEMMA FlattenIs ==
    ASSUME NEW s, Len(s) # 0
    PROVE  FlattenSeq(s) = (CHOOSE g : Joins(g, s, Len(s)))[Len(s)]
  BY DEF FlattenSeq, Joins
LEMMA JoinsExist ==
    ASSUME NEW s
    PROVE  \A m \in Nat : \E g : Joins(g, s, m)
<1> DEFINE T == {m \in Nat : \E g : Joins(g, s, m)}
<1>1. 0 \in T
  <2> DEFINE g == [i \in 1..0 |-> 0]
  <2>1. Joins(g, s, 0)
    BY DEF Joins
  <2> QED
    BY <2>1
<1>2. ASSUME NEW m \in Nat, m \in T PROVE m + 1 \in T
  <2>1. PICK g : Joins(g, s, m)
    BY <1>2
  <2> DEFINE h == [i \in 1..m + 1 |->
                      IF i <= m THEN g[i] ELSE IF i = 1 THEN s[i] ELSE g[i - 1] \o s[i]]
             k == [i \in 1..m + 1 |-> IF i = 1 THEN s[i] ELSE h[i - 1] \o s[i]]
  <2>2. ASSUME NEW i \in 1..m + 1 PROVE h[i] = k[i]
    <3>1. CASE i <= m
      <4>1. i \in 1..m /\ (i # 1 => i - 1 \in 1..m + 1 /\ i - 1 <= m)
        BY <2>2, <3>1
      <4>2. g[i] = IF i = 1 THEN s[i] ELSE g[i - 1] \o s[i]
        BY <2>1, <4>1 DEF Joins
      <4>3. i # 1 => h[i - 1] = g[i - 1]
        BY <4>1
      <4> QED
        BY <2>2, <3>1, <4>2, <4>3
    <3>2. CASE ~ (i <= m)
      <4>1. i # 1 => i - 1 \in 1..m + 1 /\ i - 1 <= m
        BY <2>2, <3>2
      <4>2. i # 1 => h[i - 1] = g[i - 1]
        BY <4>1
      <4> QED
        BY <2>2, <3>2, <4>2
    <3> QED
      BY <3>1, <3>2
  <2>3. h = k
    BY <2>2
  <2>4. Joins(h, s, m + 1)
    BY <2>3 DEF Joins
  <2> QED
    BY <2>4
<1> HIDE DEF T
<1>3. Nat \subseteq T
  BY <1>1, <1>2, Counting
<1> QED
  BY <1>3 DEF T

LEMMA JoinsUnique ==
    ASSUME NEW g, NEW h, NEW s, NEW r, NEW m \in Nat, NEW l \in Nat, m <= l, Joins(g, s, m), Joins(h, r, l),
           \A i \in 1..m : s[i] = r[i]
    PROVE  \A i \in 1..m : g[i] = h[i]
<1> DEFINE T == {v \in Nat : v \in 1..m => g[v] = h[v]}
<1>1. 0 \in T
  OBVIOUS
<1>2. ASSUME NEW v \in Nat, v \in T PROVE v + 1 \in T
  <2> SUFFICES ASSUME v + 1 \in 1..m PROVE g[v + 1] = h[v + 1]
    OBVIOUS
  <2>1. v + 1 \in 1..l /\ (v + 1 # 1 => v \in 1..m) /\ (v + 1) - 1 = v
    OBVIOUS
  <2>2. g[v + 1] = IF v + 1 = 1 THEN s[v + 1] ELSE g[(v + 1) - 1] \o s[v + 1]
    BY DEF Joins
  <2>3. h[v + 1] = IF v + 1 = 1 THEN r[v + 1] ELSE h[(v + 1) - 1] \o r[v + 1]
    BY <2>1 DEF Joins
  <2>4. v + 1 # 1 => g[v] = h[v]
    BY <1>2, <2>1
  <2> QED
    BY <2>1, <2>2, <2>3, <2>4
<1> HIDE DEF T
<1>3. Nat \subseteq T
  BY <1>1, <1>2, Counting
<1> QED
  BY <1>3 DEF T

\* The first items of s.
Firsts(s, v) == [i \in 1..v |-> s[i]]

LEMMA FirstsLen == ASSUME NEW s, NEW v \in Nat PROVE Len(Firsts(s, v)) = v
  BY DEF Firsts

LEMMA FlattenNone == ASSUME NEW s PROVE FlattenSeq(Firsts(s, 0)) = <<>>
<1>1. Len(Firsts(s, 0)) = 0
  BY FirstsLen
<1>2. Firsts(s, 0) = <<>>
  BY DEF Firsts
<1> QED
  BY <1>1, <1>2 DEF FlattenSeq

LEMMA FlattenJoins ==
    ASSUME NEW s, NEW v \in Nat \ {0}
    PROVE  \E g : Joins(g, Firsts(s, v), v) /\ FlattenSeq(Firsts(s, v)) = g[v]
<1> DEFINE f == Firsts(s, v)
<1>1. Len(f) = v /\ v \in Nat
  BY FirstsLen
<1> HIDE DEF f
<1>2. \E g : Joins(g, f, v)
  BY <1>1, JoinsExist
<1>3. Joins((CHOOSE g : Joins(g, f, v)), f, v)
  BY <1>2
<1>4. FlattenSeq(f) = (CHOOSE g : Joins(g, f, v))[v]
  BY <1>1, FlattenIs
<1> QED
  BY <1>3, <1>4 DEF f

\* One more item.
LEMMA FlattenMore ==
    ASSUME NEW s, NEW v \in Nat, NEW S, v = 0 => s[1] \in Seq(S)
    PROVE  FlattenSeq(Firsts(s, v + 1)) = FlattenSeq(Firsts(s, v)) \o s[v + 1]
<1>1. v + 1 \in Nat \ {0} /\ v + 1 \in 1..v + 1 /\ (v + 1) - 1 = v
  OBVIOUS
<1>2. PICK h : Joins(h, Firsts(s, v + 1), v + 1) /\ FlattenSeq(Firsts(s, v + 1)) = h[v + 1]
  BY <1>1, FlattenJoins
<1>3. h[v + 1] = IF v + 1 = 1 THEN s[v + 1] ELSE h[v] \o s[v + 1]
  BY <1>1, <1>2 DEF Joins, Firsts
<1>4. CASE v = 0
  <2>1. FlattenSeq(Firsts(s, v)) = <<>>
    BY <1>4, FlattenNone
  <2>2. h[v + 1] = s[1] /\ s[v + 1] = s[1]
    BY <1>3, <1>4
  <2>3. <<>> \o s[1] = s[1]
    BY <1>4
  <2> QED
    BY <1>2, <2>1, <2>2, <2>3
<1>5. CASE v # 0
  <2>1. PICK g : Joins(g, Firsts(s, v), v) /\ FlattenSeq(Firsts(s, v)) = g[v]
    BY <1>5, FlattenJoins
  <2>2. \A i \in 1..v : Firsts(s, v)[i] = Firsts(s, v + 1)[i]
    BY DEF Firsts
  <2>3. v <= v + 1 /\ v \in 1..v /\ v + 1 # 1 /\ v + 1 \in Nat
    BY <1>5
  <2>4. g[v] = h[v]
    BY <1>2, <2>1, <2>2, <2>3, JoinsUnique
  <2> QED
    BY <1>2, <1>3, <2>1, <2>3, <2>4
<1> QED
  BY <1>4, <1>5
-----------------------------------------------------------------------------
\* Sequences, of anything.
Listed(s) == Len(s) \in Nat /\ s = [i \in 1..Len(s) |-> s[i]]

LEMMA ListedIn ==
    ASSUME NEW s, NEW S, Listed(s), \A i \in 1..Len(s) : s[i] \in S
    PROVE  s \in Seq(S)
<1> DEFINE v == Len(s)
<1>1. v \in Nat /\ s = [i \in 1..v |-> s[i]] /\ \A i \in 1..v : s[i] \in S
  BY DEF Listed
<1> HIDE DEF v
<1>2. s \in [1..v -> S]
  BY <1>1
<1> QED
  BY <1>1, <1>2

LEMMA InListed ==
    ASSUME NEW S, NEW s \in Seq(S)
    PROVE  Listed(s) /\ \A i \in 1..Len(s) : s[i] \in S
  BY DEF Listed

LEMMA ListedJoin ==
    ASSUME NEW a, NEW z, Listed(a), Listed(z)
    PROVE  /\ Listed(a \o z) /\ Len(a \o z) = Len(a) + Len(z)
           /\ \A i \in 1..(Len(a) + Len(z)) : (a \o z)[i] = IF i <= Len(a) THEN a[i] ELSE z[i - Len(a)]
<1> DEFINE S == {a[i] : i \in 1..Len(a)} \cup {z[i] : i \in 1..Len(z)}
<1>1. (\A i \in 1..Len(a) : a[i] \in S) /\ \A i \in 1..Len(z) : z[i] \in S
  OBVIOUS
<1> HIDE DEF S
<1>2. a \in Seq(S) /\ z \in Seq(S)
  BY <1>1, ListedIn
<1>3. /\ a \o z \in Seq(S) /\ Len(a \o z) = Len(a) + Len(z)
      /\ \A i \in 1..(Len(a) + Len(z)) : (a \o z)[i] = IF i <= Len(a) THEN a[i] ELSE z[i - Len(a)]
  BY <1>2, ConcatProperties
<1>4. Listed(a \o z)
  BY <1>3, InListed
<1> QED
  BY <1>3, <1>4

LEMMA ListedAppend ==
    ASSUME NEW s, NEW x, Listed(s)
    PROVE  /\ Listed(Append(s, x)) /\ Len(Append(s, x)) = Len(s) + 1
           /\ \A i \in 1..Len(s) : Append(s, x)[i] = s[i]
           /\ Append(s, x)[Len(s) + 1] = x
           /\ Append(s, x) = s \o <<x>>
<1> DEFINE S == {s[i] : i \in 1..Len(s)} \cup {x}
<1>1. (\A i \in 1..Len(s) : s[i] \in S) /\ x \in S
  OBVIOUS
<1> HIDE DEF S
<1>2. s \in Seq(S)
  BY <1>1, ListedIn
<1>3. /\ Append(s, x) \in Seq(S) /\ Len(Append(s, x)) = Len(s) + 1
      /\ \A i \in 1..Len(s) : Append(s, x)[i] = s[i]
      /\ Append(s, x)[Len(s) + 1] = x
  BY <1>1, <1>2, AppendProperties
<1>4. Append(s, x) = s \o <<x>>
  BY <1>1, <1>2, AppendIsConcat
<1>5. Listed(Append(s, x))
  BY <1>3, InListed
<1> QED
  BY <1>3, <1>4, <1>5

LEMMA ListedNone ==
    ASSUME NEW s, Listed(s)
    PROVE  s \o <<>> = s
<1> DEFINE S == {s[i] : i \in 1..Len(s)}
<1>1. \A i \in 1..Len(s) : s[i] \in S
  OBVIOUS
<1> HIDE DEF S
<1>2. s \in Seq(S)
  BY <1>1, ListedIn
<1> QED
  BY <1>2, ConcatEmptySeq
-----------------------------------------------------------------------------
\* The log: calls and replies, in the order of time (the trace is a capture).
IsLine(line, t) == line.kind \in {"C3", "R3"} /\ line.t \in Nat /\ line.t <= t
IsLog(l, t) ==
    /\ Listed(l)
    /\ \A i \in 1..Len(l) : IsLine(l[i], t)
    /\ \A i \in 1..Len(l), j \in 1..Len(l) : i < j => l[i].t <= l[j].t

LEMMA LogMore ==
    ASSUME NEW l, NEW t \in Nat, NEW line, IsLog(l, t), line.kind \in {"C3", "R3"}, line.t = t
    PROVE  IsLog(Append(l, line), t)
<1> DEFINE m == Append(l, line)
           v == Len(l)
<1>1. Listed(l) /\ v \in Nat
  BY DEF IsLog, Listed
<1>2. /\ Listed(m) /\ Len(m) = v + 1 /\ v \in Nat
      /\ \A i \in 1..v : m[i] = l[i]
      /\ m[v + 1] = line
  BY <1>1, ListedAppend
<1>3. /\ \A i \in 1..v : IsLine(l[i], t)
      /\ \A i \in 1..v, j \in 1..v : i < j => l[i].t <= l[j].t
  BY DEF IsLog
<1> HIDE DEF m, v
<1>4. IsLine(line, t)
  BY DEF IsLine
<1>5. ASSUME NEW i \in 1..v + 1 PROVE IsLine(m[i], t)
  <2>1. i \in 1..v \/ i = v + 1
    BY <1>2, <1>5
  <2> QED
    BY <1>2, <1>3, <1>4, <2>1
<1>6. ASSUME NEW i \in 1..v + 1, NEW j \in 1..v + 1, i < j PROVE m[i].t <= m[j].t
  <2>1. i \in 1..v /\ (j \in 1..v \/ j = v + 1)
    BY <1>2, <1>6
  <2>2. CASE j \in 1..v
    BY <1>2, <1>3, <1>6, <2>1, <2>2
  <2>3. CASE j = v + 1
    <3>1. m[i] = l[i] /\ m[j] = line /\ IsLine(l[i], t)
      BY <1>2, <1>3, <2>1, <2>3
    <3> QED
      BY <3>1 DEF IsLine
  <2> QED
    BY <2>1, <2>2, <2>3
<1>7. IsLog(m, t)
  BY <1>2, <1>5, <1>6 DEF IsLog
<1> QED
  BY <1>7 DEF m

LEMMA LogLater ==
    ASSUME NEW l, NEW t \in Nat, NEW u \in Nat, t <= u, IsLog(l, t)
    PROVE  IsLog(l, u)
<1>1. \A i \in 1..Len(l) : IsLine(l[i], u)
  BY DEF IsLog, IsLine
<1> QED
  BY <1>1 DEF IsLog

LEMMA LinesMade ==
    ASSUME NEW c, NEW xid, NEW q, NEW a
    PROVE  /\ CallLine(c, xid, q).kind = "C3" /\ CallLine(c, xid, q).t = now
           /\ ReplyLine(c, xid, q, a).kind = "R3" /\ ReplyLine(c, xid, q, a).t = now
           /\ {"kind", "t"} \subseteq DOMAIN ReplyLine(c, xid, q, a)
<1>1. CallLine(c, xid, q).kind = "C3" /\ CallLine(c, xid, q).t = now
  BY DEF CallLine
<1>2. /\ ReplyLine(c, xid, q, a).kind = "R3" /\ ReplyLine(c, xid, q, a).t = now
      /\ {"kind", "t"} \subseteq DOMAIN ReplyLine(c, xid, q, a)
  BY DEF ReplyLine
<1> QED
  BY <1>1, <1>2

\* The trace begins with what was mounted before.
LEMMA MountedLog ==
    ASSUME now = 0, NEW v \in Nat, NEW s, NEW who, NEW ok,
           \A i \in 1..v : s[i] = <<CallLine(who[i], 1, mnt), ReplyLine(who[i], 1, mnt, ok)>>
    PROVE  IsLog(FlattenSeq(Firsts(s, v)), 0)
<1> DEFINE Given(l) == Listed(l) /\ \A i \in 1..Len(l) : l[i].kind \in {"C3", "R3"} /\ l[i].t = 0
           T == {k \in Nat : k <= v => Given(FlattenSeq(Firsts(s, k)))}
<1>1. 0 \in T
  <2>1. FlattenSeq(Firsts(s, 0)) = <<>>
    BY FlattenNone
  <2>2. Given(<<>>)
    BY DEF Listed
  <2> QED
    BY <2>1, <2>2
<1>2. ASSUME NEW k \in Nat, k \in T PROVE k + 1 \in T
  <2> SUFFICES ASSUME k + 1 <= v PROVE Given(FlattenSeq(Firsts(s, k + 1)))
    OBVIOUS
  <2> DEFINE call == CallLine(who[k + 1], 1, mnt)
             reply == ReplyLine(who[k + 1], 1, mnt, ok)
             both == <<call, reply>>
             old == FlattenSeq(Firsts(s, k))
  <2>1. s[k + 1] = both /\ k <= v
    OBVIOUS
  <2>2. call.kind = "C3" /\ call.t = 0 /\ reply.kind = "R3" /\ reply.t = 0
    BY LinesMade
  <2>3. Given(old)
    BY <1>2, <2>1
  <2> HIDE DEF call, reply
  <2>4. both \in Seq({call, reply}) /\ Len(both) = 2 /\ both[1] = call /\ both[2] = reply
    OBVIOUS
  <2>5. Listed(both)
    BY <2>4, InListed
  <2> HIDE DEF old, both
  <2>6. FlattenSeq(Firsts(s, k + 1)) = old \o both
    <3>1. k = 0 => s[1] \in Seq({call, reply})
      BY <2>1, <2>4
    <3>2. FlattenSeq(Firsts(s, k + 1)) = FlattenSeq(Firsts(s, k)) \o s[k + 1]
      BY <3>1, FlattenMore
    <3> QED
      BY <2>1, <3>2 DEF old
  <2>7. /\ Listed(old \o both) /\ Len(old \o both) = Len(old) + 2 /\ Len(old) \in Nat
        /\ \A i \in 1..(Len(old) + 2) : (old \o both)[i] = IF i <= Len(old) THEN old[i] ELSE both[i - Len(old)]
    <3>1. Listed(old) /\ Listed(both) /\ Len(both) = 2
      BY <2>3, <2>4, <2>5
    <3>2. Len(old) \in Nat
      BY <3>1 DEF Listed
    <3>3. /\ Listed(old \o both) /\ Len(old \o both) = Len(old) + Len(both)
          /\ \A i \in 1..(Len(old) + Len(both)) :
                (old \o both)[i] = IF i <= Len(old) THEN old[i] ELSE both[i - Len(old)]
      BY <3>1, ListedJoin
    <3> QED
      BY <3>1, <3>2, <3>3
  <2>8. ASSUME NEW i \in 1..(Len(old) + 2)
        PROVE  (old \o both)[i].kind \in {"C3", "R3"} /\ (old \o both)[i].t = 0
    <3>1. CASE i <= Len(old)
      BY <2>3, <2>7, <2>8, <3>1
    <3>2. CASE i = Len(old) + 1
      <4>1. i - Len(old) = 1 /\ ~ (i <= Len(old))
        BY <2>7, <3>2
      <4>2. (old \o both)[i] = call
        BY <2>4, <2>7, <2>8, <4>1
      <4> QED
        BY <2>2, <4>2
    <3>3. CASE i = Len(old) + 2
      <4>1. i - Len(old) = 2 /\ ~ (i <= Len(old))
        BY <2>7, <3>3
      <4>2. (old \o both)[i] = reply
        BY <2>4, <2>7, <2>8, <4>1
      <4> QED
        BY <2>2, <4>2
    <3>4. i <= Len(old) \/ i = Len(old) + 1 \/ i = Len(old) + 2
      BY <2>7, <2>8
    <3> QED
      BY <3>1, <3>2, <3>3, <3>4
  <2> QED
    BY <2>6, <2>7, <2>8
<1> HIDE DEF T
<1>3. Nat \subseteq T
  BY <1>1, <1>2, Counting
<1>4. Given(FlattenSeq(Firsts(s, v)))
  BY <1>3 DEF T
<1> QED
  BY <1>4 DEF IsLog, IsLine

\* What is under way: no operation is called "done", and a client whose operation is
\* done has its reply.
LEMMA RequestsGoOn == \A r \in Requests : r.op # "done"
<1> DEFINE Ops == {"mnt", "unknown", "readdirp", "lookup", "create", "mkdir", "remove", "link", "rename"}
<1>1. ASSUME NEW r \in Requests
      PROVE  \E op \in Ops : \E fh, name, fh2, name2 : r = Request(op, fh, name, fh2, name2)
  <2> DEFINE R1 == {Request("unknown", Absent, Absent, Absent, Absent)}
             R2 == {Request("readdirp", d, Absent, Absent, Absent) : d \in AliveDirs}
             R3 == {Request("lookup", d, v, Absent, Absent) : d \in AliveDirs, v \in FileNames}
             R4 == {Request("lookup", d, IF d = Root THEN "." ELSE "..", Absent, Absent) : d \in AliveDirs}
             R5 == UNION {{Request(op, d, v, Absent, Absent) : op \in {"create", "mkdir"}, v \in Free(d)} :
                              d \in AliveDirs}
             R6 == {Request("remove", e[1], e[2], Absent, Absent) : e \in tree}
             R7 == UNION {{Request("link", f, Absent, d, v) : v \in Free(d)} :
                              d \in AliveDirs, f \in {g \in Files : Alive(g)}}
             R8 == UNION {{Request("rename", e[1], e[2], d, v) : v \in Free(d)} : d \in AliveDirs, e \in tree}
  <2>1. Requests = {mnt} \cup R1 \cup R2 \cup R3 \cup R4 \cup R5 \cup R6 \cup R7 \cup R8
    BY DEF Requests
  <2>2. CASE r \in {mnt} \cup R1
    BY <2>2, Zenon DEF mnt
  <2>3. CASE r \in R2
    BY <2>3, Zenon
  <2>4. CASE r \in R3
    BY <2>4
  <2>5. CASE r \in R4
    BY <2>5, Zenon
  <2>6. CASE r \in R5
    BY <2>6
  <2>7. CASE r \in R6
    BY <2>7, Zenon
  <2>8. CASE r \in R7
    BY <2>8
  <2>9. CASE r \in R8
    BY <2>9
  <2> HIDE DEF R1, R2, R3, R4, R5, R6, R7, R8
  <2> QED
    BY <1>1, <2>1, <2>2, <2>3, <2>4, <2>5, <2>6, <2>7, <2>8, <2>9
<1>2. ASSUME NEW op \in Ops, NEW fh, NEW name, NEW fh2, NEW name2
      PROVE  Request(op, fh, name, fh2, name2).op # "done"
  BY <1>2 DEF Request
<1> QED
  BY <1>1, <1>2

Replied(f) == f.op = "done" => f.line.kind = "R3" /\ {"kind", "t"} \subseteq DOMAIN f.line

LogInv ==
    /\ now \in Nat /\ IsLog(log, now)
    /\ flying = [c \in Clients |-> flying[c]]
    /\ \A c \in Clients : Replied(flying[c])

LEMMA InitLog == ASSUME TraceInit PROVE LogInv
<1>1. now = 0 /\ now \in Nat /\ flying = [c \in Clients |-> [op |-> "none"]]
  BY DEF TraceInit
<1>2. IsLog(log, now)
  <2> DEFINE v == Cardinality(world.mounted)
             who == SetToSeq(world.mounted)
             ok == Ok(tree, <<<<"", Root>>>>)
             s == [i \in 1..v |-> LET m == who[i] IN  <<CallLine(m, 1, mnt), ReplyLine(m, 1, mnt, ok)>>]
  <2>1. v \in Nat
    <3>1. world \in Worlds
      BY DEF TraceInit
    <3>2. world.mounted \subseteq Clients /\ IsFiniteSet(Clients)
      BY <3>1, TraceAssumption
    <3>3. IsFiniteSet(world.mounted)
      BY <3>2, FS_Subset
    <3> QED
      BY <3>3, FS_CardinalityType
  <2>2. log = FlattenSeq(s)
    BY DEF TraceInit
  <2> HIDE DEF v, who, ok
  <2>3. s = Firsts(s, v)
    BY DEF Firsts
  <2>4. \A i \in 1..v : s[i] = <<CallLine(who[i], 1, mnt), ReplyLine(who[i], 1, mnt, ok)>>
    OBVIOUS
  <2> HIDE DEF s
  <2>5. IsLog(FlattenSeq(Firsts(s, v)), 0)
    BY <1>1, <2>1, <2>4, MountedLog
  <2> QED
    BY <1>1, <2>2, <2>3, <2>5
<1>3. ASSUME NEW c \in Clients PROVE Replied(flying[c])
  BY <1>1 DEF Replied
<1>4. flying = [c \in Clients |-> flying[c]]
  BY <1>1
<1> QED
  BY <1>1, <1>2, <1>3, <1>4 DEF LogInv

LEMMA Flies ==
    ASSUME LogInv, NEW c \in Clients, NEW f, Replied(f), flying' = [flying EXCEPT ![c] = f]
    PROVE  flying' = [d \in Clients |-> flying'[d]] /\ \A d \in Clients : Replied(flying'[d])
<1>1. flying = [d \in Clients |-> flying[d]] /\ \A d \in Clients : Replied(flying[d])
  BY DEF LogInv
<1>2. flying' = [d \in Clients |-> IF d = c THEN f ELSE flying[d]]
  BY <1>1
<1> QED
  BY <1>1, <1>2

LEMMA SeenLog ==
    ASSUME LogInv, NEW line, line.kind \in {"C3", "R3"}, line.t = now, now' = now,
           log' = Append(log, line) \/ log' = log
    PROVE  now' \in Nat /\ IsLog(log', now')
  BY LogMore DEF LogInv

LEMMA TraceLog ==
    ASSUME LogInv, TraceNext
    PROVE  LogInv'
<1>1. now \in Nat /\ IsLog(log, now)
  BY DEF LogInv
<1>2. CASE Pause
  <2>1. now' \in Nat /\ now <= now'
    BY <1>1, <1>2, TraceAssumption DEF Pause
  <2>2. log' = log /\ flying' = flying
    BY <1>2 DEF Pause
  <2>3. IsLog(log, now')
    BY <1>1, <2>1, LogLater
  <2> QED
    BY <2>1, <2>2, <2>3 DEF LogInv
<1>3. ASSUME NEW c \in Clients, Call(c) PROVE LogInv'
  <2>1. PICK q \in Requests : flying' = [flying EXCEPT ![c] = q] /\ Seen(CallLine(c, ops[c] + 1, q))
    BY <1>3 DEF Call
  <2>2. now' = now
    BY <1>3 DEF Call
  <2> DEFINE line == CallLine(c, ops[c] + 1, q)
  <2>3. line.kind = "C3" /\ line.t = now
    BY LinesMade
  <2>4. log' = Append(log, line) \/ log' = log
    BY <2>1 DEF Seen
  <2>5. Replied(q)
    BY RequestsGoOn DEF Replied
  <2> HIDE DEF line
  <2>6. now' \in Nat /\ IsLog(log', now')
    BY <2>2, <2>3, <2>4, SeenLog
  <2>7. flying' = [d \in Clients |-> flying'[d]] /\ \A d \in Clients : Replied(flying'[d])
    BY <2>1, <2>5, Flies
  <2> QED
    BY <2>6, <2>7 DEF LogInv, Replied
<1>4. ASSUME NEW c \in Clients, Reply(c) PROVE LogInv'
  <2>1. PICK a : LET line == ReplyLine(c, ops[c], flying[c], a)
                 IN  Seen(line) /\ flying' = [flying EXCEPT ![c] = [op |-> "done", line |-> line]]
    BY <1>4 DEF Reply
  <2>2. now' = now
    BY <1>4 DEF Reply
  <2> DEFINE line == ReplyLine(c, ops[c], flying[c], a)
             f == [op |-> "done", line |-> line]
  <2>3. line.kind = "R3" /\ line.t = now /\ {"kind", "t"} \subseteq DOMAIN line
    BY LinesMade
  <2>4. log' = Append(log, line) \/ log' = log
    BY <2>1 DEF Seen
  <2>5. flying' = [flying EXCEPT ![c] = f]
    BY <2>1
  <2> HIDE DEF line
  <2>6. Replied(f)
    BY <2>3 DEF Replied
  <2> HIDE DEF f
  <2>7. now' \in Nat /\ IsLog(log', now')
    BY <2>2, <2>3, <2>4, SeenLog
  <2>8. flying' = [d \in Clients |-> flying'[d]] /\ \A d \in Clients : Replied(flying'[d])
    BY <2>5, <2>6, Flies
  <2> QED
    BY <2>7, <2>8 DEF LogInv, Replied
<1>5. ASSUME NEW c \in Clients, Retransmit(c) PROVE LogInv'
  <2> DEFINE line == CallLine(c, ops[c], flying[c])
  <2>1. now' = now /\ flying' = flying /\ log' = Append(log, line)
    BY <1>5 DEF Retransmit, Repeated
  <2>2. line.kind = "C3" /\ line.t = now
    BY LinesMade
  <2> HIDE DEF line
  <2>3. now' \in Nat /\ IsLog(log', now')
    BY <2>1, <2>2, SeenLog
  <2> QED
    BY <2>1, <2>3 DEF LogInv
<1>6. ASSUME NEW c \in Clients, ReplyAgain(c) PROVE LogInv'
  <2> DEFINE old == flying[c].line
             line == [old EXCEPT !.t = now]
  <2>1. now' = now /\ flying' = flying /\ log' = Append(log, line) /\ flying[c].op = "done"
    BY <1>6 DEF ReplyAgain, Repeated
  <2>2. old.kind = "R3" /\ {"kind", "t"} \subseteq DOMAIN old
    BY <2>1 DEF LogInv, Replied
  <2> HIDE DEF old
  <2>3. line.kind = "R3" /\ line.t = now
    BY <2>2
  <2> HIDE DEF line
  <2>4. now' \in Nat /\ IsLog(log', now')
    BY <2>1, <2>3, SeenLog
  <2> QED
    BY <2>1, <2>4 DEF LogInv
<1> QED
  BY <1>2, <1>3, <1>4, <1>5, <1>6 DEF TraceNext
-----------------------------------------------------------------------------
\* The Parser's pending calls.

\* A call that the filter lets through and that is remembered.
IsCall(row) == row.kind = "C3" /\ row.op # "unknown" /\ row.client = Argv

\* A row leaves a call pending: it is not its reply, nor a later call with the same key,
\* nor one that comes too late.
Leaves(row, call) ==
    IF row.kind = "R3" THEN Key(row) # Key(call)
    ELSE IsCall(row) => Key(row) # Key(call) /\ row.t - call.t <= callLifetime

\* Call j of a log is pending after p rows.
Pending(l, j, p) == j \in 1..p /\ IsCall(l[j]) /\ \A k \in j + 1..p : Leaves(l[k], l[j])

\* calls has the pending calls under their keys, and nothing else, and a row that comes
\* is not older than the last cleanup.
Remembers(c, l, p) ==
    /\ \A k \in DOMAIN c : \E j \in 1..p : Pending(l, j, p) /\ Key(l[j]) = k
    /\ \A j \in 1..p : Pending(l, j, p) => Key(l[j]) \in DOMAIN c /\ c[Key(l[j])] = l[j]
Cleaned(t, l, p) == t \in Int /\ \A i \in p + 1..Len(l) : t <= l[i].t

LEMMA PendingMore ==
    ASSUME NEW l, NEW p \in Nat, NEW j \in 1..p + 1
    PROVE  Pending(l, j, p + 1) <=> \/ j = p + 1 /\ IsCall(l[j])
                                    \/ j \in 1..p /\ Pending(l, j, p) /\ Leaves(l[p + 1], l[j])
<1>1. CASE j = p + 1
  <2>1. j + 1..p + 1 = {} /\ ~ (j \in 1..p)
    BY <1>1
  <2> QED
    BY <1>1, <2>1 DEF Pending
<1>2. CASE j # p + 1
  <2>1. j \in 1..p /\ j + 1..p + 1 = (j + 1..p) \cup {p + 1}
    BY <1>2
  <2> QED
    BY <1>2, <2>1 DEF Pending
<1> QED
  BY <1>1, <1>2

\* What the next row does to calls.
LEMMA RememberMore ==
    ASSUME NEW l, NEW p \in Nat, NEW c, NEW d, Remembers(c, l, p),
           \A j \in 1..p : Pending(l, j, p) /\ Leaves(l[p + 1], l[j]) =>
                               Key(l[j]) \in DOMAIN d /\ d[Key(l[j])] = l[j],
           IsCall(l[p + 1]) => Key(l[p + 1]) \in DOMAIN d /\ d[Key(l[p + 1])] = l[p + 1],
           \A k \in DOMAIN d : \/ IsCall(l[p + 1]) /\ k = Key(l[p + 1])
                               \/ /\ k \in DOMAIN c
                                  /\ \A j \in 1..p : Pending(l, j, p) /\ Key(l[j]) = k =>
                                                         Leaves(l[p + 1], l[j])
    PROVE  Remembers(d, l, p + 1)
<1>1. 1..p + 1 = 1..p \cup {p + 1} /\ p + 1 \in 1..p + 1
  OBVIOUS
<1>2. \A j \in 1..p + 1 : Pending(l, j, p + 1) <=>
                              \/ j = p + 1 /\ IsCall(l[j])
                              \/ j \in 1..p /\ Pending(l, j, p) /\ Leaves(l[p + 1], l[j])
  BY PendingMore
<1>3. ASSUME NEW k \in DOMAIN d PROVE \E j \in 1..p + 1 : Pending(l, j, p + 1) /\ Key(l[j]) = k
  <2>1. CASE IsCall(l[p + 1]) /\ k = Key(l[p + 1])
    BY <1>1, <1>2, <2>1
  <2>2. CASE /\ k \in DOMAIN c
             /\ \A j \in 1..p : Pending(l, j, p) /\ Key(l[j]) = k => Leaves(l[p + 1], l[j])
    <3>1. PICK j \in 1..p : Pending(l, j, p) /\ Key(l[j]) = k
      BY <2>2 DEF Remembers
    <3>2. Leaves(l[p + 1], l[j])
      BY <2>2, <3>1
    <3> QED
      BY <1>1, <1>2, <3>1, <3>2
  <2> QED
    BY <1>3, <2>1, <2>2
<1>4. ASSUME NEW j \in 1..p + 1, Pending(l, j, p + 1)
      PROVE  Key(l[j]) \in DOMAIN d /\ d[Key(l[j])] = l[j]
  BY <1>2, <1>4
<1> QED
  BY <1>3, <1>4 DEF Remembers

LEMMA KeyEqual == \A a, b : Key(a) = Key(b) <=> a.client = b.client /\ a.xid = b.xid
  BY DEF Key

\* The rows of a log.
LEMMA RowTimes ==
    ASSUME NEW l, NEW t \in Nat, IsLog(l, t), NEW j \in 1..Len(l)
    PROVE  /\ l[j].t \in Nat /\ l[j].kind \in {"C3", "R3"} /\ Len(l) \in Nat
           /\ \A i \in 1..Len(l) : j < i => l[j].t <= l[i].t
  BY DEF IsLog, IsLine, Listed

\* The cleanup forgets the calls that are too old, and no others (nfsdump.func.js:49).
LEMMA CallRemembered ==
    ASSUME NEW p \in Nat, NEW row, p < Len(log), row = log[p + 1], LogInv,
           Remembers(calls, log, p), Cleaned(nextCleanup, log, p),
           row.kind = "C3", row.client = Argv, processCall(row)
    PROVE  Remembers(calls', log, p + 1) /\ Cleaned(nextCleanup', log, p + 1)
<1>1. Len(log) \in Nat /\ p + 1 \in 1..Len(log) /\ p + 1 \in p + 1..Len(log) /\ now \in Nat /\ IsLog(log, now)
  BY DEF LogInv, IsLog, Listed
<1>2. row.t \in Nat /\ \A i \in 1..Len(log) : p + 1 < i => row.t <= log[i].t
  BY <1>1, RowTimes
<1>3. nextCleanup \in Int /\ nextCleanup <= row.t
  BY <1>1 DEF Cleaned
<1>4. CASE row.op = "unknown"
  <2>1. calls' = calls /\ nextCleanup' = nextCleanup /\ ~ IsCall(row) /\ row.kind # "R3"
    BY <1>4 DEF processCall, IsCall
  <2>2. \A call : Leaves(row, call)
    BY <2>1 DEF Leaves
  <2>3. \A j \in 1..p : Pending(log, j, p) => Key(log[j]) \in DOMAIN calls /\ calls[Key(log[j])] = log[j]
    BY DEF Remembers
  <2>4. Remembers(calls, log, p + 1)
    BY <2>1, <2>2, <2>3, RememberMore
  <2>5. \A i \in (p + 1) + 1..Len(log) : i \in p + 1..Len(log)
    BY <1>1
  <2>6. Cleaned(nextCleanup, log, p + 1)
    BY <2>5 DEF Cleaned
  <2> QED
    BY <2>1, <2>4, <2>6
<1>5. CASE row.op # "unknown"
  <2>1. IsCall(row) /\ row.kind # "R3"
    BY <1>5 DEF IsCall
  <2>2. nextCleanup' = row.t
        /\ calls' = [k \in Kept(row.t) \cup {Key(row)} |-> IF k = Key(row) THEN row ELSE calls[k]]
    BY <1>2, <1>3, <1>5 DEF processCall
  <2> DEFINE d == calls'
  <2>3. \A k : k \in DOMAIN d <=> k \in Kept(row.t) \/ k = Key(row)
    BY <2>2
  <2>4. \A k \in DOMAIN d : d[k] = IF k = Key(row) THEN row ELSE calls[k]
    BY <2>2
  <2> HIDE DEF d
  <2>5. ASSUME NEW j \in 1..p, Pending(log, j, p)
        PROVE  /\ Key(log[j]) \in DOMAIN calls /\ calls[Key(log[j])] = log[j]
               /\ Leaves(row, log[j]) <=> Key(row) # Key(log[j]) /\ Key(log[j]) \in Kept(row.t)
    <3>1. Key(log[j]) \in DOMAIN calls /\ calls[Key(log[j])] = log[j]
      BY <2>5 DEF Remembers
    <3>2. log[j].t \in Nat
      <4>1. j \in 1..Len(log)
        BY <1>1
      <4> QED
        BY <1>1, <4>1, RowTimes
    <3>3. callLifetime \in Nat
      BY PathTreeAssumption
    <3>4. Key(log[j]) \in Kept(row.t) <=> row.t - log[j].t <= callLifetime
      <4>1. Key(log[j]) \in Kept(row.t) <=> log[j].t >= row.t - callLifetime
        BY <3>1 DEF Kept
      <4> QED
        BY <1>2, <3>2, <3>3, <4>1
    <3>5. Leaves(row, log[j]) <=> Key(row) # Key(log[j]) /\ row.t - log[j].t <= callLifetime
      BY <2>1 DEF Leaves
    <3> QED
      BY <3>1, <3>4, <3>5
  <2>6. ASSUME NEW j \in 1..p, Pending(log, j, p), Leaves(row, log[j])
        PROVE  Key(log[j]) \in DOMAIN d /\ d[Key(log[j])] = log[j]
    BY <2>3, <2>4, <2>5, <2>6
  <2>7. Key(row) \in DOMAIN d /\ d[Key(row)] = row
    BY <2>3, <2>4
  <2>8. ASSUME NEW k \in DOMAIN d, k # Key(row)
        PROVE  /\ k \in DOMAIN calls
               /\ \A j \in 1..p : Pending(log, j, p) /\ Key(log[j]) = k => Leaves(row, log[j])
    <3>1. k \in Kept(row.t)
      BY <2>3, <2>8
    <3>2. k \in DOMAIN calls
      BY <3>1 DEF Kept
    <3>3. ASSUME NEW j \in 1..p, Pending(log, j, p), Key(log[j]) = k PROVE Leaves(row, log[j])
      BY <2>5, <2>8, <3>1, <3>3
    <3> QED
      BY <3>2, <3>3
  <2>9. Remembers(d, log, p + 1)
    BY <2>1, <2>6, <2>7, <2>8, RememberMore
  <2>10. Cleaned(nextCleanup', log, p + 1)
    <3>1. \A i \in (p + 1) + 1..Len(log) : i \in 1..Len(log) /\ p + 1 < i
      BY <1>1
    <3>2. row.t \in Int /\ \A i \in (p + 1) + 1..Len(log) : row.t <= log[i].t
      BY <1>2, <3>1
    <3> QED
      BY <2>2, <3>2 DEF Cleaned
  <2> QED
    BY <2>9, <2>10 DEF d
<1> QED
  BY <1>4, <1>5

LEMMA CleanedMore ==
    ASSUME NEW p \in Nat, LogInv, Cleaned(nextCleanup, log, p)
    PROVE  Cleaned(nextCleanup, log, p + 1)
<1>1. Len(log) \in Nat
  BY DEF LogInv, IsLog, Listed
<1>2. \A i \in (p + 1) + 1..Len(log) : i \in p + 1..Len(log)
  BY <1>1
<1> QED
  BY <1>2 DEF Cleaned

\* A reply takes its call away.
LEMMA ReplyRemembered ==
    ASSUME NEW p \in Nat, NEW row, row = log[p + 1], LogInv,
           Remembers(calls, log, p), Cleaned(nextCleanup, log, p),
           row.kind = "R3", TakeCall(row)
    PROVE  Remembers(calls', log, p + 1) /\ Cleaned(nextCleanup', log, p + 1)
<1> DEFINE d == calls'
<1>1. /\ \A k : k \in DOMAIN d <=> k \in DOMAIN calls /\ k # Key(row)
      /\ \A k \in DOMAIN d : d[k] = calls[k]
      /\ nextCleanup' = nextCleanup
  BY DEF TakeCall
<1>2. ~ IsCall(row) /\ \A call : Leaves(row, call) <=> Key(row) # Key(call)
  BY DEF IsCall, Leaves
<1> HIDE DEF d
<1>3. ASSUME NEW j \in 1..p, Pending(log, j, p), Leaves(row, log[j])
      PROVE  Key(log[j]) \in DOMAIN d /\ d[Key(log[j])] = log[j]
  BY <1>1, <1>2, <1>3 DEF Remembers
<1>4. ASSUME NEW k \in DOMAIN d
      PROVE  /\ k \in DOMAIN calls
             /\ \A j \in 1..p : Pending(log, j, p) /\ Key(log[j]) = k => Leaves(row, log[j])
  BY <1>1, <1>2, <1>4
<1>5. Remembers(d, log, p + 1)
  BY <1>2, <1>3, <1>4, RememberMore
<1> QED
  BY <1>1, <1>5, CleanedMore DEF d

\* Nothing changes at a call that is not wanted, or a reply without a call.
LEMMA OtherRemembered ==
    ASSUME NEW p \in Nat, NEW row, row = log[p + 1], LogInv,
           Remembers(calls, log, p), Cleaned(nextCleanup, log, p),
           row.kind = "C3" => row.client # Argv,
           row.kind = "R3" => ~ (Key(row) \in DOMAIN calls),
           calls' = calls, nextCleanup' = nextCleanup
    PROVE  Remembers(calls', log, p + 1) /\ Cleaned(nextCleanup', log, p + 1)
<1>1. ~ IsCall(row)
  BY DEF IsCall
<1>2. ASSUME NEW j \in 1..p, Pending(log, j, p)
      PROVE  Leaves(row, log[j]) /\ Key(log[j]) \in DOMAIN calls /\ calls[Key(log[j])] = log[j]
  BY <1>1, <1>2 DEF Remembers, Leaves
<1>3. Remembers(calls, log, p + 1)
  BY <1>1, <1>2, RememberMore
<1> QED
  BY <1>3, CleanedMore

\* What the Parser finds is what the log says: a reply has a call if and only if the last
\* call with its key is its pair.
LEMMA LastCall ==
    ASSUME NEW p \in Nat, NEW row, p < Len(log), row = log[p + 1], row.kind = "R3", LogInv,
           Remembers(calls, log, p)
    PROVE  /\ Paired(p + 1, {Argv}) <=> HasCall(row)
           /\ HasCall(row) => log[Max(CallsOf(p + 1, {Argv}))] = calls[Key(row)]
<1> DEFINE S == CallsOf(p + 1, {Argv})
           m == Max(S)
<1>1. \A j : j \in S <=> j \in 1..p /\ IsCall(log[j]) /\ Key(log[j]) = Key(row)
  <2>1. 1..(p + 1) - 1 = 1..p
    OBVIOUS
  <2> QED
    BY <2>1, KeyEqual DEF CallsOf, IsCall
<1>2. S \subseteq 1..p
  BY <1>1
<1>3. Paired(p + 1, {Argv}) <=>
          /\ S # {}
          /\ \A k \in m + 1..p :
                IF log[k].kind = "R3" THEN Key(log[k]) # Key(row)
                ELSE log[k].op # "unknown" /\ log[k].client = Argv => log[k].t - log[m].t <= callLifetime
  <2>1. m + 1..(p + 1) - 1 = m + 1..p
    OBVIOUS
  <2> QED
    BY <2>1, KeyEqual DEF Paired
<1> HIDE DEF S
<1>4. S # {} => m \in S /\ \A y \in S : m >= y
  BY <1>2, Greatest
<1> HIDE DEF m
<1>5. \A k \in 1..p : log[k].kind \in {"C3", "R3"}
  <2>1. now \in Nat /\ IsLog(log, now) /\ Len(log) \in Nat
    BY DEF LogInv, IsLog, Listed
  <2>2. \A k \in 1..p : k \in 1..Len(log)
    BY <2>1
  <2> QED
    BY <2>1, <2>2, RowTimes
<1>6. ASSUME Paired(p + 1, {Argv}) PROVE HasCall(row) /\ log[m] = calls[Key(row)]
  <2>1. m \in 1..p /\ IsCall(log[m]) /\ Key(log[m]) = Key(row) /\ \A y \in S : m >= y
    BY <1>1, <1>3, <1>4, <1>6
  <2>2. ASSUME NEW k \in m + 1..p PROVE Leaves(log[k], log[m])
    <3>1. k \in 1..p /\ ~ (m >= k)
      BY <2>1, <2>2
    <3>2. ~ (k \in S)
      BY <2>1, <3>1
    <3>3. CASE log[k].kind = "R3"
      BY <1>3, <1>6, <2>1, <2>2, <3>3 DEF Leaves
    <3>4. CASE log[k].kind = "C3"
      <4>1. IsCall(log[k]) => log[k].t - log[m].t <= callLifetime
        BY <1>3, <1>6, <2>2, <3>4 DEF IsCall
      <4>2. IsCall(log[k]) => Key(log[k]) # Key(log[m])
        BY <1>1, <2>1, <3>1, <3>2
      <4> QED
        BY <3>4, <4>1, <4>2 DEF Leaves
    <3> QED
      BY <1>5, <3>1, <3>3, <3>4
  <2>3. Pending(log, m, p)
    BY <2>1, <2>2 DEF Pending
  <2> QED
    BY <2>1, <2>3 DEF Remembers, HasCall
<1>7. ASSUME HasCall(row) PROVE Paired(p + 1, {Argv}) /\ log[m] = calls[Key(row)]
  <2>1. PICK j \in 1..p : Pending(log, j, p) /\ Key(log[j]) = Key(row)
    BY <1>7 DEF Remembers, HasCall
  <2>2. j \in S
    BY <1>1, <2>1 DEF Pending
  <2>3. m \in S /\ m >= j /\ m \in 1..p /\ IsCall(log[m]) /\ Key(log[m]) = Key(row)
    BY <1>1, <1>4, <2>2
  <2>4. m = j
    <3>1. SUFFICES ASSUME m # j PROVE FALSE
      OBVIOUS
    <3>2. m \in j + 1..p
      BY <2>1, <2>3, <3>1
    <3>3. Leaves(log[m], log[j])
      BY <2>1, <3>2 DEF Pending
    <3>4. log[m].kind # "R3"
      BY <2>3 DEF IsCall
    <3> QED
      BY <2>1, <2>3, <3>3, <3>4 DEF Leaves
  <2>5. \A k \in m + 1..p : Leaves(log[k], log[m])
    BY <2>1, <2>4 DEF Pending
  <2>6. ASSUME NEW k \in m + 1..p
        PROVE  IF log[k].kind = "R3" THEN Key(log[k]) # Key(row)
               ELSE log[k].op # "unknown" /\ log[k].client = Argv => log[k].t - log[m].t <= callLifetime
    <3>1. k \in 1..p
      BY <2>3, <2>6
    <3>2. log[k].kind # "R3" => log[k].kind = "C3"
      BY <1>5, <3>1
    <3> QED
      BY <2>3, <2>5, <2>6, <3>2 DEF Leaves, IsCall
  <2>7. Paired(p + 1, {Argv})
    BY <1>3, <2>2, <2>6
  <2>8. log[m] = calls[Key(row)]
    BY <2>1, <2>4 DEF Remembers
  <2> QED
    BY <2>7, <2>8
<1> QED
  BY <1>6, <1>7 DEF m, S
-----------------------------------------------------------------------------
\* What should be written of each row, and of the first of them.
Item(i) == IF Paired(i, {Argv}) THEN Operation(i) ELSE <<>>
Items == [i \in DOMAIN log |-> Item(i)]
Output(v) == FlattenSeq(Firsts(Items, v))

\* What the answer to query q adds.
Answered(q) ==
    LET path == processResult(Fullpath(q.fh)) IN IF path = <<>> THEN <<>> ELSE <<Row(q, path)>>
Heard(fh) == csvRow(serveSocket(fh)) = Fullpath(fh)
QueryOf(call, row) ==
    LET q == Query(call, row) IN [fh |-> q.fh, append |-> q.append, t |-> call.t, op |-> row.op]

LEMMA OutputsKept ==
    ASSUME log' = log, table' = table
    PROVE  /\ Items' = Items /\ \A q : Answered(q)' = Answered(q)
           /\ (\A fh : Heard(fh)' <=> Heard(fh)) /\ (Legible' <=> Legible)
<1>1. \A i, who : CallsOf(i, who)' = CallsOf(i, who)
  BY DEF CallsOf
<1>2. \A i, who : Paired(i, who)' <=> Paired(i, who)
  BY <1>1 DEF Paired
<1>3. \A fh : Fullpath(fh)' = Fullpath(fh)
  BY DEF Fullpath
<1>4. \A i : QueryAt(i)' = QueryAt(i)
  BY <1>1 DEF QueryAt
<1>8. \A i : Operation(i)' = Operation(i)
  BY <1>1, <1>3, <1>4 DEF Operation
<1>5. \A i : Item(i)' = Item(i)
  BY <1>2, <1>8 DEF Item
<1>6. Items' = Items
  BY <1>5 DEF Items
<1>7. \A q : Answered(q)' = Answered(q)
  BY <1>3 DEF Answered
<1>9. \A fh : serveSocket(fh)' = serveSocket(fh)
  BY <1>3 DEF serveSocket
<1>10. \A fh : Heard(fh)' <=> Heard(fh)
  BY <1>3, <1>9 DEF Heard
<1>11. Legible' <=> Legible
  <2>1. {QueryAt(i).fh : i \in {j \in DOMAIN log : Paired(j, {Argv})}}'
        = {QueryAt(i).fh : i \in {j \in DOMAIN log : Paired(j, {Argv})}}
    BY <1>2, <1>4
  <2> QED
    BY <1>3, <1>9, <2>1 DEF Legible
<1> QED
  BY <1>6, <1>7, <1>10, <1>11

LEMMA FirstItem == Item(1) = <<>>
<1>1. CallsOf(1, {Argv}) = {}
  <2>1. 1..1 - 1 = {}
    OBVIOUS
  <2> QED
    BY <2>1 DEF CallsOf
<1> QED
  BY <1>1 DEF Item, Paired

LEMMA OutputMore ==
    ASSUME LogInv, NEW v \in Nat, v < Len(log)
    PROVE  Items[v + 1] = Item(v + 1) /\ Output(v + 1) = Output(v) \o Item(v + 1)
<1>1. Len(log) \in Nat /\ DOMAIN log = 1..Len(log) /\ v + 1 \in 1..Len(log)
  BY DEF LogInv, IsLog, Listed
<1>2. Items[v + 1] = Item(v + 1)
  BY <1>1 DEF Items
<1>3. v = 0 => Items[1] \in Seq({})
  <2>1. v = 0 => v + 1 = 1
    OBVIOUS
  <2>2. v = 0 => Items[1] = <<>>
    BY <1>2, <2>1, FirstItem
  <2>3. <<>> \in Seq({})
    BY EmptySeq
  <2> QED
    BY <2>2, <2>3
<1>4. FlattenSeq(Firsts(Items, v + 1)) = FlattenSeq(Firsts(Items, v)) \o Items[v + 1]
  BY <1>3, FlattenMore
<1> QED
  BY <1>2, <1>4 DEF Output

LEMMA AllOutput ==
    ASSUME LogInv
    PROVE  Output(Len(log)) = FlattenSeq(Items)
<1>1. DOMAIN log = 1..Len(log)
  BY DEF LogInv, IsLog, Listed
<1>2. Firsts(Items, Len(log)) = Items
  BY <1>1 DEF Firsts, Items
<1> QED
  BY <1>2 DEF Output

\* What is written of the row that is read next.
LEMMA NextItem ==
    ASSUME NEW p \in Nat, NEW row, p < Len(log), row = log[p + 1], LogInv, Remembers(calls, log, p)
    PROVE  /\ ~ (row.kind = "R3" /\ HasCall(row)) => Item(p + 1) = <<>>
           /\ row.kind = "R3" /\ HasCall(row) =>
                  /\ Item(p + 1) = IF Query(calls[Key(row)], row) = NoQuery THEN <<>>
                                   ELSE Answered(QueryOf(calls[Key(row)], row))
                  /\ Legible => Heard(Query(calls[Key(row)], row).fh)
<1>1. CASE row.kind = "R3" /\ HasCall(row)
  <2>1. Paired(p + 1, {Argv}) /\ log[Max(CallsOf(p + 1, {Argv}))] = calls[Key(row)]
    BY <1>1, LastCall
  <2> DEFINE call == calls[Key(row)]
             q == Query(call, row)
  <2>2. Item(p + 1) = Operation(p + 1)
    BY <2>1 DEF Item
  <2>7. QueryAt(p + 1) = q
    BY <2>1 DEF QueryAt
  <2>8. Legible => Heard(q.fh)
    <3>1. p + 1 \in DOMAIN log
      BY DEF LogInv, IsLog, Listed
    <3>2. q.fh \in {QueryAt(i).fh : i \in {j \in DOMAIN log : Paired(j, {Argv})}}
      BY <2>1, <2>7, <3>1
    <3> QED
      BY <3>2 DEF Legible, Heard
  <2>3. Operation(p + 1) =
            LET path == processResult(Fullpath(q.fh))
            IN  IF q = NoQuery \/ path = <<>> THEN <<>>
                ELSE <<Row([fh |-> q.fh, append |-> q.append, t |-> call.t, op |-> row.op], path)>>
    BY <2>1, <2>7 DEF Operation
  <2> HIDE DEF q
  <2>4. QueryOf(call, row).fh = q.fh
    BY DEF QueryOf, q
  <2>5. QueryOf(call, row) = [fh |-> q.fh, append |-> q.append, t |-> call.t, op |-> row.op]
    BY DEF QueryOf, q
  <2>6. Operation(p + 1) = IF q = NoQuery THEN <<>> ELSE Answered(QueryOf(call, row))
    BY <2>3, <2>4, <2>5 DEF Answered
  <2> QED
    BY <1>1, <2>2, <2>6, <2>8 DEF q
<1>2. CASE ~ (row.kind = "R3" /\ HasCall(row))
  <2>1. ~ Paired(p + 1, {Argv})
    <3>1. CASE row.kind = "R3"
      BY <1>2, <3>1, LastCall
    <3>2. CASE row.kind # "R3"
      BY <3>2 DEF Paired
    <3> QED
      BY <3>1, <3>2
  <2> QED
    BY <1>2, <2>1 DEF Item
<1> QED
  BY <1>1, <1>2

LEMMA QueryAsks == \A call, row : QueryOf(call, row) # NoQuery
<1> SUFFICES ASSUME NEW call, NEW row PROVE QueryOf(call, row) # NoQuery
  OBVIOUS
<1>1. "op" \in DOMAIN QueryOf(call, row)
  BY DEF QueryOf
<1>2. ~ ("op" \in DOMAIN NoQuery)
  BY DEF NoQuery
<1> QED
  BY <1>1, <1>2
-----------------------------------------------------------------------------
\* Before operations.js runs.
Early == {"trace", "fhparent", "overflow", "served"}
Fresh ==
    /\ avail = 0 /\ reading = FALSE /\ paused = FALSE /\ finished = FALSE
    /\ asked = NoQuery /\ tick = FALSE /\ out = <<>>

\* While it runs: what is read has been written, but for the row whose answer is not
\* there yet; until it is, and the resumption behind it, no row is read.
Replay ==
    /\ pos \in Nat /\ avail \in Nat /\ pos <= avail /\ avail <= Len(log)
    /\ paused \in BOOLEAN /\ tick \in BOOLEAN /\ finished \in BOOLEAN
    /\ asked # NoQuery => paused = TRUE /\ tick = FALSE /\ pos # 0
    /\ tick = TRUE => paused = TRUE
    /\ finished = TRUE => avail = Len(log)
Wrote ==
    /\ Listed(out)
    /\ asked = NoQuery => out = Output(pos)
    /\ asked # NoQuery => out = Output(pos - 1) /\ Items[pos] = Answered(asked) /\ Heard(asked.fh)
Writes == Legible => Wrote
Looks == Remembers(calls, log, pos) /\ Cleaned(nextCleanup, log, pos)

Closed == (Legible => out = FlattenSeq(Items)) /\ asked = NoQuery

ReplayInv ==
    /\ LogInv
    /\ stage \in Early \cup {"operations", "closed"}
    /\ stage \in Early => Fresh
    /\ stage = "operations" => Replay /\ Writes /\ Looks
    /\ stage = "closed" => Closed

\* What is on its way stays as it is if nothing is read, asked or answered.
LEMMA WritesKept ==
    ASSUME Writes, log' = log, table' = table, pos' = pos, asked' = asked, out' = out
    PROVE  Writes'
<1>1. Items' = Items
  BY OutputsKept
<1>2. Output(pos)' = Output(pos) /\ Output(pos - 1)' = Output(pos - 1)
  BY <1>1 DEF Output
<1>3. Answered(asked)' = Answered(asked)
  BY DEF Answered, Fullpath
<1>4. Heard(asked.fh)' <=> Heard(asked.fh)
  BY DEF Heard, Fullpath, serveSocket
<1>5. Legible' <=> Legible
  BY OutputsKept
<1> QED
  BY <1>1, <1>2, <1>3, <1>4, <1>5 DEF Writes, Wrote

LEMMA LooksKept ==
    ASSUME Looks, log' = log, pos' = pos, calls' = calls, nextCleanup' = nextCleanup
    PROVE  Looks'
  BY DEF Looks

\* A row is read.
LEMMA ReadRowStep ==
    ASSUME LogInv, Replay, Writes, Looks, ReadRow
    PROVE  Replay' /\ Writes' /\ Looks'
<1> DEFINE row == log[pos + 1]
<1>1. /\ log' = log /\ table' = table /\ pos' = pos + 1 /\ out' = out /\ avail' = avail
      /\ tick' = tick /\ finished' = finished /\ now' = now /\ flying' = flying
      /\ paused # TRUE /\ pos < avail
  BY DEF ReadRow, traceVars
<1>2. /\ pos \in Nat /\ avail \in Nat /\ avail <= Len(log) /\ Len(log) \in Nat
      /\ pos < Len(log) /\ pos + 1 \in Nat /\ pos + 1 <= avail /\ pos + 1 # 0 /\ (pos + 1) - 1 = pos
      /\ paused = FALSE /\ asked = NoQuery /\ tick = FALSE
  <2>1. Len(log) \in Nat
    BY DEF LogInv, IsLog, Listed
  <2>2. pos \in Nat /\ avail \in Nat /\ avail <= Len(log) /\ paused \in BOOLEAN /\ tick \in BOOLEAN
    BY DEF Replay
  <2>3. paused = FALSE
    BY <1>1, <2>2
  <2>4. asked = NoQuery /\ tick # TRUE
    BY <2>3 DEF Replay
  <2>5. tick = FALSE
    BY <2>2, <2>4
  <2>6. pos < Len(log) /\ pos + 1 \in Nat /\ pos + 1 <= avail /\ pos + 1 # 0 /\ (pos + 1) - 1 = pos
    BY <1>1, <2>1, <2>2
  <2> QED
    BY <2>1, <2>2, <2>3, <2>4, <2>5, <2>6
<1>3. Items' = Items /\ (Legible' <=> Legible)
  BY <1>1, OutputsKept
<1>4. /\ Items[pos + 1] = Item(pos + 1) /\ Output(pos + 1) = Output(pos) \o Item(pos + 1)
  BY <1>2, OutputMore
<1>5. Legible => Listed(out) /\ out = Output(pos)
  BY <1>2 DEF Writes, Wrote
<1>6. Remembers(calls, log, pos) /\ Cleaned(nextCleanup, log, pos)
  BY DEF Looks
<1>7. /\ ~ (row.kind = "R3" /\ HasCall(row)) => Item(pos + 1) = <<>>
      /\ row.kind = "R3" /\ HasCall(row) =>
             /\ Item(pos + 1) = IF Query(calls[Key(row)], row) = NoQuery THEN <<>>
                                ELSE Answered(QueryOf(calls[Key(row)], row))
             /\ Legible => Heard(Query(calls[Key(row)], row).fh)
  BY <1>2, <1>6, NextItem
<1>8. ASSUME asked' = NoQuery, paused' = paused, Item(pos + 1) = <<>> PROVE Replay' /\ Writes'
  <2>1. Replay'
    BY <1>1, <1>2, <1>8 DEF Replay
  <2>2. Output(pos)' = Output(pos + 1)
    BY <1>1, <1>3 DEF Output
  <2>3. Legible => Output(pos + 1) = out
    BY <1>4, <1>5, <1>8, ListedNone
  <2> QED
    BY <1>1, <1>3, <1>5, <1>8, <2>1, <2>2, <2>3 DEF Writes, Wrote
<1> HIDE DEF row
<1>9. CASE row.kind = "C3" /\ filterCall(row) /\ processCall(row) /\ UNCHANGED <<paused, asked>>
  <2>1. Item(pos + 1) = <<>>
    BY <1>7, <1>9
  <2>2. Replay' /\ Writes'
    BY <1>2, <1>8, <1>9, <2>1
  <2>3. Remembers(calls', log, pos + 1) /\ Cleaned(nextCleanup', log, pos + 1)
    BY <1>2, <1>6, <1>9, CallRemembered DEF row, filterCall
  <2> QED
    BY <1>1, <2>2, <2>3 DEF Looks
<1>10. CASE /\ row.kind = "R3" /\ HasCall(row) /\ TakeCall(row)
            /\ LET call == calls[Key(row)]
                   q == Query(call, row)
               IN  IF q = NoQuery THEN UNCHANGED <<paused, asked>>
                   ELSE /\ paused' = TRUE
                        /\ asked' = [fh |-> q.fh, append |-> q.append, t |-> call.t, op |-> row.op]
  <2> DEFINE call == calls[Key(row)]
             q == Query(call, row)
  <2>1. Remembers(calls', log, pos + 1) /\ Cleaned(nextCleanup', log, pos + 1)
    BY <1>2, <1>6, <1>10, ReplyRemembered DEF row
  <2>2. CASE q = NoQuery
    <3>1. Item(pos + 1) = <<>>
      BY <1>7, <1>10, <2>2
    <3>2. Replay' /\ Writes'
      BY <1>2, <1>8, <1>10, <2>2, <3>1
    <3> QED
      BY <1>1, <2>1, <3>2 DEF Looks
  <2>3. CASE q # NoQuery
    <3>1. paused' = TRUE /\ asked' = QueryOf(call, row)
      BY <1>10, <2>3 DEF QueryOf
    <3>2. asked' # NoQuery
      BY <3>1, QueryAsks
    <3>3. Item(pos + 1) = Answered(QueryOf(call, row))
      BY <1>7, <1>10, <2>3
    <3>4. Answered(asked)' = Answered(QueryOf(call, row))
      BY <1>1, <3>1 DEF Answered, Fullpath
    <3>9. Legible => Heard(asked.fh)'
      <4>1. asked'.fh = q.fh
        BY <3>1 DEF QueryOf
      <4>2. Heard(asked.fh)' <=> Heard(q.fh)
        BY <1>1, <4>1 DEF Heard, Fullpath, serveSocket
      <4> QED
        BY <1>7, <1>10, <4>2
    <3>5. Output(pos - 1)' = Output(pos)
      BY <1>1, <1>2, <1>3 DEF Output
    <3>6. Items[pos]' = Item(pos + 1)
      BY <1>1, <1>3, <1>4
    <3>7. Replay'
      BY <1>1, <1>2, <3>1, <3>2 DEF Replay
    <3>8. Writes'
      BY <1>1, <1>3, <1>5, <3>2, <3>3, <3>4, <3>5, <3>6, <3>9 DEF Writes, Wrote
    <3> QED
      BY <1>1, <2>1, <3>7, <3>8 DEF Looks
  <2> QED
    BY <2>2, <2>3
<1>11. CASE /\ IF row.kind = "C3" THEN ~ filterCall(row) ELSE ~ HasCall(row)
            /\ UNCHANGED <<calls, nextCleanup, paused, asked>>
  <2>1. Item(pos + 1) = <<>>
    BY <1>7, <1>11
  <2>2. Replay' /\ Writes'
    BY <1>2, <1>8, <1>11, <2>1
  <2>3. Remembers(calls', log, pos + 1) /\ Cleaned(nextCleanup', log, pos + 1)
    BY <1>2, <1>6, <1>11, OtherRemembered DEF row, filterCall, HasCall
  <2> QED
    BY <1>1, <2>2, <2>3 DEF Looks
<1> QED
  BY <1>9, <1>10, <1>11 DEF ReadRow, row

\* An answer comes.
LEMMA AnswerStep ==
    ASSUME LogInv, Replay, Writes, Looks, Answer
    PROVE  Replay' /\ Writes' /\ Looks'
<1>1. /\ log' = log /\ table' = table /\ pos' = pos /\ avail' = avail /\ calls' = calls
      /\ nextCleanup' = nextCleanup /\ paused' = paused /\ finished' = finished
      /\ asked # NoQuery /\ asked' = NoQuery /\ tick' = TRUE
  BY DEF Answer, traceVars, parser
<1>2. /\ pos \in Nat /\ pos # 0 /\ pos - 1 \in Nat /\ pos - 1 < Len(log) /\ (pos - 1) + 1 = pos
      /\ paused = TRUE /\ Len(log) \in Nat
  BY <1>1 DEF Replay, LogInv, IsLog, Listed
<1>3. Items' = Items /\ (Legible' <=> Legible)
  BY <1>1, OutputsKept
<1>4. Items[pos] = Item(pos) /\ Output(pos) = Output(pos - 1) \o Item(pos)
  BY <1>2, OutputMore
<1>5. Legible => /\ Listed(out) /\ out = Output(pos - 1) /\ Items[pos] = Answered(asked)
                 /\ Heard(asked.fh)
  BY <1>1 DEF Writes, Wrote
<1>6. Legible => out' = Output(pos) /\ Listed(out')
  <2> SUFFICES ASSUME Legible PROVE out' = Output(pos) /\ Listed(out')
    OBVIOUS
  <2> DEFINE path == processResult(Fullpath(asked.fh))
  <2>1. out' = IF path = <<>> THEN out ELSE Append(out, Row(asked, path))
    BY <1>5 DEF Answer, Heard
  <2>2. Answered(asked) = IF path = <<>> THEN <<>> ELSE <<Row(asked, path)>>
    BY DEF Answered
  <2> HIDE DEF path
  <2>3. CASE path = <<>>
    BY <1>4, <1>5, <2>1, <2>2, <2>3, ListedNone
  <2>4. CASE path # <<>>
    <3>1. out' = Append(out, Row(asked, path)) /\ Output(pos) = out \o <<Row(asked, path)>>
      BY <1>4, <1>5, <2>1, <2>2, <2>4
    <3> QED
      BY <1>5, <3>1, ListedAppend
  <2> QED
    BY <2>3, <2>4
<1>7. Output(pos)' = Output(pos)
  BY <1>1, <1>3 DEF Output
<1>8. Replay'
  BY <1>1, <1>2 DEF Replay
<1>9. Writes'
  BY <1>1, <1>3, <1>6, <1>7 DEF Writes, Wrote
<1>10. Looks'
  BY <1>1, LooksKept
<1> QED
  BY <1>8, <1>9, <1>10

\* The other events: more rows, the end of the log, the resumption.
LEMMA EventStep ==
    ASSUME LogInv, Replay, Writes, Looks, Readable \/ Finish \/ Resume
    PROVE  Replay' /\ Writes' /\ Looks'
<1>1. /\ log' = log /\ table' = table /\ pos' = pos /\ asked' = asked /\ out' = out
      /\ calls' = calls /\ nextCleanup' = nextCleanup
  BY DEF Readable, Finish, Resume, traceVars, parser
<1>2. Len(log) \in Nat
  BY DEF LogInv, IsLog, Listed
<1>3. CASE Readable
  <2>1. PICK v \in avail + 1..Len(log) : avail' = v
    BY <1>3 DEF Readable
  <2>2. paused' = paused /\ finished' = finished /\ tick' = tick
    BY <1>3 DEF Readable
  <2>3. avail \in Nat /\ v \in Nat /\ v <= Len(log) /\ avail < v
    BY <1>2, <2>1 DEF Replay
  <2>4. finished # TRUE
    <3>1. avail # Len(log)
      BY <1>2, <2>3
    <3> QED
      BY <3>1 DEF Replay
  <2>5. Replay'
    BY <1>1, <2>1, <2>2, <2>3, <2>4 DEF Replay
  <2> QED
    BY <1>1, <2>5, WritesKept, LooksKept
<1>4. CASE Finish
  <2>1. Replay'
    BY <1>1, <1>4 DEF Finish, Replay
  <2> QED
    BY <1>1, <2>1, WritesKept, LooksKept
<1>5. CASE Resume
  <2>1. tick = TRUE /\ tick' = FALSE /\ paused' = FALSE /\ avail' = avail /\ finished' = finished
    BY <1>5 DEF Resume, Replay
  <2>2. asked = NoQuery
    BY <2>1 DEF Replay
  <2>3. Replay'
    BY <1>1, <2>1, <2>2 DEF Replay
  <2> QED
    BY <1>1, <2>3, WritesKept, LooksKept
<1> QED
  BY <1>3, <1>4, <1>5

\* The end of the loop; the last one closes the connection (operations.js:132).
LEMMA EndReadStep ==
    ASSUME LogInv, Replay, Writes, Looks, stage = "operations", EndRead
    PROVE  \/ stage' = "operations" /\ Replay' /\ Writes' /\ Looks'
           \/ stage' = "closed" /\ Closed'
<1>1. /\ log' = log /\ table' = table /\ pos' = pos /\ asked' = asked /\ out' = out
      /\ calls' = calls /\ nextCleanup' = nextCleanup /\ avail' = avail /\ paused' = paused /\ tick' = tick
      /\ paused = TRUE \/ pos = avail
  BY DEF EndRead, traceVars, parser, Replay
<1>2. CASE LastRead
  <2>1. finished = TRUE /\ paused = FALSE /\ stage' = "closed"
    BY <1>2 DEF LastRead, EndRead, Replay
  <2>2. pos = Len(log) /\ asked = NoQuery
    BY <1>1, <2>1 DEF Replay
  <2>3. Legible => out = FlattenSeq(Items)
    BY <2>2, AllOutput DEF Writes, Wrote
  <2>4. Items' = Items /\ (Legible' <=> Legible)
    BY <1>1, OutputsKept
  <2> QED
    BY <1>1, <2>1, <2>2, <2>3, <2>4 DEF Closed
<1>3. CASE ~ LastRead
  <2>1. finished' = finished /\ stage' = stage
    BY <1>3 DEF EndRead
  <2>2. Replay'
    BY <1>1, <2>1 DEF Replay
  <2> QED
    BY <1>1, <2>1, <2>2, WritesKept, LooksKept
<1> QED
  BY <1>2, <1>3

LEMMA StartStep ==
    ASSUME LogInv, Fresh, StartOperations
    PROVE  Replay' /\ Writes' /\ Looks'
<1>1. /\ log' = log /\ table' = table /\ avail' = 0 /\ paused' = FALSE /\ finished' = FALSE
      /\ asked' = NoQuery /\ tick' = FALSE /\ out' = <<>>
      /\ pos' = 0 /\ calls' = NoCalls /\ nextCleanup' = 0
  BY DEF StartOperations, Fresh, traceVars, node
<1>2. Len(log) \in Nat /\ now \in Nat /\ IsLog(log, now)
  BY DEF LogInv, IsLog, Listed
<1>3. Replay'
  <2>1. pos' \in Nat /\ avail' \in Nat /\ pos' <= avail' /\ avail' <= Len(log')
    BY <1>1, <1>2
  <2>2. paused' \in BOOLEAN /\ tick' \in BOOLEAN /\ finished' \in BOOLEAN
    BY <1>1
  <2>3. tick' # TRUE /\ finished' # TRUE
    BY <1>1
  <2> QED
    BY <1>1, <2>1, <2>2, <2>3 DEF Replay
<1>4. Writes'
  <2>1. Output(pos)' = <<>>
    BY <1>1, FlattenNone DEF Output
  <2>2. Listed(<<>>)
    BY DEF Listed
  <2> QED
    BY <1>1, <2>1, <2>2 DEF Writes, Wrote
<1>5. Looks'
  <2>1. DOMAIN calls' = {}
    BY <1>1 DEF NoCalls
  <2>2. \A j \in 1..0 : FALSE
    OBVIOUS
  <2>3. Remembers(calls', log, 0)
    BY <2>1, <2>2 DEF Remembers
  <2>4. \A i \in 0 + 1..Len(log) : 0 <= log[i].t
    <3>1. \A i \in 0 + 1..Len(log) : i \in 1..Len(log)
      BY <1>2
    <3> QED
      BY <1>2, <3>1, RowTimes
  <2>5. Cleaned(0, log, 0)
    BY <2>4 DEF Cleaned
  <2> QED
    BY <1>1, <2>3, <2>5 DEF Looks
<1> QED
  BY <1>3, <1>4, <1>5

LEMMA LogKept ==
    ASSUME LogInv, log' = log, now' = now, flying' = flying
    PROVE  LogInv'
  BY DEF LogInv

LEMMA ClosedKept ==
    ASSUME Closed, log' = log, table' = table, out' = out, asked' = asked
    PROVE  Closed'
<1>1. Items' = Items /\ (Legible' <=> Legible)
  BY OutputsKept
<1> QED
  BY <1>1 DEF Closed

LEMMA ReplayStep ==
    ASSUME ReplayInv, [PathTreeNext]_pathTreeVars
    PROVE  ReplayInv'
<1>1. LogInv
  BY DEF ReplayInv
<1>2. CASE Trace
  <2>1. stage = "trace" /\ stage' = stage /\ TraceNext /\ node' = node
    BY <1>2 DEF Trace
  <2>2. LogInv'
    BY <1>1, <2>1, TraceLog
  <2>3. Fresh
    BY <2>1 DEF ReplayInv, Early
  <2>4. Fresh'
    BY <2>1, <2>3 DEF Fresh, node
  <2> QED
    BY <2>1, <2>2, <2>4 DEF ReplayInv, Early
<1>3. ASSUME stage \in Early, stage' \in Early, traceVars' = traceVars, node' = node
      PROVE  ReplayInv'
  <2>1. LogInv'
    BY <1>1, <1>3, LogKept DEF traceVars
  <2>2. Fresh
    BY <1>3 DEF ReplayInv
  <2>3. Fresh'
    BY <1>3, <2>2 DEF Fresh, node
  <2>4. stage' # "operations" /\ stage' # "closed"
    BY <1>3 DEF Early
  <2> QED
    BY <1>3, <2>1, <2>3, <2>4 DEF ReplayInv
<1>4. CASE EndTrace
  BY <1>3, <1>4 DEF EndTrace, Early
<1>5. CASE ReadFhParent
  BY <1>3, <1>5 DEF ReadFhParent, Early
<1>6. CASE WriteResults
  <2>1. stage \in Early /\ stage' \in Early /\ traceVars' = traceVars /\ node' = node
    BY <1>6 DEF WriteResults, Early
  <2> QED
    BY <1>3, <2>1
<1>7. CASE StartOperations
  <2>1. stage = "served" /\ stage' = "operations" /\ traceVars' = traceVars
    BY <1>7 DEF StartOperations
  <2>2. Fresh
    BY <2>1 DEF ReplayInv, Early
  <2>3. Replay' /\ Writes' /\ Looks'
    BY <1>1, <1>7, <2>2, StartStep
  <2>4. LogInv'
    BY <1>1, <2>1, LogKept DEF traceVars
  <2> QED
    BY <2>1, <2>3, <2>4 DEF ReplayInv, Early
<1>8. ASSUME traceVars' = traceVars, stage' = "operations", Replay', Writes', Looks'
      PROVE  ReplayInv'
  <2>1. LogInv'
    BY <1>1, <1>8, LogKept DEF traceVars
  <2> QED
    BY <1>8, <2>1 DEF ReplayInv, Early
<1>9. ASSUME stage' = stage, traceVars' = traceVars, table' = table, node' = node,
             pos' = pos, calls' = calls, nextCleanup' = nextCleanup
      PROVE  ReplayInv'
  <2>1. LogInv' /\ log' = log
    BY <1>1, <1>9, LogKept DEF traceVars
  <2>2. stage \in Early => Fresh'
    BY <1>9 DEF ReplayInv, Fresh, node
  <2>3. stage = "operations" => Replay' /\ Writes' /\ Looks'
    <3>1. SUFFICES ASSUME stage = "operations" PROVE Replay' /\ Writes' /\ Looks'
      OBVIOUS
    <3>2. Replay /\ Writes /\ Looks
      BY <3>1 DEF ReplayInv
    <3>3. Replay'
      BY <1>9, <2>1, <3>2 DEF Replay, node
    <3>4. asked' = asked /\ out' = out
      BY <1>9 DEF node
    <3> QED
      BY <1>9, <2>1, <3>2, <3>3, <3>4, WritesKept, LooksKept
  <2>4. stage = "closed" => Closed'
    <3>1. asked' = asked /\ out' = out
      BY <1>9 DEF node
    <3> QED
      BY <1>9, <2>1, <3>1, ClosedKept DEF ReplayInv
  <2> QED
    BY <1>9, <2>1, <2>2, <2>3, <2>4 DEF ReplayInv
<1>10. CASE parseInput
  BY <1>9, <1>10 DEF parseInput, parser
<1>11. CASE operations /\ stage = "operations"
  <2>1. Replay /\ Writes /\ Looks
    BY <1>11 DEF ReplayInv
  <2>2. CASE ReadRow
    <3>1. traceVars' = traceVars /\ stage' = "operations"
      BY <1>11, <2>2 DEF ReadRow
    <3> QED
      BY <1>1, <1>8, <2>1, <2>2, <3>1, ReadRowStep
  <2>3. CASE EndRead
    <3>1. traceVars' = traceVars
      BY <2>3 DEF EndRead
    <3>2. \/ stage' = "operations" /\ Replay' /\ Writes' /\ Looks'
          \/ stage' = "closed" /\ Closed'
      BY <1>1, <1>11, <2>1, <2>3, EndReadStep
    <3>3. CASE stage' = "operations" /\ Replay' /\ Writes' /\ Looks'
      BY <1>8, <3>1, <3>3
    <3>4. CASE stage' = "closed" /\ Closed'
      <4>1. LogInv'
        BY <1>1, <3>1, LogKept DEF traceVars
      <4> QED
        BY <3>4, <4>1 DEF ReplayInv, Early
    <3> QED
      BY <3>2, <3>3, <3>4
  <2>4. CASE Answer
    <3>1. traceVars' = traceVars /\ stage' = "operations"
      BY <1>11, <2>4 DEF Answer
    <3> QED
      BY <1>1, <1>8, <2>1, <2>4, <3>1, AnswerStep
  <2>5. CASE Readable \/ Finish \/ Resume
    <3>1. traceVars' = traceVars /\ stage' = "operations"
      BY <1>11, <2>5 DEF Readable, Finish, Resume
    <3> QED
      BY <1>1, <1>8, <2>1, <2>5, <3>1, EventStep
  <2> QED
    BY <1>11, <2>2, <2>3, <2>4, <2>5 DEF operations
<1>12. CASE Resume /\ stage # "operations"
  <2>1. /\ traceVars' = traceVars /\ stage' = stage /\ table' = table
        /\ asked' = asked /\ out' = out
    BY <1>12 DEF Resume
  <2>2. stage = "closed"
    <3>1. ~ (stage \in Early)
      BY <1>12 DEF Resume, ReplayInv, Fresh
    <3> QED
      BY <1>12, <3>1 DEF ReplayInv
  <2>3. LogInv' /\ log' = log
    BY <1>1, <2>1, LogKept DEF traceVars
  <2>4. Closed'
    BY <2>1, <2>2, <2>3, ClosedKept DEF ReplayInv
  <2> QED
    BY <2>1, <2>2, <2>3, <2>4 DEF ReplayInv, Early
<1>13. CASE operations /\ stage # "operations"
  <2>1. Resume
    BY <1>13 DEF operations, ReadRow, EndRead, Readable, Finish, Answer, Idle
  <2> QED
    BY <1>12, <1>13, <2>1
<1>14. CASE UNCHANGED pathTreeVars
  BY <1>9, <1>14 DEF pathTreeVars, parser
<1> QED
  BY <1>2, <1>4, <1>5, <1>6, <1>7, <1>10, <1>11, <1>13, <1>14 DEF PathTreeNext

LEMMA ReplayStart == PathTreeInit => ReplayInv
<1> SUFFICES ASSUME PathTreeInit PROVE ReplayInv
  OBVIOUS
<1>1. LogInv
  BY InitLog DEF PathTreeInit
<1>2. stage = "trace" /\ Fresh
  BY DEF PathTreeInit, Fresh
<1> QED
  BY <1>1, <1>2 DEF ReplayInv, Early

\* When operations.js closes its connection it has written every operation of the client,
\* once and in the order of the replies, however the rows came in pieces, whatever lines
\* were lost or repeated, and wherever the Parser was paused (operations.js:132,
\* nfsdump.func.js:71-90), if the lines of the service are read as they were written
\* (fullpath.func.js:97-103).
THEOREM OperationsWritten == PathTreeSpec => []OperationsExact
<1>1. ReplayInv => OperationsExact
  <2> SUFFICES ASSUME ReplayInv, stage = "closed", Legible
               PROVE  /\ out = FlattenSeq([i \in DOMAIN log |-> IF Paired(i, {Argv}) THEN Operation(i) ELSE <<>>])
                      /\ asked = NoQuery
    BY DEF OperationsExact
  <2>1. Closed
    BY DEF ReplayInv
  <2> QED
    BY <2>1 DEF Closed, Items, Item
<1>2. ReplayInv /\ [PathTreeNext]_pathTreeVars => ReplayInv'
  BY ReplayStep
<1> QED
  BY <1>1, <1>2, ReplayStart, PTL DEF PathTreeSpec
=============================================================================
