---------------------------- MODULE IntervalLog ----------------------------
(***************************************************************************)
(* Interval logging of nfsdump: the loop of main and updateOutFile,        *)
(* printSummary and cleanup of nfsdump2/nfsdump.c, run again and again in  *)
(* one directory, as nfs-logger.pl and cron do.  The runs follow one       *)
(* another, at any moments: of two loggers at the same time                *)
(* scripts/INSTALL says that the data can be scrambled, and they are not   *)
(* modelled.                                                               *)
(*                                                                         *)
(* Time is cut into slots of `Secs' seconds.  The records of a slot go to  *)
(* a temporary file; when the slot is over, the file gets the slot's name  *)
(* and the counters go to the slot's summary.  The clock is read once to   *)
(* decide that a slot is over and once more, by another call, to name the  *)
(* next one: both readings are steps, and the clock moves between them.    *)
(* Records are numbered in the order of their capture.                     *)
(***************************************************************************)
EXTENDS Integers

CONSTANTS
    Secs, Iters,        \* Interval.secs, Interval.iters: options -I and -N
    Counts,             \* values of option -c, 0 if it is not given
    LifeTimes,          \* values of option -L, 0 if it is not given
    PACKET_POLL_CNT,    \* packets between two looks at the clock
    OwnTmpName,         \* TRUE: option -T TEMP-LOG.$$, as nfs-logger.pl has it
    Disturbed,          \* the values of `disturbed'
    DSTEnd, Shift,      \* when and how far the local time is set back
    MaxLag,             \* how far time() may be behind gettimeofday()
    MaxBack,            \* how far the clock may be set back
    MaxTime, MaxRecords, MaxRuns    \* bounds

ASSUME IntervalAssumption ==
    /\ Secs \in Nat \ {0} /\ Iters \in Nat \ {0}
    /\ Counts \subseteq Nat /\ LifeTimes \subseteq Nat /\ PACKET_POLL_CNT \in Nat \ {0}
    /\ OwnTmpName \in BOOLEAN /\ Disturbed \subseteq BOOLEAN
    /\ DSTEnd \in Nat /\ Shift \in Nat
    /\ MaxLag \in Nat /\ MaxBack \in Nat
    /\ MaxTime \in Nat /\ MaxRecords \in Nat /\ MaxRuns \in Nat

VARIABLES
    clock,          \* the clock of the host
    disturbed,      \* whether the program may be ended from outside
    pc,             \* "down", "poll", "close", "open", "capture"
    last,           \* updateOutFile was called at the end of life
    cnt, LifeTime,  \* the options -c and -L of the run
    iters, end_time, EndOfLife, total_cnt,
    left,           \* packets until pcap_loop returns
    OutFile,        \* "NULL" or "tmp"
    cur_logname,    \* the name the temporary file will get
    stats,          \* the records in v2statsBlock and v3statsBlock
    tmp,            \* the records in the file named tmpname
    leftover,       \* the records in temporary files of former runs
    logs, sums,     \* the records in each log, and counted in each summary
    n, runs,        \* numbers of the last record and of the last run
    reopened,       \* the log of the slot in which the run began, if there was one
    replaced,       \* the logs that were replaced by a run that began in their slot
    lost,           \* records of those logs, or in the buffers of a crashed process
    flushed         \* the last record of tmp that surely is on the disk

options == <<cnt, LifeTime, EndOfLife>>
control == <<pc, last, iters, options, total_cnt, left>>
names == <<end_time, OutFile, cur_logname>>
files == <<stats, tmp, leftover, logs, sums, reopened, replaced, lost, flushed>>
vars == <<clock, disturbed, control, names, files, n, runs>>

Times == 0..MaxTime

\* A wrong name: without the hour, so that it comes again soon.
LogName_NoHour(slot) == slot % (2 * Secs)

\* A log is named after its slot, by the local time of the beginning, to the
\* minute; Secs is a number of minutes (nfsdump.c:570-578).
LogName(slot) == IF slot < DSTEnd THEN slot ELSE slot - Shift

SlotOf(time) == time - (time % Secs)

Names == {LogName(SlotOf(t)) : t \in Times}
NoName == -1 - Shift     \* the NULL pointer, no name

Init ==
    /\ clock \in Times /\ clock < Secs       \* any moment of a slot
    /\ disturbed \in Disturbed
    /\ pc = "down" /\ last = FALSE
    /\ cnt = 0 /\ LifeTime = 0 /\ EndOfLife = 0
    /\ iters = 0 /\ end_time = 0 /\ total_cnt = 0 /\ left = 0
    /\ OutFile = "NULL" /\ cur_logname = NoName
    /\ stats = {} /\ tmp = {} /\ leftover = {} /\ lost = {} /\ flushed = 0
    /\ logs = <<>> /\ sums = <<>> /\ reopened = {} /\ replaced = {}
    /\ n = 0 /\ runs = 0

Tick ==
    /\ clock' \in {t \in Times : t # clock /\ t >= clock - MaxBack}
    /\ UNCHANGED <<control, names, files, n, runs>>

\* A new process, with the initial values of Interval and EndOfLife as the
\* options change them.  Nothing makes it wait for the next slot: after a run that
\* -L ended in the middle of a slot, it may begin in a slot that has a log.
Start ==
    /\ pc = "down" /\ runs < MaxRuns
    /\ reopened' = {LogName(SlotOf(clock))} \cap DOMAIN logs
    /\ runs' = runs + 1
    /\ pc' = "poll" /\ last' = FALSE
    /\ iters' = Iters /\ end_time' = 0 /\ total_cnt' = 0 /\ left' = 0
    /\ cnt' \in Counts /\ LifeTime' \in LifeTimes
    /\ EndOfLife' = clock + LifeTime'
    /\ OutFile' = "NULL" /\ cur_logname' = NoName
    /\ stats' = {}
    /\ IF OwnTmpName THEN leftover' = leftover \cup tmp /\ tmp' = {}
                     ELSE UNCHANGED <<leftover, tmp>>
    /\ UNCHANGED <<clock, logs, sums, n, replaced, lost, flushed>>

\* exit: stdio writes its buffers.
Exit ==
    /\ pc' = "down"
    /\ UNCHANGED <<last, iters, options, total_cnt, left>>
-----------------------------------------------------------------------------
\* The tests at the head of the loop (nfsdump.c:435-469).

CountReached == cnt > 0 /\ total_cnt >= cnt
LifeOver == LifeTime > 0 /\ clock >= EndOfLife
IntervalOver == clock >= end_time

StopAtCount ==
    /\ pc = "poll" /\ CountReached
    /\ Exit
    /\ UNCHANGED <<clock, names, files, n, runs>>

\* A wrong end of life: updateOutFile is not called.
StopAtEndOfLife_NotPushed ==
    /\ pc = "poll" /\ ~ CountReached /\ LifeOver
    /\ Exit
    /\ UNCHANGED <<clock, names, files, n, runs>>

StopAtEndOfLife ==
    /\ pc = "poll" /\ ~ CountReached /\ LifeOver
    /\ pc' = "close" /\ last' = TRUE
    /\ UNCHANGED <<clock, iters, options, total_cnt, left, names, files, n, runs>>

Expire ==
    /\ pc = "poll" /\ ~ CountReached /\ ~ LifeOver /\ IntervalOver
    /\ pc' = "close"
    /\ UNCHANGED <<clock, last, iters, options, total_cnt, left, names, files, n, runs>>

GoOn ==
    /\ pc = "poll" /\ ~ CountReached /\ ~ LifeOver /\ ~ IntervalOver
    /\ pc' = "capture" /\ left' = PACKET_POLL_CNT
    /\ UNCHANGED <<clock, last, iters, options, total_cnt, names, files, n, runs>>
-----------------------------------------------------------------------------
\* updateOutFile.

\* A file of this content under this name, in the place of what had the name.
Put(dir, name, content) ==
    [s \in DOMAIN dir \cup {name} |-> IF s = name THEN content ELSE dir[s]]

\* A wrong summary: the counters go on from interval to interval.
printSummary_NoReset(name) ==
    /\ sums' \in {sums, Put(sums, name, stats)}
    /\ UNCHANGED stats

\* printSummary: the counters start again even if the file cannot be opened.
printSummary(name) ==
    /\ sums' \in {sums, Put(sums, name, stats)}
    /\ stats' = {}

\* A wrong closing: the file keeps its temporary name.
Publish_NotRenamed(name) == UNCHANGED <<logs, tmp, reopened, replaced, lost>>

\* rename: what had the name is gone.
Publish(name) ==
    /\ logs' = Put(logs, name, tmp)
    /\ tmp' = {}
    /\ reopened' = reopened \ {name}
    /\ replaced' = replaced \cup (reopened \cap {name})
    /\ lost' = lost \cup UNION {logs[s] : s \in reopened \cap {name}}

\* Lines 541-559: the rename first, the summary after it.
CloseOutFile ==
    /\ pc = "close"
    /\ pc' = "open"
    /\ IF OutFile = "NULL" THEN UNCHANGED <<files, cur_logname, OutFile>>
       ELSE /\ Publish(cur_logname)
            /\ printSummary(cur_logname)
            /\ cur_logname' = NoName
            /\ OutFile' = "NULL"
            /\ UNCHANGED <<leftover, flushed>>
    /\ UNCHANGED <<clock, last, iters, options, total_cnt, left, end_time, n, runs>>

\* What ends the loop of main after updateOutFile.
Finished == last \/ iters = 0

\* Lines 565-601, at the time that time() returns, and what main does next.
OpenOutFile ==
    /\ pc = "open"
    /\ \E time \in Times :
        /\ time \in (clock - MaxLag)..clock
        /\ cur_logname' = LogName(SlotOf(time))
        /\ end_time' = SlotOf(time) + Secs
    /\ OutFile' = "tmp" /\ tmp' = {} /\ flushed' = n
    /\ IF Finished
       THEN Exit
       ELSE /\ pc' = "capture" /\ left' = PACKET_POLL_CNT
            /\ iters' = iters - 1
            /\ UNCHANGED <<last, options, total_cnt>>
    /\ UNCHANGED <<clock, stats, leftover, logs, sums, reopened, replaced, lost, n,
                   runs>>
-----------------------------------------------------------------------------
\* pcap_loop.

\* A packet of which processPacket makes a record.
Record ==
    /\ pc = "capture" /\ left > 0 /\ n < MaxRecords
    /\ left' = left - 1
    /\ n' = n + 1
    /\ tmp' = tmp \cup {n'}
    /\ stats' = stats \cup {n'}
    /\ flushed' \in {flushed, n'}       \* the buffer may be full
    /\ UNCHANGED <<clock, pc, last, iters, options, total_cnt, names, leftover,
                   logs, sums, reopened, replaced, lost, runs>>

\* A packet of which it makes none.
Uninteresting ==
    /\ pc = "capture" /\ left > 0
    /\ left' = left - 1
    /\ UNCHANGED <<clock, pc, last, iters, options, total_cnt, names, files, n, runs>>

\* total_cnt matters only when there is a -c.
LoopReturns ==
    /\ pc = "capture" /\ left = 0
    /\ pc' = "poll"
    /\ total_cnt' = IF cnt > 0 THEN total_cnt + PACKET_POLL_CNT ELSE 0
    /\ UNCHANGED <<clock, last, iters, options, left, names, files, n, runs>>

\* cleanup, called on a signal, or the exit after pcap_loop returned an error.
Stop ==
    /\ disturbed /\ pc # "down"
    /\ Exit
    /\ UNCHANGED <<clock, names, files, n, runs>>

\* The process dies with its buffers.
Crash ==
    /\ disturbed /\ pc # "down"
    /\ Exit
    /\ \E r \in flushed..n : tmp' = {i \in tmp : i <= r}
    /\ lost' = lost \cup (tmp \ tmp')
    /\ UNCHANGED <<clock, names, stats, leftover, logs, sums, reopened, replaced, n,
                   runs, flushed>>

main ==
    \/ StopAtCount \/ StopAtEndOfLife \/ Expire \/ GoOn
    \/ CloseOutFile \/ OpenOutFile
    \/ LoopReturns

Next ==
  /\ UNCHANGED disturbed
  /\ \/ Tick \/ Start
     \/ main \/ Record \/ Uninteresting
     \/ Stop \/ Crash

Spec == Init /\ [][Next]_vars

\* The program runs, time passes and packets keep coming: "This definition
\* assumes that packets are frequent" (nfsdump.c:424).
FairSpec ==
    /\ Spec
    /\ WF_vars(UNCHANGED disturbed /\ main)
    /\ WF_vars(UNCHANGED disturbed /\ Tick)
    /\ WF_vars(UNCHANGED disturbed /\ (Record \/ Uninteresting))
-----------------------------------------------------------------------------
\* The state of the loop of main and the names of the files.
TypeOK ==
    /\ clock \in Times /\ last \in BOOLEAN /\ disturbed \in Disturbed
    /\ pc \in {"down", "poll", "close", "open", "capture"}
    /\ iters \in 0..Iters /\ left \in 0..PACKET_POLL_CNT
    /\ end_time \in 0..(MaxTime + Secs) /\ EndOfLife \in Nat
    /\ cnt \in Counts \cup {0} /\ LifeTime \in LifeTimes \cup {0}
    /\ total_cnt \in Nat
    /\ OutFile \in {"NULL", "tmp"}
    /\ cur_logname \in Names \cup {NoName} /\ (OutFile = "tmp" => cur_logname \in Names)
    /\ DOMAIN logs \subseteq Names /\ DOMAIN sums \subseteq DOMAIN logs
    /\ reopened \subseteq DOMAIN logs /\ replaced \subseteq DOMAIN logs
    /\ n \in 0..MaxRecords /\ runs \in 0..MaxRuns /\ flushed \in 0..n
    /\ stats \subseteq 1..n /\ tmp \subseteq 1..n /\ leftover \subseteq 1..n /\ lost \subseteq 1..n
    /\ \A s \in DOMAIN logs : logs[s] \subseteq 1..n
    /\ \A s \in DOMAIN sums : sums[s] \subseteq 1..n

\* A record is lost only in the buffers of a process that crashed, or in a log that
\* a later run replaces that began in its slot: any other is in a log, in the
\* temporary file or in that of a former run, whatever way the program ended
\* (nfsdump.c:541-548, 596).
NothingLost ==
    1..n \subseteq tmp \cup leftover \cup lost \cup UNION {logs[s] : s \in DOMAIN logs}

\* The summary of a slot counts the records of the log of that name, no others
\* (nfsdump.c:554-556, 658), although the two are written one after the other
\* and the counters belong to no file.  When a log was replaced the old summary
\* may stay beside the new one, if printSummary cannot open its file.
SummaryCounts ==
    \A s \in DOMAIN sums : s \notin replaced => sums[s] = logs[s]

\* The logs taken in the order of their names give the records in the order of
\* capture, over all runs (nfsdump.c:565-586).
LogsInOrder ==
    \A s, t \in DOMAIN logs : \A i \in logs[s], j \in logs[t] : s < t => i < j

\* "The file doesn't get it's real, final name until it's closed.  This avoids
\* other processes seeing the file half-written." (nfsdump.c:591): what is found
\* under the name of a log stays there, through all later slots and runs, but for
\* one case: a run that began in the slot of a log, after -L had ended another in
\* the middle of that slot, replaces that log, and no other.
LogFinal ==
    [][\A s \in DOMAIN logs : /\ s \in DOMAIN logs'
                              /\ logs'[s] # logs[s] => s \in reopened]_vars

\* A record in the temporary file gets into a log (nfsdump.c:459-467), the last
\* interval's too, if the interval ends before the end of the model's time and
\* the run is ended neither by -c nor from outside.
RecordPublished ==
    \A r \in 1..MaxRecords :
        r \in tmp /\ ~ disturbed /\ cnt = 0 /\ end_time <= MaxTime
            ~> \E s \in DOMAIN logs : r \in logs[s]

\* "If we're doing intervals, we need to push the last output file out, and
\* rename it." (nfsdump.c:442): a program that stops by itself leaves no records
\* in the temporary file, unless it stops at the packet count of -c, where
\* nothing is pushed out (nfsdump.c:435).
LastPushedOut == pc = "down" /\ ~ disturbed /\ ~ CountReached => tmp = {}
=============================================================================
