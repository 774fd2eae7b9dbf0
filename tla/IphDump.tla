------------------------------ MODULE IphDump ------------------------------
(***************************************************************************)
(* A run of iphdump, from its options to its end: main, updateOutFile,     *)
(* printSummary and cleanup of nfsdump2/iphdump.c.  The file is a copy of  *)
(* nfsdump.c whose start-up, with its privileges and signals, is the same, *)
(* and whose records go elsewhere: iprecord.c prints to the standard       *)
(* output, and printSummary opens a file and leaves it.                    *)
(*                                                                         *)
(* Of the time only two facts matter, that the interval is over and that   *)
(* the life is; of a file only its descriptor.  The names of logs, and     *)
(* runs that follow one another, are the subject of IntervalLog.           *)
(***************************************************************************)
EXTENDS Integers, FiniteSets

CONSTANTS
    Counts,             \* values of -c, 0 if it is not given
    Iterations,         \* values of -N as atoi reads them
    UintMax,            \* the greatest unsigned int
    PACKET_POLL_CNT,    \* packets between two looks at the clock
    SavedPackets,       \* numbers of packets in a savefile
    OPEN_MAX,           \* how many files a process may have open
    MaxLines            \* bound on the lines that are printed

ASSUME IphDumpAssumption ==
    /\ Counts \subseteq Nat /\ Iterations \subseteq Int /\ SavedPackets \subseteq Nat
    /\ {UintMax, PACKET_POLL_CNT, MaxLines} \subseteq Nat \ {0}
    /\ \A v \in Iterations : -v <= UintMax /\ v <= UintMax
    /\ OPEN_MAX \in Nat /\ OPEN_MAX > 7     \* enough to start

VARIABLES
    opt,            \* the options
    pc,             \* the next step of main, or how the program ended
    uid,           \* "root" (set-user-ID), then "user"
    hup,            \* what SIGHUP does: "default", "ignore" or "cleanup"
    nohup,          \* it was ignored when the program started
    opened,         \* ghost: pairs of a file named by the user and the uid that opened it
    fds,            \* the number of open descriptors
    over, dead,     \* now >= Interval.end_time, now >= EndOfLife
    iters, total_cnt, left, saved,
    last,           \* updateOutFile was called at the end of life
    OutFile,        \* "NULL", "stdout" or "tmp"
    logged,         \* how many logs were renamed
    lines, written, \* lines printed, and those of them that left the buffer
    hupAt, termAt   \* where the program was when SIGHUP or SIGTERM ended it, or "no"

started == <<opt, nohup, saved>>
startup == <<uid, hup, opened>>
clocks == <<over, dead>>
loop == <<iters, total_cnt, left, last>>
output == <<fds, OutFile, logged, lines, written>>
signals == <<hupAt, termAt>>
runVars == <<opt, nohup, saved, pc, startup, clocks, loop, output, signals>>

Ended == {"exit", "error", "killed", "abort"}
Options == [count : Counts, iterations : Iterations, active : BOOLEAN, life : BOOLEAN,
            offline : BOOLEAN, infile : BOOLEAN, dump : BOOLEAN, lflag : BOOLEAN,
            quick : BOOLEAN]

\* Each of -N, -I, -T and -B makes the interval active; one iteration is the default.
Sensible(o) == ~ o.active => o.iterations = 1

RunInit ==
    /\ opt \in {o \in Options : Sensible(o)} /\ pc = "options"
    /\ uid = "root" /\ nohup \in BOOLEAN
    /\ hup = (IF nohup THEN "ignore" ELSE "default")
    /\ opened = {} /\ fds = 3
    /\ over = TRUE /\ dead = FALSE          \* end_time is 0
    /\ iters = 0 /\ total_cnt = 0 /\ left = 0 /\ last = FALSE
    /\ saved \in IF opt.offline THEN SavedPackets ELSE {0}
    /\ OutFile = "NULL" /\ logged = 0 /\ lines = 0 /\ written = 0
    /\ hupAt = "no" /\ termAt = "no"
-----------------------------------------------------------------------------
\* Start-up: one action per system call, and error() after each that may fail.

Open(file) == opened' = opened \cup {<<file, uid>>} /\ fds' = fds + 1
StartingUp == UNCHANGED <<started, clocks, loop, OutFile, logged, lines, written, signals>>

\* atoi gives a negative number, and iters is unsigned: only 0 is refused.
Unsigned(v) == IF v < 0 THEN UintMax + 1 + v ELSE v

\* A wrong order: the savefile is opened first.
ParseOptions_OpenFirst ==
    /\ pc = "options"
    /\ iters' = Unsigned(opt.iterations)
    /\ pc' = IF iters' = 0 THEN "error" ELSE "open"
    /\ UNCHANGED <<started, startup, clocks, total_cnt, left, last, output, signals>>

ParseOptions ==
    /\ pc = "options"
    /\ iters' = Unsigned(opt.iterations)
    /\ pc' = IF iters' = 0 THEN "error" ELSE IF opt.offline THEN "setuid" ELSE "open"
    /\ UNCHANGED <<started, startup, clocks, total_cnt, left, last, output, signals>>

\* A savefile is opened after setuid, a device before it.
OpenInput ==
    /\ pc = "open"
    /\ \/ pc' = "error" /\ UNCHANGED <<opened, fds>>
       \/ /\ pc' = IF uid = "root" THEN "setuid" ELSE "filter"
          /\ IF opt.offline THEN Open("savefile") ELSE fds' = fds + 1 /\ UNCHANGED opened
    /\ UNCHANGED <<uid, hup>> /\ StartingUp

SetUid ==
    /\ pc = "setuid"
    /\ uid' = "user"
    /\ pc' = IF fds = 3 THEN "open" ELSE "filter"
    /\ UNCHANGED <<hup, opened, fds>> /\ StartingUp

\* read_infile leaves its descriptor open; copy_argv opens nothing.  Then
\* pcap_compile.
ReadFilter ==
    /\ pc = "filter"
    /\ \/ pc' = "error" /\ UNCHANGED <<opened, fds>>
       \/ /\ pc' = "sigterm"
          /\ IF opt.infile THEN Open("filter") ELSE UNCHANGED <<opened, fds>>
    /\ UNCHANGED <<uid, hup>> /\ StartingUp

setsignal(from, to) ==
    /\ pc = from /\ pc' = to
    /\ hup' = (IF from = "sighup" THEN "cleanup" ELSE hup)
    /\ UNCHANGED <<uid, opened, fds>> /\ StartingUp

SigTerm == setsignal("sigterm", "sigint")
SigInt == setsignal("sigint", "sighup")
SigHup == setsignal("sighup", "nohup")

\* A wrong cooperation: the handler stays.
RestoreHup_Never ==
    /\ pc = "nohup" /\ pc' = "dump"
    /\ UNCHANGED <<uid, hup, opened, fds>> /\ StartingUp

\* "Cooperate with nohup(1)": what had been set is set again.
RestoreHup ==
    /\ pc = "nohup" /\ pc' = "dump"
    /\ hup' = IF nohup THEN "ignore" ELSE hup
    /\ UNCHANGED <<uid, opened, fds>> /\ StartingUp

\* pcap_setfilter, then the file of -w or the printer of the link type.
OpenDump ==
    /\ pc = "dump"
    /\ \/ pc' = "error" /\ UNCHANGED <<opened, fds>>
       \/ /\ pc' = IF opt.active \/ opt.life THEN "poll" ELSE "plain"
          /\ IF opt.dump THEN Open("dump") ELSE UNCHANGED <<opened, fds>>
    /\ UNCHANGED <<uid, hup>> /\ StartingUp
-----------------------------------------------------------------------------
\* The loop of main.

Running == UNCHANGED <<started, startup, signals>>
CountReached == opt.count > 0 /\ total_cnt >= opt.count

\* Behind the loop: pcap_close, the summary of -q (opened like any other), exit,
\* which writes the buffers.
Leave(to) ==
    /\ pc' = to
    /\ Running /\ UNCHANGED <<clocks, loop, output>>

\* A wrong test: the end of life is looked at for intervals only.
LifeOver_Intervals == opt.life /\ dead /\ opt.active

LifeOver == opt.life /\ dead

StopAtCount == pc = "poll" /\ CountReached /\ Leave("close")
StopAtEndOfLife == pc = "poll" /\ ~ CountReached /\ LifeOver /\ ~ opt.active /\ Leave("close")

Close ==
    /\ pc = "close" /\ pc' = "closed"
    /\ fds' = fds - 1
    /\ Running /\ UNCHANGED <<clocks, loop, OutFile, logged, lines, written>>

Exit ==
    /\ pc = "closed" /\ pc' = "exit" /\ written' = lines
    /\ opened' = IF opt.quick THEN opened \cup {<<"summary", uid>>} ELSE opened
    /\ UNCHANGED <<started, uid, hup, clocks, loop, fds, OutFile, logged, lines, signals>>

\* updateOutFile is called at the end of life and at the end of an interval.
Expire ==
    /\ pc = "poll" /\ ~ CountReached /\ opt.active
    /\ LifeOver \/ over
    /\ last' = LifeOver
    /\ pc' = IF OutFile = "tmp" THEN "rename" ELSE "tmp"
    /\ Running /\ UNCHANGED <<clocks, iters, total_cnt, left, output>>

\* fclose and rename.
Rename ==
    /\ pc = "rename" /\ pc' = "sum"
    /\ fds' = fds - 1 /\ logged' = logged + 1
    /\ Running /\ UNCHANGED <<clocks, loop, OutFile, lines, written>>

\* A wrong summary: the log is opened again as well.
printSummary_Two ==
    /\ pc = "sum" /\ pc' = "tmp"
    /\ fds' = IF fds + 1 < OPEN_MAX THEN fds + 2 ELSE OPEN_MAX
    /\ Running /\ UNCHANGED <<clocks, loop, OutFile, logged, lines, written>>

\* Opens the file, if it can be opened, and neither writes to it nor closes it.
printSummary ==
    /\ pc = "sum" /\ pc' = "tmp"
    /\ fds' = IF fds < OPEN_MAX THEN fds + 1 ELSE fds
    /\ Running /\ UNCHANGED <<clocks, loop, OutFile, logged, lines, written>>

\* fopen of the temporary file and assert (OutFile != NULL), then what main
\* does next.  abort() does not write the buffers.
OpenTmp ==
    /\ pc = "tmp" /\ fds < OPEN_MAX
    /\ fds' = fds + 1 /\ OutFile' = "tmp"
    /\ over' = FALSE
    /\ IF last \/ iters = 0
       THEN pc' = "close" /\ UNCHANGED <<iters, left>>
       ELSE pc' = "capture" /\ iters' = iters - 1 /\ left' = PACKET_POLL_CNT
    /\ opened' = opened \cup {<<"log", uid>>}
    /\ UNCHANGED <<started, uid, hup, dead, total_cnt, last, logged, lines, written, signals>>

AssertFails ==
    /\ pc = "tmp" /\ fds = OPEN_MAX
    /\ pc' = "abort"
    /\ Running /\ UNCHANGED <<clocks, loop, output>>

Capture ==
    /\ pc = "poll" /\ ~ CountReached /\ ~ LifeOver /\ ~ (opt.active /\ over)
    /\ pc' = "capture" /\ left' = PACKET_POLL_CNT
    /\ Running /\ UNCHANGED <<clocks, iters, total_cnt, last, output>>

\* Without intervals and -L: one pcap_loop, for ever if there is no -c.
CapturePlain ==
    /\ pc = "plain"
    /\ pc' = "capture" /\ left' = IF opt.count = 0 THEN -1 ELSE opt.count
    /\ Running /\ UNCHANGED <<clocks, iters, total_cnt, last, output>>
-----------------------------------------------------------------------------
\* pcap_loop.

AtEnd == opt.offline /\ saved = 0

\* A wrong -l: the buffer stays as it was.
Buffer_Full(n) == written

\* How many lines have left the buffer after the n-th, at least.
Buffer(n) == IF opt.lflag THEN n ELSE written

\* A packet that is printed (to the standard output, whatever OutFile is), that is
\* not, or that goes to the file of -w.
Packet ==
    /\ pc = "capture" /\ left # 0 /\ ~ AtEnd
    /\ left' = IF left > 0 THEN left - 1 ELSE left
    /\ saved' = IF opt.offline THEN saved - 1 ELSE saved
    /\ \/ /\ ~ opt.dump /\ lines < MaxLines
          /\ lines' = lines + 1
          /\ written' \in {Buffer(lines'), lines'}
          /\ OutFile' = IF OutFile = "NULL" THEN "stdout" ELSE OutFile
       \/ UNCHANGED <<lines, written, OutFile>>
    /\ UNCHANGED <<opt, nohup, pc, startup, clocks, iters, total_cnt, last, fds, logged, signals>>

\* It returns at the end of a savefile too, as if all packets had come.
LoopReturns ==
    /\ pc = "capture" /\ (opt.active \/ opt.life)
    /\ left = 0 \/ AtEnd
    /\ pc' = "poll" /\ left' = 0
    /\ total_cnt' = IF opt.count > 0 THEN total_cnt + PACKET_POLL_CNT ELSE 0
    /\ Running /\ UNCHANGED <<clocks, iters, last, output>>

PlainReturns ==
    /\ pc = "capture" /\ ~ opt.active /\ ~ opt.life
    /\ left = 0 \/ AtEnd
    /\ Leave("close")

\* pcap_loop fails: exit(1).
LoopFails ==
    /\ pc = "capture"
    /\ pc' = "exit" /\ written' = lines
    /\ Running /\ UNCHANGED <<clocks, loop, fds, OutFile, logged, lines>>
-----------------------------------------------------------------------------
\* The environment: time and signals.

IntervalPasses ==
    /\ ~ over /\ over' = TRUE
    /\ UNCHANGED <<started, pc, startup, dead, loop, output, signals>>
LifePasses ==
    /\ opt.life /\ ~ dead /\ dead' = TRUE
    /\ UNCHANGED <<started, pc, startup, over, loop, output, signals>>

\* cleanup looks at the capture, which is freed already after pcap_close: what
\* happens then is open.  Otherwise it calls exit.  The default action does not
\* write the buffers.
cleanup ==
    \/ pc' = "exit" /\ written' = lines
    \/ pc = "closed" /\ pc' = "killed" /\ UNCHANGED written
EndedBy(handled) ==
    /\ ~ (pc \in Ended)
    /\ IF handled THEN cleanup ELSE pc' = "killed" /\ UNCHANGED written
    /\ UNCHANGED <<started, startup, clocks, loop, fds, OutFile, logged, lines>>

Hangup == hup # "ignore" /\ EndedBy(hup = "cleanup") /\ hupAt' = pc /\ UNCHANGED termAt
BeforeTerm == {"options", "open", "setuid", "filter", "sigterm"}
Terminate == EndedBy(~ (pc \in BeforeTerm)) /\ termAt' = pc /\ UNCHANGED hupAt

start == ParseOptions \/ OpenInput \/ SetUid \/ ReadFilter
         \/ SigTerm \/ SigInt \/ SigHup \/ RestoreHup \/ OpenDump
updateOutFile == Rename \/ printSummary \/ OpenTmp \/ AssertFails
main == \/ start \/ updateOutFile
        \/ StopAtCount \/ StopAtEndOfLife \/ Expire \/ Capture \/ CapturePlain
        \/ LoopReturns \/ PlainReturns \/ Close \/ Exit

RunNext ==
    \/ main \/ Packet \/ LoopFails
    \/ IntervalPasses \/ LifePasses \/ Hangup \/ Terminate

RunSpec == RunInit /\ [][RunNext]_runVars

\* The program runs, packets come ("This definition assumes that packets are
\* frequent", iphdump.c:423) and time passes.
FairSpec ==
    /\ RunSpec
    /\ WF_runVars(main) /\ WF_runVars(Packet)
    /\ WF_runVars(IntervalPasses) /\ WF_runVars(LifePasses)
-----------------------------------------------------------------------------
\* Where main is before its loop, and in it.
Starting == {"options", "open", "setuid", "filter", "sigterm", "sigint", "sighup",
             "nohup", "dump"}
Looping == {"poll", "plain", "capture", "rename", "sum", "tmp", "close", "closed"}

\* What the options, flags and counters of a run can be.
TypeOK ==
    /\ opt \in Options /\ nohup \in BOOLEAN /\ saved \in Nat
    /\ pc \in Starting \cup Looping \cup Ended
    /\ over \in BOOLEAN /\ dead \in BOOLEAN /\ last \in BOOLEAN
    /\ uid \in {"root", "user"} /\ hup \in {"default", "ignore", "cleanup"}
    /\ iters \in 0..UintMax /\ total_cnt \in Nat /\ left \in Int
    /\ OutFile \in {"NULL", "stdout", "tmp"}
    /\ fds \in Int /\ logged \in Nat /\ lines \in Nat /\ written \in Nat

\* "Let user own process after socket has been opened" (iphdump.c:375) and "this
\* prevents the user from reading anyone's trace file" (iphdump.c:345): whatever
\* the options, every file that the user names is opened with the user's rights.
FilesAsUser == \A o \in opened : o[2] = "user"

Base == 4 + (IF opt.infile THEN 1 ELSE 0) + (IF opt.dump THEN 1 ELSE 0)

\* assert (OutFile != NULL) (iphdump.c:596) fails because each interval leaves
\* the file of its summary open (iphdump.c:625), and for no other reason: not
\* before as many logs are complete as there are descriptors left.
OutFileOpens ==
    /\ pc = "abort" => logged >= OPEN_MAX - Base
    /\ fds <= Base + 1 + logged

\* No line is lost that was printed (iprecord.c:323): all are on the standard
\* output when the program has ended, by itself or by a signal, and with -l at any
\* time.  What is in the buffer goes with a failed assertion, and with a signal
\* that comes after pcap_close (iphdump.c:478), whose handler uses the capture
\* (iphdump.c:494).
LinesKept ==
    /\ opt.lflag => written = lines
    /\ pc \in Ended \ {"abort"} => written = lines \/ "closed" \in {hupAt, termAt}

\* "Cooperate with nohup(1)" (iphdump.c:390): a program started with SIGHUP
\* ignored is not ended by it, but for the moment between the call that sets the
\* handler and the one that takes it back.
NohupKept == nohup /\ hupAt # "no" => hupAt = "nohup"

\* A program that was given an end, by -c, -L or a number of intervals, comes to
\* it, also if it reads a savefile that ends before (iphdump.c:433-475).
Bounded == opt.count > 0 \/ opt.life \/ opt.active \/ opt.offline
EndsInTime == Bounded ~> pc \in Ended
=============================================================================
