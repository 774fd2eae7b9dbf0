------------------------------ MODULE PathTree ------------------------------
(***************************************************************************)
(* The programs of pathtree/ over a log of NfsTrace: fhparent.js, which    *)
(* finds the parents of handles, fullpath.cc, which makes paths of them,   *)
(* fullpath-svc.cc, which looks them up, and operations.js, which reads    *)
(* the log again, row by row, and waits for the service at each operation. *)
(*                                                                         *)
(* fhparent.js and operations.js are both made from the Parser of          *)
(* nfsdump.func.js.  They have one thread: reading is TRUE while the loop  *)
(* of readCsv goes on, and an event waits until it has ended.              *)
(***************************************************************************)
EXTENDS NfsTrace

CONSTANTS
    callLifetime,       \* seconds before a call without a reply is given up
    Argv,               \* the client whose operations are wanted
    MaxReplay, MaxReplayFaults  \* bounds on the rows that operations.js reads, and on
                                \* the faults in them

ASSUME PathTreeAssumption ==
    /\ {callLifetime, MaxReplay, MaxReplayFaults} \subseteq Nat
    /\ Argv \in Clients

VARIABLES
    stage,              \* "trace", "fhparent", "overflow", "served", "operations", "closed"
    pos,                \* rows read
    calls, nextCleanup, \* of the Parser
    pipe,               \* fields written by fhparent.js and not yet read by fullpath
    relations,          \* of fullpath
    table,              \* of fullpath-svc
    avail,              \* rows that csvParser has
    reading, paused, finished,
    asked,              \* the query of the service that is not answered
    tick,               \* resume is scheduled for the next tick
    out

parser == <<pos, calls, nextCleanup>>
node == <<avail, reading, paused, finished, asked, tick, out>>
pathTreeVars == <<traceVars, stage, parser, pipe, relations, table, node>>

NoCalls == [k \in {} |-> 0]
NoQuery == [fh |-> <<>>]

PathTreeInit ==
    /\ TraceInit
    /\ stage = "trace" /\ pos = 0 /\ calls = NoCalls /\ nextCleanup = 0
    /\ relations = NoCalls /\ pipe = <<>> /\ table = NoCalls
    /\ avail = 0 /\ reading = FALSE /\ paused = FALSE /\ finished = FALSE
    /\ asked = NoQuery /\ tick = FALSE /\ out = <<>>

\* The trace ends with nothing under way: a reply behind its end is like one that is
\* lost.
EndTrace ==
    /\ stage = "trace" /\ stage' = "fhparent" /\ AllBegun
    /\ \A c \in Clients : flying[c].op \in {"none", "done"}
    /\ UNCHANGED <<traceVars, parser, pipe, relations, table, node>>
-----------------------------------------------------------------------------
\* Parser (nfsdump.func.js).

\* A wrong key: the client is not in it.
Key_Xid(row) == <<Argv, row.xid>>

Key(row) == <<row.client, row.xid>>

Kept(t) == {k \in DOMAIN calls : calls[k].t >= t - callLifetime}

\* cleanup is called for each call; time does not go back in a log.
processCall(row) ==
    IF row.op = "unknown" THEN UNCHANGED <<calls, nextCleanup>>
    ELSE /\ calls' = LET kept == IF row.t < nextCleanup THEN DOMAIN calls ELSE Kept(row.t)
                     IN  [k \in kept \cup {Key(row)} |-> IF k = Key(row) THEN row ELSE calls[k]]
         /\ nextCleanup' = IF row.t < nextCleanup THEN nextCleanup ELSE row.t

\* The call of a reply, which is not pending any longer.
HasCall(row) == Key(row) \in DOMAIN calls
TakeCall(row) ==
    /\ calls' = [k \in DOMAIN calls \ {Key(row)} |-> calls[k]]
    /\ UNCHANGED nextCleanup
-----------------------------------------------------------------------------
\* fhparent.js and fullpath.cc.

MOUNTPOINT == <<Lit("MOUNTPOINT")>>
Dots == {<<Lit(".")>>, <<Lit("."), Lit(".")>>}

\* replyp[1]: behind a failed operation that is the word "len=..." (nfsrecord.c:518).
replyHandle(reply) == IF reply.list = <<>> THEN <<Lit("len")>> ELSE reply.list[1].fh

\* The entries of a listing up to the first without a handle: with it currentIndex
\* stays behind.
listed(list) ==
    LET bare == {i \in DOMAIN list : ~ list[i].follows}
        upTo == IF bare = {} THEN Len(list) ELSE Min(bare) - 1
    IN  SelectSeq(SubSeq(list, 1, upTo), LAMBDA e : ~ (e.name \in Dots))

\* The rows <<fh, name, parent>> that ExtractFhParent.process records.
fhparent(call, reply) ==
    CASE reply.status # "OK" -> <<>>
      [] reply.status = "OK" /\ reply.op = "mnt" ->
            <<<<replyHandle(reply), call.name, MOUNTPOINT>>>>
      [] reply.status = "OK" /\ reply.op \in {"lookup", "create", "mkdir"} ->
            <<<<replyHandle(reply), call.name, call.fh>>>>
      [] reply.status = "OK" /\ reply.op = "readdirp" ->
            LET l == listed(reply.list) IN [i \in DOMAIN l |-> <<l[i].fh, l[i].name, call.fh>>]
      [] reply.status = "OK" /\ reply.op = "link" -> <<<<call.fh, call.name2, call.fh2>>>>
      [] OTHER -> <<>>

\* Rows, as the fields that fullpath will find.
Written(rows) ==
    FlattenSeq([i \in DOMAIN rows |-> Fields(rows[i][1]) \o Fields(rows[i][2]) \o Fields(rows[i][3])])

ReadFhParent ==
    /\ stage = "fhparent" /\ pos < Len(log) /\ Len(pipe) < 3
    /\ pos' = pos + 1
    /\ LET row == log[pos + 1]
       IN  \/ row.kind = "C3" /\ processCall(row) /\ UNCHANGED pipe
           \/ /\ row.kind = "R3" /\ HasCall(row) /\ TakeCall(row)
              /\ pipe' = pipe \o Written(fhparent(calls[Key(row)], row))
           \/ row.kind = "R3" /\ ~ HasCall(row) /\ UNCHANGED <<calls, nextCleanup, pipe>>
    /\ UNCHANGED <<traceVars, stage, relations, table, node>>

\* The loop of parseInput takes three fields at a time, wherever the rows end; the
\* last relation of a handle counts.
parseInput ==
    /\ Len(pipe) >= 3
    /\ pipe' = SubSeq(pipe, 4, Len(pipe))
    /\ relations' = [fh \in DOMAIN relations \cup {pipe[1]} |->
                        IF fh = pipe[1] THEN [name |-> pipe[2], parent |-> pipe[3]] ELSE relations[fh]]
    /\ UNCHANGED <<traceVars, stage, parser, table, node>>

\* The handles that constructPath comes to, until it finds a mount point or a
\* handle without a relation; if there is no end to them it never returns.
Stops(fh) == ~ (fh \in DOMAIN relations) \/ relations[fh].parent = MOUNTPOINT
Climb(fh) ==
    LET up[k \in 0..Cardinality(DOMAIN relations)] ==
            IF k = 0 THEN fh
            ELSE LET below == up[k - 1] IN IF Stops(below) THEN below ELSE relations[below].parent
    IN  up
Circular(fh) == ~ Stops(Climb(fh)[Cardinality(DOMAIN relations)])

\* A wrong order: the names are put behind one another on the way up.
Joined_Upwards(names) == FlattenSeq([k \in DOMAIN names |-> IF k = 1 THEN names[k] ELSE <<Lit("/")>> \o names[k]])

\* Names on the way up, joined from the top to the bottom.
Joined(names) ==
    FlattenSeq([k \in DOMAIN names |->
        LET n == names[Len(names) + 1 - k] IN IF k = 1 THEN n ELSE <<Lit("/")>> \o n])

constructPath(fh) ==
    LET up == Climb(fh)
        end == Min({k \in DOMAIN up : Stops(up[k])})
        resolved == up[end] \in DOMAIN relations
    IN  [top |-> IF resolved THEN <<>> ELSE up[end],
         path |-> Joined([k \in 1..IF resolved THEN end + 1 ELSE end |-> relations[up[k - 1]].name])]

\* writeResults, whose lines fullpath-svc reads into its table.
WriteResults ==
    /\ stage = "fhparent" /\ pos = Len(log) /\ Len(pipe) < 3
    /\ IF \E fh \in DOMAIN relations : Circular(fh)
       THEN stage' = "overflow" /\ UNCHANGED table
       ELSE /\ stage' = "served"
            /\ table' = [fh \in DOMAIN relations |-> constructPath(fh)]
    /\ UNCHANGED <<traceVars, parser, pipe, relations, node>>
-----------------------------------------------------------------------------
\* operations.js.

\* A new Parser, after the connection to the service.
StartOperations ==
    /\ stage = "served" /\ Len(log) <= MaxReplay /\ faults <= MaxReplayFaults
    /\ stage' = "operations"
    /\ pos' = 0 /\ calls' = NoCalls /\ nextCleanup' = 0
    /\ UNCHANGED <<traceVars, pipe, relations, table, node>>

\* The handle that record has to ask for, and the name to append to its path.
Query(call, reply) ==
    CASE reply.op = "readdirp" -> [fh |-> call.fh, append |-> <<>>]
      [] reply.op \in {"lookup", "remove", "rename"} -> [fh |-> call.fh, append |-> call.name]
      [] reply.op \in {"create", "mkdir"} -> [fh |-> replyHandle(reply), append |-> <<>>]
      [] OTHER -> NoQuery

filterCall(row) == row.client = Argv

\* One row of readCsv: process may pause the Parser, and then the service is asked.
ReadRow ==
    /\ stage = "operations" /\ reading /\ ~ paused /\ pos < avail
    /\ pos' = pos + 1
    /\ LET row == log[pos + 1]
       IN  \/ /\ row.kind = "C3" /\ filterCall(row) /\ processCall(row)
              /\ UNCHANGED <<paused, asked>>
           \/ /\ row.kind = "R3" /\ HasCall(row) /\ TakeCall(row)
              /\ LET call == calls[Key(row)]
                     q == Query(call, row)
                 IN  IF q = NoQuery THEN UNCHANGED <<paused, asked>>
                     ELSE /\ paused' = TRUE
                          /\ asked' = [fh |-> q.fh, append |-> q.append, t |-> call.t, op |-> row.op]
           \/ /\ IF row.kind = "C3" THEN ~ filterCall(row) ELSE ~ HasCall(row)
              /\ UNCHANGED <<calls, nextCleanup, paused, asked>>
    /\ UNCHANGED <<traceVars, stage, pipe, relations, table, avail, reading, finished, tick, out>>

\* A wrong end: it is not looked at whether the Parser is paused.
LastRead_Paused == finished

LastRead == finished /\ ~ paused

\* The end of readCsv; finishCb closes the connection.
EndRead ==
    /\ stage = "operations" /\ reading /\ (paused \/ pos = avail)
    /\ reading' = FALSE
    /\ IF LastRead THEN finished' = FALSE /\ stage' = "closed" ELSE UNCHANGED <<finished, stage>>
    /\ UNCHANGED <<traceVars, parser, pipe, relations, table, avail, paused, asked, tick, out>>

\* Events.

Idle == stage = "operations" /\ ~ reading /\ ~ tick

\* "readable": some more rows are there.
Readable ==
    /\ Idle
    /\ \E n \in avail + 1..Len(log) : avail' = n
    /\ reading' = TRUE
    /\ UNCHANGED <<traceVars, stage, parser, pipe, relations, table, paused, finished, asked, tick, out>>

\* "finish": the log is at its end.
Finish ==
    /\ Idle /\ avail = Len(log) /\ ~ finished
    /\ finished' = TRUE /\ reading' = TRUE
    /\ UNCHANGED <<traceVars, stage, parser, pipe, relations, table, avail, paused, asked, tick, out>>

\* The fields that the service has of a handle, and the line that it sends of them.
Fullpath(fh) == IF fh \in DOMAIN table THEN <<fh, table[fh].top, table[fh].path>> ELSE <<fh>>
serveSocket(fh) ==
    FlattenSeq([k \in DOMAIN Fullpath(fh) |->
        IF k = 1 THEN Fullpath(fh)[k] ELSE <<Lit(",")>> \o Fullpath(fh)[k]])

\* What the callback of a row gets: no path if the handle was echoed.
processResult(row) ==
    CASE Len(row) < 3 -> <<>>
      [] Len(row) >= 3 /\ (row[3] = <<>> \/ row[2] = <<>>) -> row[3]
      [] OTHER -> <<Lit("/UNRESOLVED-")>> \o row[2] \o <<Lit("/")>> \o row[3]
Row(q, path) ==
    [t |-> q.t, op |-> q.op,
     name |-> IF q.append = <<>> THEN path ELSE path \o <<Lit("/")>> \o q.append]

\* The answer, which also schedules the resumption.  It does not come if the parser of
\* svcQuerier makes no row of the line.
Answer ==
    /\ Idle /\ asked # NoQuery
    /\ LET row == csvRow(serveSocket(asked.fh))
           path == processResult(row)
       IN  /\ row # <<>> /\ row[1] = asked.fh
           /\ out' = IF path = <<>> THEN out ELSE Append(out, Row(asked, path))
    /\ asked' = NoQuery /\ tick' = TRUE
    /\ UNCHANGED <<traceVars, stage, parser, pipe, relations, table, avail, reading, paused, finished>>

\* A wrong resumption: the rows that are there already are not read.
Resume_NoRead ==
    /\ tick /\ tick' = FALSE
    /\ paused' = FALSE
    /\ UNCHANGED <<traceVars, stage, parser, pipe, relations, table, avail, reading, finished, asked, out>>

Resume ==
    /\ tick /\ tick' = FALSE
    /\ paused' = FALSE /\ reading' = TRUE
    /\ UNCHANGED <<traceVars, stage, parser, pipe, relations, table, avail, finished, asked, out>>

operations == ReadRow \/ EndRead \/ Readable \/ Finish \/ Answer \/ Resume
-----------------------------------------------------------------------------
Trace == stage = "trace" /\ TraceNext /\ UNCHANGED <<stage, parser, pipe, relations, table, node>>

PathTreeNext ==
    \/ Trace \/ EndTrace
    \/ ReadFhParent \/ parseInput \/ WriteResults \/ StartOperations \/ operations

\* Nothing is assumed of the trace.  The programs run, the rest of the log is read
\* and the service answers.
PathTreeSpec == PathTreeInit /\ [][PathTreeNext]_pathTreeVars /\ WF_pathTreeVars(operations)
-----------------------------------------------------------------------------
\* A name with a comma, possible with RAWNAMES only, shifts all fields behind it.
Aligned ==
    world.raw => ~ Contains(Mount, ",") /\ \A n \in FileNames : ~ Contains(Chars(n), ",")

\* The last call before reply i that has its key, known and not filtered.
CallsOf(i, who) == {j \in 1..i - 1 : /\ log[j].kind = "C3" /\ log[j].op # "unknown"
                                     /\ log[j].client = log[i].client /\ log[j].xid = log[i].xid
                                     /\ log[j].client \in who}
\* It is a pair with the reply unless it had one before, or a call came too long after it.
Paired(i, who) ==
    /\ log[i].kind = "R3" /\ CallsOf(i, who) # {}
    /\ LET j == Max(CallsOf(i, who))
       IN  \A k \in j + 1..i - 1 :
              IF log[k].kind = "R3"
              THEN log[k].client # log[i].client \/ log[k].xid # log[i].xid
              ELSE log[k].op # "unknown" /\ log[k].client \in who => log[k].t - log[j].t <= callLifetime

Relates(i) == log[i].status = "OK" /\ log[i].op \in {"mnt", "lookup", "create", "mkdir"}
              /\ log[i].list[1].follows

\* fhparent.js reports what was so on the server and nothing else, although lines
\* are missing or repeated and the clients' XIDs are the same (nfsdump.func.js:
\* 125-134): each relation that fullpath.cc keeps was an entry of the tree once,
\* and a reply whose call was logged within callLifetime gives its handle a
\* relation.  Two names that differ are printed in two ways (nfs_v3.c:1255-1266).
\* A handle called "ftype" comes from a reply without one (fhparent.js:57).
RelationsExact ==
    stage \in {"served", "overflow"} =>
        /\ Aligned => \A fh \in DOMAIN relations :
              LET r == relations[fh]
              IN  \/ r.parent = MOUNTPOINT /\ fh = Handle(Root)
                  \/ fh = <<Lit("ftype")>>
                  \/ r.name = Printed(".") /\ r.parent = fh
                  \/ /\ r.name = Printed("..")
                     /\ r.parent = fh \/ \E e \in ever : Handle(e[1]) = fh /\ Handle(e[3]) = r.parent
                  \/ \E e \in ever : fh = Handle(e[3]) /\ r.name = Printed(e[2]) /\ r.parent = Handle(e[1])
        /\ Aligned => \A i \in DOMAIN log :
              Paired(i, Clients) /\ Relates(i) => replyHandle(log[i]) \in DOMAIN relations
        /\ \A e \in ever, f \in ever : e[2] # f[2] => Printed(e[2]) # Printed(f[2])

DotLookup == \E i \in DOMAIN log : log[i].kind = "C3" /\ log[i].op = "lookup" /\ log[i].name \in Dots
FullName(p) == Mount \o FlattenSeq([k \in DOMAIN p |-> <<"/">> \o Chars(p[k])])

\* The path that fullpath.cc:77-97 puts together from relations of different times
\* is one that the file had at some time, printed as nfsdump prints a path, unless
\* a directory was renamed, which fhparent.js:66 ignores.  The walk to the top ends
\* unless there was such a rename or a lookup of "." or "..".  The line that the service
\* has of a handle is read as it was written (fullpath.func.js:8).
PathsTrue ==
    /\ stage = "served" /\ Aligned => \A fh \in DOMAIN table : csvRow(serveSocket(fh)) = Fullpath(fh)
    /\ stage = "served" /\ Aligned /\ ~ moved => \A fh \in DOMAIN table :
          table[fh].top = <<>> /\ fh # <<Lit("ftype")>> =>
              \E p \in paths : /\ fh = Handle(p[1])
                               /\ table[fh].path = csvField(print_string(world.raw, FullName(p[2])))
    /\ stage = "overflow" /\ Aligned => moved \/ DotLookup

\* The query of reply i to a call of one client, and what should be written of it.
QueryAt(i) == Query(log[Max(CallsOf(i, {Argv}))], log[i])
Operation(i) ==
    LET path == processResult(Fullpath(QueryAt(i).fh))
    IN  IF QueryAt(i) = NoQuery \/ path = <<>> THEN <<>>
        ELSE <<Row([fh |-> QueryAt(i).fh, append |-> QueryAt(i).append,
                    t |-> log[Max(CallsOf(i, {Argv}))].t, op |-> log[i].op], path)>>

\* The lines that the service has to send are read as they were written.  The quotes
\* around a name with a comma, torn apart by tr, are not: behind d,"," there is no path,
\* and behind r,",d the row does not end.
Legible ==
    \A fh \in {QueryAt(i).fh : i \in {j \in DOMAIN log : Paired(j, {Argv})}} :
        csvRow(serveSocket(fh)) = Fullpath(fh)

\* When the connection is closed (operations.js:132) every operation of the client
\* has been written, once and in the order of the replies, wherever the rows came
\* in pieces and the Parser was paused (nfsdump.func.js:71-90).
OperationsExact ==
    stage = "closed" /\ Legible =>
        /\ out = FlattenSeq([i \in DOMAIN log |-> IF Paired(i, {Argv}) THEN Operation(i) ELSE <<>>])
        /\ asked = NoQuery

\* operations.js comes from the start of its log to the end (nfsdump.func.js:87-90),
\* unless it has to wait for a row that does not end.
AllRead == stage = "operations" /\ avail = 0 /\ Legible ~> stage = "closed"
=============================================================================
