------------------------------ MODULE NfsTrace ------------------------------
(***************************************************************************)
(* Where a log comes from: clients that work on the tree of an NFS server, *)
(* and nfsdump, which prints a line for each call and each reply that it   *)
(* sees.  Lines are lost, calls are sent and answered more than once, the  *)
(* operations of two clients overlap and have the same XIDs.               *)
(*                                                                         *)
(* The tree is a set of entries <<directory, name, handle>>.  A handle is  *)
(* not used for another file later on.                                     *)
(***************************************************************************)
EXTENDS Names, FiniteSets

CONSTANTS
    Clients, Root, Dirs, Files,
    Worlds,         \* a tree when the trace begins, how the names "a" and "b" are
                    \* spelled, whether they are printed raw, who has mounted it
    Mount,          \* the path of the mounted directory
    Does,           \* the operations of each client
    MaxOps, MaxFaults, MaxPause  \* bounds: operations, faults, seconds in a pause

FileNames == {"a", "b"}
Handles == Dirs \cup Files
NoHandle == "none"

ASSUME TraceAssumption ==
    /\ Root \in Dirs /\ Dirs \cap Files = {} /\ ~ (NoHandle \in Handles)
    /\ \A w \in Worlds : /\ w.tree \subseteq Dirs \X FileNames \X Handles
                         /\ w.raw \in BOOLEAN /\ w.a # w.b /\ w.mounted \subseteq Clients
    /\ IsFiniteSet(Clients) /\ {MaxOps, MaxFaults, MaxPause} \subseteq Nat

VARIABLES
    world,
    tree,
    ever, paths,        \* ghosts: entries that there were; paths that files had
    moved,              \* ghost: a directory was renamed
    flying,             \* the operation of each client, from its call to the next one
    ops,                \* how many operations each client has begun
    now,
    faults,             \* lines lost, calls and replies repeated, pauses
    log

traceVars == <<world, tree, ever, paths, moved, flying, ops, now, faults, log>>

\* Handles and names as they are in the log.
Handle(h) == <<Lit(h)>>
Chars(n) == CASE n = "a" -> world.a [] n = "b" -> world.b
              [] n = "." -> <<".">> [] n = ".." -> <<".", ".">> [] n = "" -> <<>>
              [] OTHER -> Mount
Printed(n) == csvField(print_string(world.raw, Chars(n)))

Entries(t, d) == {e \in t : e[1] = d}
Named(t, d, n) == {e \in t : e[1] = d /\ e[2] = n}
Alive(h) == h = Root \/ \E e \in tree : e[3] = h
Parent(t, d) == IF d = Root THEN Root ELSE (CHOOSE e \in t : e[3] = d)[1]

\* The paths of a tree, each a sequence of names.
PathsIn(t) ==
    LET below[k \in 0..Cardinality(Dirs)] ==
            IF k = 0 THEN {<<Root, <<>>>>}
            ELSE below[k - 1] \cup
                 {<<pe[2][3], Append(pe[1][2], pe[2][2])>> :
                     pe \in {x \in below[k - 1] \X t : x[1][1] = x[2][1]}}
    IN  below[Cardinality(Dirs)]
-----------------------------------------------------------------------------
\* The operations, with the handles and names of their calls.

\* A handle or a name that a call does not have.
Absent == ""
Request(op, fh, name, fh2, name2) ==
    [op |-> op, fh |-> fh, name |-> name, fh2 |-> fh2, name2 |-> name2]
AliveDirs == {d \in Dirs : Alive(d)}
mnt == Request("mnt", Absent, "mount", Absent, Absent)
Free(d) == {n \in FileNames : Named(tree, d, n) = {}}
Requests ==
    {mnt} \cup {Request("unknown", Absent, Absent, Absent, Absent)}
    \cup {Request("readdirp", d, Absent, Absent, Absent) : d \in AliveDirs}
    \cup {Request("lookup", d, n, Absent, Absent) : d \in AliveDirs, n \in FileNames}
    \cup {Request("lookup", d, IF d = Root THEN "." ELSE "..", Absent, Absent) : d \in AliveDirs}
    \cup (UNION {{Request(op, d, n, Absent, Absent) : op \in {"create", "mkdir"}, n \in Free(d)} :
                   d \in AliveDirs})
    \cup {Request("remove", e[1], e[2], Absent, Absent) : e \in tree}
    \cup (UNION {{Request("link", f, Absent, d, n) : n \in Free(d)} :
                   d \in AliveDirs, f \in {g \in Files : Alive(g)}})
    \cup (UNION {{Request("rename", e[1], e[2], d, n) : n \in Free(d)} : d \in AliveDirs, e \in tree})

\* What the server may do: the tree it leaves, and the names and handles of its
\* reply.  A created file's handle need not be in the reply, nor that of an entry.
Ok(t, list) == [tree |-> t, status |-> "OK", list |-> list]
Failed == [tree |-> tree, status |-> "ERR", list |-> <<>>]
New(h) == h # Root /\ \A e \in ever : e[3] # h

Listing(d) == <<<<".", d>>, <<"..", Parent(tree, d)>>>>
              \o [i \in 1..Cardinality(Entries(tree, d)) |->
                     LET e == SetToSeq(Entries(tree, d))[i] IN <<e[2], e[3]>>]
WithoutHandle(list, i) == [k \in DOMAIN list |-> IF k = i THEN <<list[k][1], NoHandle>> ELSE list[k]]

Answers(q) ==
    CASE ~ (q.fh \in {Absent} \cup Files) /\ ~ Alive(q.fh) -> {}
      [] q.op = "unknown" -> {Ok(tree, <<>>)}
      [] q.op = "mnt" -> {Ok(tree, <<<<"", Root>>>>)}
      [] q.op = "lookup" /\ q.name \in FileNames ->
            {Ok(tree, <<<<"", e[3]>>>>) : e \in Named(tree, q.fh, q.name)}
      [] q.op = "lookup" /\ q.name = "." -> {Ok(tree, <<<<"", q.fh>>>>)}
      [] q.op = "lookup" /\ q.name = ".." -> {Ok(tree, <<<<"", Parent(tree, q.fh)>>>>)}
      [] q.op = "readdirp" ->
            {Ok(tree, WithoutHandle(Listing(q.fh), i)) : i \in 0..Len(Listing(q.fh))}
      [] q.op \in {"create", "mkdir"} ->
            {Ok(tree \cup {<<q.fh, q.name, x[1]>>}, <<<<"", x[2]>>>>) :
                x \in {y \in Handles \X (Handles \cup {NoHandle}) :
                          /\ Named(tree, q.fh, q.name) = {}
                          /\ New(y[1]) /\ y[2] \in {y[1], NoHandle}
                          /\ y[1] \in IF q.op = "mkdir" THEN Dirs ELSE Files}}
      [] q.op = "remove" ->
            {Ok(tree \ {e}, <<>>) : e \in {x \in Named(tree, q.fh, q.name) : Entries(tree, x[3]) = {}}}
      [] q.op = "link" ->
            IF Alive(q.fh) /\ Alive(q.fh2) /\ Named(tree, q.fh2, q.name2) = {}
            THEN {Ok(tree \cup {<<q.fh2, q.name2, q.fh>>}, <<>>)} ELSE {}
      [] q.op = "rename" ->
            {Ok((tree \ {e}) \cup {<<q.fh2, q.name2, e[3]>>}, <<>>) :
                e \in {x \in Named(tree, q.fh, q.name) :
                          /\ Alive(q.fh2) /\ x[3] # q.fh2
                          /\ Named(tree, q.fh2, q.name2) = {}}}
-----------------------------------------------------------------------------
\* The lines.

CallLine(c, xid, q) ==
    [kind |-> "C3", t |-> now, client |-> c, xid |-> xid, op |-> q.op,
     fh |-> Handle(q.fh), name |-> Printed(q.name),
     fh2 |-> Handle(q.fh2), name2 |-> Printed(q.name2)]

\* nfsdump prints the word "fh" and then no handle, if there is none: the next word
\* is "ftype".
ReplyLine(c, xid, q, a) ==
    [kind |-> "R3", t |-> now, client |-> c, xid |-> xid, op |-> q.op, status |-> a.status,
     list |-> [i \in DOMAIN a.list |->
                  [name |-> Printed(a.list[i][1]),
                   follows |-> a.list[i][2] # NoHandle,
                   fh |-> IF a.list[i][2] # NoHandle THEN Handle(a.list[i][2])
                          ELSE <<Lit("ftype")>>]]]

\* Some have mounted the root before anything else.
TraceInit ==
    /\ world \in Worlds
    /\ tree = world.tree /\ ever = tree /\ paths = PathsIn(tree) /\ moved = FALSE
    /\ flying = [c \in Clients |-> [op |-> "none"]]
    /\ ops = [c \in Clients |-> IF c \in world.mounted THEN 1 ELSE 0]
    /\ now = 0 /\ faults = 0
    /\ log = FlattenSeq([i \in 1..Cardinality(world.mounted) |->
                 LET m == SetToSeq(world.mounted)[i]
                 IN  <<CallLine(m, 1, mnt), ReplyLine(m, 1, mnt, Ok(tree, <<<<"", Root>>>>))>>])

AllBegun == MapThenSumSet(LAMBDA c : ops[c], Clients \ world.mounted)
            + MapThenSumSet(LAMBDA c : ops[c] - 1, world.mounted) = MaxOps

Seen(line) ==
    \/ log' = Append(log, line) /\ UNCHANGED faults
    \/ faults < MaxFaults /\ faults' = faults + 1 /\ UNCHANGED log
Repeated(line) == faults < MaxFaults /\ faults' = faults + 1 /\ log' = Append(log, line)

\* A client begins its next operation.
Call(c) ==
    /\ flying[c].op = "none" \/ flying[c].op = "done"
    /\ ~ AllBegun
    /\ ops' = [ops EXCEPT ![c] = @ + 1]
    /\ \E q \in {r \in Requests : r.op \in Does[c]} :
          flying' = [flying EXCEPT ![c] = q] /\ Seen(CallLine(c, ops[c] + 1, q))
    /\ UNCHANGED <<world, tree, ever, paths, moved, now>>

\* The server does it and replies.
Reply(c) ==
    LET q == flying[c]
        all == IF Answers(q) = {} THEN {Failed} ELSE Answers(q)
    IN  /\ ~ (q.op \in {"none", "done"})
        /\ \E a \in all :
              LET line == ReplyLine(c, ops[c], q, a)
              IN  /\ tree' = a.tree
                  /\ Seen(line)
                  /\ flying' = [flying EXCEPT ![c] = [op |-> "done", line |-> line]]
        /\ ever' = ever \cup tree' /\ paths' = paths \cup PathsIn(tree')
        /\ moved' = (moved \/ (q.op = "rename" /\ \E e \in tree' \ tree : e[3] \in Dirs))
        /\ UNCHANGED <<world, ops, now>>

\* A call that was not answered in time is sent again.
Retransmit(c) ==
    /\ ~ (flying[c].op \in {"none", "done"})
    /\ Repeated(CallLine(c, ops[c], flying[c]))
    /\ UNCHANGED <<world, tree, ever, paths, moved, flying, ops, now>>

\* The server finds the answer to a repeated call in its cache.
ReplyAgain(c) ==
    /\ flying[c].op = "done"
    /\ Repeated([flying[c].line EXCEPT !.t = now])
    /\ UNCHANGED <<world, tree, ever, paths, moved, flying, ops, now>>

\* A pause, short or long.
Pause ==
    /\ faults < MaxFaults /\ faults' = faults + 1
    /\ now' \in now + 1..now + MaxPause
    /\ UNCHANGED <<world, tree, ever, paths, moved, flying, ops, log>>

TraceNext == Pause \/ \E c \in Clients : Call(c) \/ Reply(c) \/ Retransmit(c) \/ ReplyAgain(c)
=============================================================================
