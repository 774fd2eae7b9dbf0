------------------------------ MODULE Decoders ------------------------------
(***************************************************************************)
(* printRecord: messages of both versions of NFS are decoded one after     *)
(* another, as much of each as was captured, and the bytes that were read  *)
(* and written are counted.                                                *)
(***************************************************************************)
EXTENDS NfsV2, NfsV3

CONSTANTS
    Variants,       \* of messages, see NfsV3
    MEG,            \* the bytes in a megabyte (1024 * 1024)
    Garbage,        \* contents of a variable that was not assigned
    MaxMessages     \* bound on the number of messages

ASSUME DecodersAssumption ==
    /\ Variants \subseteq [fh : Nat, name : Nat, set : BOOLEAN, attr : BOOLEAN, pre : BOOLEAN,
                           entries : Nat, count : Nat]
    /\ MEG \in Nat \ {0} /\ Garbage \subseteq Nat /\ MaxMessages \in Nat

VARIABLES
    kind,           \* what is decoded: version, call or reply, procedure and status
    outcome,        \* "waiting", "loaded", then "ok", "short" or "crash"
    printed,        \* the pairs of label and word of the last message
    bytes,          \* for each counter the bytes b and megabytes m counted
    sent,           \* ghost: for each counter what the messages said
    exact,          \* ghost: no message lacked the count
    n               \* the number of messages

vars == <<message, actual, junk, omitReaddirContents, kind, outcome, printed, bytes,
          sent, exact, n>>

Counters == {"c3_write_b", "r3_read_b", "c2_write_b", "r2_read_b"}
Kinds == [ver : {3}, call : {TRUE}, op : Ops3, ok : {TRUE}] \cup
         [ver : {3}, call : {FALSE}, op : Ops3, ok : BOOLEAN] \cup
         [ver : {2}, call : {TRUE}, op : Ops2, ok : {TRUE}] \cup
         [ver : {2}, call : {FALSE}, op : Ops2, ok : BOOLEAN]
NoKind == [ver |-> 3, call |-> TRUE, op |-> "null", ok |-> TRUE]

Layout(k, v) ==
    CASE k.ver = 3 /\ k.call   -> Args3(k.op, v)
      [] k.ver = 3 /\ ~ k.call -> Res3(k.op, k.ok, v)
      [] k.ver = 2 /\ k.call   -> Args2(k.op, v)
      [] k.ver = 2 /\ ~ k.call -> Res2(k.op, k.ok, v)

Init ==
    /\ message = <<>> /\ actual = 0 /\ junk = 0
    /\ omitReaddirContents \in BOOLEAN
    /\ kind = NoKind /\ outcome = "waiting" /\ printed = {}
    /\ bytes = [c \in Counters |-> [b |-> 0, m |-> 0]]
    /\ sent = [c \in Counters |-> 0] /\ exact = TRUE
    /\ n = 0

\* A message arrives, of which only the first words were captured, or which
\* is followed by another in the same segment.
Receive ==
    /\ outcome = "waiting" /\ n < MaxMessages
    /\ \E k \in Kinds, v \in Variants :
          /\ kind' = k
          /\ message' = Layout(k, v)
    /\ actual' \in 0..(Len(message') + 1)
    /\ junk' \in {0, 1}
    /\ outcome' = "loaded"
    /\ n' = n + 1
    /\ UNCHANGED <<omitReaddirContents, printed, bytes, sent, exact>>
-----------------------------------------------------------------------------
\* The counters: where the count stands, and what was found there.

Counter(k) ==
    CASE k.ver = 3 /\ k.call /\ k.op = "write"        -> {"c3_write_b"}
      [] k.ver = 3 /\ ~ k.call /\ k.op = "read" /\ k.ok -> {"r3_read_b"}
      [] k.ver = 2 /\ k.call /\ k.op = "write"        -> {"c2_write_b"}
      [] k.ver = 2 /\ ~ k.call /\ k.op = "read" /\ k.ok -> {"r2_read_b"}
      [] OTHER                                        -> {}
CountLabel(k) == IF k.ver = 2 /\ k.call THEN "tcount" ELSE "count"

\* The count is read if it is printed.  If it is not, a WRITE of version 3
\* is not counted; for the others `count' keeps what was on the stack.
Read(k, w) ==
    LET at == {x[2] : x \in {y \in w.printed : y[1] = CountLabel(k)}}
    IN  CASE at # {}                       -> {Value(i) : i \in at}
          [] at = {} /\ k.ver = 3 /\ k.call -> {0}
          [] OTHER                          -> Garbage

\* A wrong counter: it carries one megabyte at most.
Carry_Once(x, count) ==
    IF x.b + count >= MEG THEN [b |-> x.b + count - MEG, m |-> x.m + 1]
    ELSE [x EXCEPT !.b = @ + count]

Carry(x, count) ==
    IF x.b + count >= MEG
    THEN [b |-> (x.b + count) % MEG, m |-> x.m + ((x.b + count) \div MEG)]
    ELSE [x EXCEPT !.b = @ + count]

Where(k) == {i \in DOMAIN message : message[i].name = CountLabel(k)}

Decode(w) ==
    /\ outcome = "loaded"
    /\ outcome' = (IF w.crashed THEN "crash" ELSE IF w.p = NULL THEN "short" ELSE "ok")
    /\ printed' = w.printed
    /\ \E count \in Read(kind, w) :
          bytes' = [c \in Counters |->
                       IF c \in Counter(kind) THEN Carry(bytes[c], count) ELSE bytes[c]]
    /\ sent' = [c \in Counters |->
                   IF c \in Counter(kind)
                   THEN sent[c] + message[CHOOSE i \in Where(kind) : TRUE].value
                   ELSE sent[c]]
    /\ exact' = (exact /\ (Counter(kind) # {} => \A i \in Where(kind) : i <= actual))
    /\ UNCHANGED <<message, actual, junk, omitReaddirContents, kind, n>>

nfs_v3_print_call == kind.ver = 3 /\ kind.call /\ Decode(print_call3(kind.op))
nfs_v3_print_resp == kind.ver = 3 /\ ~ kind.call /\ Decode(print_resp3(kind.op, kind.ok))
nfs_v2_print_call == kind.ver = 2 /\ kind.call /\ Decode(print_call2(kind.op))
nfs_v2_print_resp == kind.ver = 2 /\ ~ kind.call /\ Decode(print_resp2(kind.op, kind.ok))

\* The line is complete, and the program waits for the next message.
NextLine ==
    /\ outcome \in {"ok", "short"}
    /\ outcome' = "waiting"
    /\ message' = <<>> /\ actual' = 0 /\ junk' = 0 /\ kind' = NoKind /\ printed' = {}
    /\ UNCHANGED <<omitReaddirContents, bytes, sent, exact, n>>

Next ==
    \/ Receive
    \/ nfs_v3_print_call
    \/ nfs_v3_print_resp
    \/ nfs_v2_print_call
    \/ nfs_v2_print_resp
    \/ NextLine

Spec == Init /\ [][Next]_vars
-----------------------------------------------------------------------------
Done == outcome \in {"ok", "short"}
Whole == Len(message) <= actual

\* The only message of which words are printed under the wrong label: a call
\* of WRITE that ends in the handle (nfs_v3.c:237-251 goes on with its bytes).
CutInHandle == kind.ver = 3 /\ kind.call /\ kind.op = "write"
               /\ \E i \in DOMAIN message : message[i].name = "fh" /\ i > actual

\* However a message is cut, what is printed under a label is the word that
\* has it: no field is printed in the place of another, although nfs_v3.c
\* and nfs_v2.c find them by walking over optional parts of varying length.
FieldsRight ==
    Done /\ ~ CutInHandle =>
        \A x \in printed : x[2] <= Len(message) => message[x[2]].name = x[1]

\* Of a message that was captured as a whole everything is printed that the
\* decoders of its procedure are there to print, and it is not reported as
\* short (nfs_v3.c:545 and 892, nfs_v2.c:233 and 444).
WholePrinted == Done /\ Whole => outcome = "ok" /\ Named \subseteq printed

\* The listing of a directory, behind a flag and the attributes if it is set.
Listing ==
    IF kind.ver = 3 /\ ~ kind.call /\ kind.op \in {"readdir", "readdirp"}
    THEN {i \in DOMAIN message : i > 1 + Len(Fattr3) * message[1].value}
    ELSE {}

\* A message whose line is not marked as short lacks nothing that was captured:
\* every word with a name is printed, up to the first one that was not captured
\* (e < p lets p = e pass), and none behind that.  What can be missing without a
\* mark stands behind it, after a flag that was read there.  Two messages are not
\* as the marks say: a listing that was cut is left out as a whole, without a
\* mark (nfs_v3.c:764-767, 808-811, 892), and a call of WRITE that was cut in
\* its handle may be printed to the end (237-251).
CutMarked ==
    /\ Done => \A x \in printed : x[2] <= actual + 1
    /\ outcome = "ok" /\ ~ CutInHandle =>
           \A x \in Named \ printed : x[2] > actual + 1 \/ x[2] \in Listing

\* The counters hold what the messages said, unless one lacked its count, and
\* are carried: the bytes stay below a megabyte, as the summary that prints
\* megabytes and bytes apart needs (nfs_v3.c:648-650).
BytesExact ==
    /\ exact => \A c \in Counters : bytes[c].b + MEG * bytes[c].m = sent[c]
    /\ \A c \in Counters : bytes[c].b < MEG

\* A message that was cut is decoded as far as it goes, as the comment at
\* nfsrecord.c:560-569 says: the decoder does not follow a null pointer.
Survives == outcome # "crash"
=============================================================================
