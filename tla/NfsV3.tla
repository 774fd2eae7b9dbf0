------------------------------- MODULE NfsV3 -------------------------------
(***************************************************************************)
(* NFS version 3: the messages (nfsdump2/nfs_prot.x) and what              *)
(* nfs_v3_print_call and nfs_v3_print_resp read of them (nfs_v3.c).  The   *)
(* procedures read nothing of what is Hidden in a message; a part behind   *)
(* the last thing they read is represented by one word.                    *)
(*                                                                         *)
(* A variant v of a message is a record of what its sender chose: the      *)
(* bytes in a handle and in a name, whether attributes are set or sent,    *)
(* the number of entries in a directory, and the count of a read or write. *)
(***************************************************************************)
EXTENDS Words

VARIABLE omitReaddirContents    \* a parameter of the program (-R)

Rest == Repeat("", 1)
Handle3(label, v) == Counted(label, v.fh)
Name3(label, v) == Counted(label, v.name)
DirOp3(fh, name, v) == Handle3(fh, v) \o Name3(name, v)
IfSet(b, words) == IF b THEN Flag(TRUE) \o words ELSE Flag(FALSE)
Attr3(v) == IfSet(v.attr, Fields(Fattr3))
Wcc3(v) == IfSet(v.pre, Fields(PreOpAttr3)) \o Attr3(v)
SetAttr3(v) ==
    IfSet(v.set, W("mode", 0)) \o IfSet(v.set, W("uid", 0)) \o IfSet(v.set, W("gid", 0))
    \o IfSet(v.set, Repeat("size", 2)) \o IfSet(v.set, Repeat("atime", 2))
    \o IfSet(v.set, Repeat("mtime", 2))

Dir3 == {"lookup", "remove", "rmdir"}
Fh3 == {"getattr", "readlink", "fsstat", "fsinfo", "pathconf"}
Args3(op, v) ==
    CASE op \in Fh3        -> Handle3("fh", v)
      [] op \in Dir3       -> DirOp3("fh", "name", v)
      [] op = "mknod"      -> DirOp3("fh", "name", v) \o Rest
      [] op = "setattr"    -> Handle3("fh", v) \o SetAttr3(v) \o IfSet(v.set, Repeat("ctime", 2))
      [] op = "access"     -> Handle3("fh", v) \o W("acc", 0)
      [] op = "read"       -> Handle3("fh", v) \o Repeat("off", 2) \o W("count", v.count)
      [] op = "write"      -> Handle3("fh", v) \o Repeat("off", 2) \o W("count", v.count)
                              \o W("stable", 0) \o Rest
      [] op = "create"     -> DirOp3("fh", "name", v) \o W("how", 0) \o SetAttr3(v)
      [] op = "mkdir"      -> DirOp3("fh", "name", v) \o SetAttr3(v)
      [] op = "symlink"    -> DirOp3("fh", "name", v) \o SetAttr3(v) \o Name3("sdata", v)
      [] op = "rename"     -> DirOp3("fh", "name", v) \o DirOp3("fh2", "name2", v)
      [] op = "link"       -> Handle3("fh", v) \o DirOp3("fh2", "name", v)
      [] op = "readdir"    -> Handle3("fh", v) \o Repeat("cookie", 2) \o Repeat("", 2) \o W("count", 0)
      [] op = "readdirp"   -> Handle3("fh", v) \o Repeat("cookie", 2) \o Repeat("", 2)
                              \o W("count", 0) \o W("maxcnt", 0)
      [] op = "commit"     -> Handle3("file", v) \o Repeat("off", 2) \o W("count", 0)
      [] op = "mnt"        -> Name3("path", v)
      [] OTHER             -> <<>>

\* The parts of a directory listing that are printed when it is.
Listed(words) == IF omitReaddirContents THEN Hidden(words) ELSE words
Entry3(v, plus) ==
    Flag(TRUE) \o Repeat("fileid", 2) \o Name3("name", v) \o Repeat("cookie", 2)
    \o (IF plus THEN Hidden(Attr3(v)) \o IfSet(v.pre, Handle3("fh", v)) ELSE <<>>)
Listing3(v, plus) ==
    Repeat("", 2) \o
    Listed(Copies(v.entries, Entry3(v, plus)) \o Flag(FALSE) \o W("eof", 0))

Made3 == {"create", "mkdir", "symlink", "mknod"}
Wcc3Only == {"remove", "rmdir", "commit"}
Ignored3 == {"rename", "link", "fsstat", "fsinfo", "pathconf"}
Res3(op, ok, v) ==
    CASE op = "getattr" /\ ok    -> Fields(Fattr3)
      [] op = "setattr"          -> IF ok THEN Wcc3(v) ELSE Hidden(Wcc3(v))
      [] op = "lookup"           -> (IF ok THEN Handle3("fh", v) \o Attr3(v) ELSE <<>>) \o Hidden(Attr3(v))
      [] op = "access"           -> Hidden(Attr3(v)) \o (IF ok THEN W("acc", 0) ELSE <<>>)
      [] op = "readlink"         -> Hidden(Attr3(v)) \o (IF ok THEN Name3("name", v) ELSE <<>>)
      [] op = "read"             -> Attr3(v) \o (IF ok THEN W("count", v.count) \o W("eof", 0) \o Rest ELSE <<>>)
      [] op = "write"            -> Wcc3(v) \o (IF ok THEN W("count", v.count) \o W("stable", 0) \o Rest ELSE <<>>)
      [] op \in Made3            -> IF ok THEN IfSet(v.set, Handle3("fh", v)) \o Attr3(v) \o Rest ELSE Rest
      [] op \in Wcc3Only         -> Wcc3(v)
      [] op = "readdir"          -> Attr3(v) \o (IF ok THEN Listing3(v, FALSE) ELSE <<>>)
      [] op = "readdirp"         -> Attr3(v) \o (IF ok THEN Listing3(v, TRUE) ELSE <<>>)
      [] op \in Ignored3         -> Rest
      [] op = "mnt" /\ ok        -> Handle3("fh", v) \o Rest
      [] OTHER                   -> <<>>

Ops3 == Fh3 \cup Dir3 \cup Made3 \cup Wcc3Only \cup Ignored3
        \cup {"null", "setattr", "access", "read", "write", "readdir", "readdirp", "mnt", "unknown"}
-----------------------------------------------------------------------------
\* All calls but WRITE: the arguments are decoded as a whole, then printed.
\* There is no walk; NULL says that the decoder ran into the end.
\* (What is behind the last thing printed is decoded as well.)
Named == {<<message[i].name, i>> : i \in {j \in DOMAIN message : message[j].name # ""}}

xdr_args == IF Len(message) <= actual
            THEN [Start EXCEPT !.p = Len(message) + 1, !.printed = Named]
            ELSE Fail(Start)

\* WRITE: a field at a time, going on where the last success ended.  The
\* decoder of a handle has consumed the length when it finds too few bytes,
\* that of a 64 bit number its first word.  Reported is the last field only.
Xdr(w, label, n) == IF w.p + n <= e THEN Put(w, label, n) ELSE w
XdrHandle(w) ==
    IF w.p + 1 > e THEN w
    ELSE Xdr(Move(w, 1), "fh", Padded(Value(w.p)))
XdrOffset(w) ==
    IF w.p + 2 <= e THEN Put(w, "off", 2)
    ELSE IF w.p + 1 <= e THEN Move(w, 1) ELSE w
BeforeCount == XdrOffset(XdrHandle(Start))
Write3 ==
    LET how == Xdr(Xdr(BeforeCount, "count", 1), "stable", 1)
    IN  IF "stable" \in {x[1] : x \in how.printed} THEN how ELSE Fail(how)

print_call3(op) ==
    CASE op = "write" -> Write3
      [] op \in {"null", "unknown"} -> Start
      [] OTHER -> xdr_args

\* READDIR and READDIRPLUS: the attributes are walked over, and printed,
\* once; then the result is decoded as a whole.  If that fails only the walk
\* decides what is reported.
xdr_listing(w) ==
    IF Len(message) < e THEN [w EXCEPT !.printed = @ \cup Named] ELSE w

made(w) == print_post_op_attr3(print_post_op_fh3(w))
print_resp3(op, ok) ==
    CASE op = "getattr" /\ ok  -> print_fattr3(Start)
      [] op = "setattr" /\ ok  -> print_wcc_data3(Start)
      [] op = "lookup" /\ ok   -> skip_post_op_attr3(print_post_op_attr3(print_fh3(Start, "fh")))
      [] op = "access"         -> LET w == skip_post_op_attr3(Start)
                                  IN  IF ok THEN print_uint32(w, "acc") ELSE w
      [] op = "readlink"       -> LET w == skip_post_op_attr3(Start)
                                  IN  IF ok THEN print_fn3(w, "name") ELSE w
      [] op = "read"           -> LET w == print_post_op_attr3(Start)
                                  IN  IF ok THEN print_uint32(print_uint32(w, "count"), "eof") ELSE w
      [] op = "write"          -> LET w == print_wcc_data3(Start)
                                  IN  IF ok THEN print_stable3(print_uint32(w, "count"), "stable") ELSE w
      [] op \in Made3 /\ ok    -> made(Start)
      [] op \in Wcc3Only       -> print_wcc_data3(Start)
      [] op \in {"readdir", "readdirp"} ->
            LET w == print_post_op_attr3(Start)
            IN  IF ok /\ ~ omitReaddirContents THEN xdr_listing(w) ELSE w
      [] op = "mnt" /\ ok      -> print_fh3(Start, "fh")
      [] OTHER                 -> Start
=============================================================================
