------------------------------- MODULE NfsV2 -------------------------------
(***************************************************************************)
(* NFS version 2: the messages (nfsdump2/nfs_prot.x) and what              *)
(* nfs_v2_print_call and nfs_v2_print_resp read of them (nfs_v2.c).  A     *)
(* variant of a message is a record as in NfsV3.                           *)
(***************************************************************************)
EXTENDS Words

NFS_FHSIZE == 8     \* in words
Handle2(label) == Repeat(label, NFS_FHSIZE)
Name2(label, v) == Counted(label, v.name)
DirOp2(fh, fn, v) == Handle2(fh) \o Name2(fn, v)

\* The fields of the attributes to set have the value -1 if they should stay.
SetAttr2(v) == IF v.set THEN Fields(Sattr2)
               ELSE [i \in DOMAIN Sattr2 |-> [name |-> "", value |-> Unset]]

Fh2 == {"getattr", "readlink", "statfs"}
Dir2 == {"lookup", "remove", "rmdir"}
New2 == {"create", "mkdir"}
Args2(op, v) ==
    CASE op \in Fh2     -> Handle2("fh")
      [] op \in Dir2    -> DirOp2("fh", "fn", v)
      [] op \in New2    -> DirOp2("fh", "fn", v) \o SetAttr2(v)
      [] op = "setattr" -> Handle2("fh") \o SetAttr2(v)
      [] op = "read"    -> Handle2("fh") \o W("offset", 0) \o W("count", v.count) \o W("tcount", 0)
      [] op = "write"   -> Handle2("fh") \o W("begoff", 0) \o W("offset", 0) \o W("tcount", v.count)
                           \o Repeat("", 1)
      [] op = "rename"  -> DirOp2("fh", "fn", v) \o DirOp2("fh2", "fn2", v)
      [] op = "link"    -> Handle2("fh") \o DirOp2("fh2", "fn", v)
      [] op = "symlink" -> DirOp2("fh", "fn", v) \o Name2("fn2", v) \o SetAttr2(v)
      [] op = "readdir" -> Handle2("fh") \o W("cookie", 0) \o W("count", 0)
      [] OTHER          -> <<>>

Attr2 == {"getattr", "setattr", "write"}
FhAttr2 == {"lookup"} \cup New2
StatusOnly2 == {"remove", "rename", "link", "symlink", "rmdir"}
Res2(op, ok, v) ==
    CASE op \in Attr2 /\ ok    -> Fields(Fattr2)
      [] op \in FhAttr2 /\ ok  -> Handle2("fh") \o Fields(Fattr2)
      [] op = "readlink" /\ ok -> Name2("fn", v)
      [] op = "read" /\ ok     -> Fields(Fattr2) \o W("count", v.count) \o Repeat("", 1)
      [] op = "readdir" /\ ok  -> Repeat("", 1)
      [] op = "statfs" /\ ok   -> Fields(StatFs2)
      [] OTHER                 -> <<>>

Ops2 == Fh2 \cup Attr2 \cup FhAttr2 \cup StatusOnly2
        \cup {"null", "root", "read", "writecache", "readdir", "unknown"}
-----------------------------------------------------------------------------
print_fh2(w, label) == print_opaque(w, label, NFS_FHSIZE)
print_fn2(w, label) == print_fn3(w, label)
print_diropargs2(w, fh, fn) == print_fn2(print_fh2(w, fh), fn)
print_diropokres2(w) == IF Short(w, 0) THEN Fail(w) ELSE print_fattr2(print_fh2(w, "fh"))

print_call2(op) ==
    LET fh == print_fh2(Start, "fh")
        dir == print_diropargs2(Start, "fh", "fn")
    IN  CASE op \in Fh2     -> fh
          [] op \in Dir2    -> dir
          [] op \in New2    -> print_sattr2(dir)
          [] op = "setattr" -> print_sattr2(fh)
          [] op = "read"    -> print_uint32(print_uint32(print_uint32(fh, "offset"), "count"), "tcount")
          [] op = "write"   -> print_uint32(print_uint32(print_uint32(fh, "begoff"), "offset"), "tcount")
          [] op = "rename"  -> print_diropargs2(dir, "fh2", "fn2")
          [] op = "link"    -> print_diropargs2(fh, "fh2", "fn")
          [] op = "symlink" -> print_sattr2(print_fn2(dir, "fn2"))
          [] op = "readdir" -> print_uint32(print_opaque(fh, "cookie", 1), "count")
          [] OTHER          -> Start

\* The status of a reply has been consumed with its header (nfsrecord.c:484):
\* the one printed for those of which it is all is a word behind them.
print_resp2(op, ok) ==
    CASE op \in Attr2 /\ ok       -> print_fattr2(Start)
      [] op \in FhAttr2 /\ ok     -> print_diropokres2(Start)
      [] op = "readlink" /\ ok    -> print_fn2(Start, "fn")
      [] op = "read" /\ ok        -> print_uint32(print_fattr2(Start), "count")
      [] op \in StatusOnly2 /\ ok -> print_uint32(Start, "nfsstat")
      [] op = "statfs" /\ ok      -> print_statfsokres2(Start)
      [] OTHER                    -> Start
=============================================================================
