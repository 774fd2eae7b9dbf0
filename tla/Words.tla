------------------------------- MODULE Words -------------------------------
(***************************************************************************)
(* What the decoders of both versions of NFS are made of: the words of a   *)
(* message, and the functions of nfsdump2/nfs_v3.c and nfs_v2.c that take  *)
(* a pointer into it, print what they find and return the pointer behind.  *)
(*                                                                         *)
(* A word has the name under which its content should be printed, "" if it *)
(* should not be, and a value where the decoders look at it.  A pointer is *)
(* the number of a word, from 1, or NULL.  A walk through the message is   *)
(* the pointer and the pairs of label and word printed so far.             *)
(***************************************************************************)
EXTENDS Integers, Sequences

VARIABLES
    message,    \* the words behind the RPC header, and behind a reply's status
    actual,     \* how many of them were captured
    junk        \* the value of a word that was not

NULL == 0

\* The first pointer behind what was captured.
e == actual + 1
Value(p) == IF p <= actual /\ p <= Len(message) THEN message[p].value ELSE junk
-----------------------------------------------------------------------------
\* Messages as they are sent: the parts of which arguments and results are
\* made, in the variant v (nfs_prot.x).

W(name, value) == <<[name |-> name, value |-> value]>>
Repeat(name, n) == [i \in 1..n |-> [name |-> name, value |-> 0]]
Flag(b) == W("", IF b THEN 1 ELSE 0)
Hidden(words) == [i \in DOMAIN words |-> [name |-> "", value |-> words[i].value]]
Copies(n, words) == [i \in 1..n * Len(words) |-> words[((i - 1) % Len(words)) + 1]]

\* A length and as many bytes, filled up to a word.
Padded(bytes) == (bytes + 3) \div 4
Counted(name, bytes) == W("", bytes) \o Repeat(name, Padded(bytes))

\* Attributes, of which each word has the name of its field.
Fields(names) == [i \in DOMAIN names |-> [name |-> names[i], value |-> 0]]
Fattr3 == <<"ftype", "mode", "nlink", "uid", "gid", "size", "size", "used", "used", "rdev",
            "rdev2", "fsid", "fsid", "fileid", "fileid", "atime", "atime", "mtime", "mtime",
            "ctime", "ctime">>
PreOpAttr3 == <<"pre-size", "pre-size", "pre-mtime", "pre-mtime", "pre-ctime", "pre-ctime">>
Fattr2 == <<"ftype", "mode", "nlink", "uid", "gid", "size", "blksize", "rdev", "blocks",
            "fsid", "fileid", "atime", "atime", "mtime", "mtime", "ctime", "ctime">>
Sattr2 == <<"mode", "uid", "gid", "size", "atime", "atime", "mtime", "mtime">>
StatFs2 == <<"tsize", "bsize", "blocks", "bfree", "bavail">>
-----------------------------------------------------------------------------
\* Walks.

Start == [p |-> 1, printed |-> {}, crashed |-> FALSE]
\* A wrong failure: the pointer is returned as it came.
Fail_Unmoved(w) == w

Fail(w) == [w EXCEPT !.p = NULL]
Move(w, n) == [w EXCEPT !.p = @ + n]

Put(w, label, n) ==
    [w EXCEPT !.printed = @ \cup {<<label, i>> : i \in w.p..(w.p + n - 1)},
              !.p = @ + n]

\* A wrong test for the end: one word less is enough.
Short_OffByOne(w, needed) == w.p = NULL \/ e + 1 < w.p + needed

\* The test with which each of the functions begins: (p == NULL) || (e < p + needed).
Short(w, needed) == w.p = NULL \/ e < w.p + needed

\* n words under a label, if `needed' words are left.
Get(w, label, n, needed) == IF Short(w, needed) THEN Fail(w) ELSE Put(w, label, n)

\* A word, or the first of two, may be read at e, behind what was captured.
print_uint32(w, label) == Get(w, label, 1, 0)
print_uint64(w, label) == Get(w, label, 2, 1)
print_stable3(w, label) == Get(w, label, 1, 1)
print_opaque(w, label, n) == Get(w, label, n, n)

\* A wrong test: a time that ends the message is not printed.
print_nfstime3_Strict(w, label) == Get(w, label, 2, 3)

print_nfstime3(w, label) == Get(w, label, 2, 2)

\* Handles, and names.
print_fh3(w, label) ==
    IF Short(w, 2) THEN Fail(w)
    ELSE print_opaque(Move(w, 1), label, Padded(Value(w.p)))

\* A wrong name: it is not filled up.
print_fn3_Unpadded(w, label) ==
    IF Short(w, 1) THEN Fail(w)
    ELSE print_opaque(Move(w, 1), label, Value(w.p) \div 4)

print_fn3(w, label) ==
    IF Short(w, 1) THEN Fail(w)
    ELSE print_opaque(Move(w, 1), label, Padded(Value(w.p)))

print_fattr3(w) ==
    LET ftype == print_uint32(w, "ftype")
        mode == print_uint32(ftype, "mode")
        nlink == print_uint32(mode, "nlink")
        uid == print_uint32(nlink, "uid")
        gid == print_uint32(uid, "gid")
        size == print_uint64(gid, "size")
        used == print_uint64(size, "used")
        rdev == print_uint32(used, "rdev")
        rdev2 == print_uint32(rdev, "rdev2")
        fsid == print_uint64(rdev2, "fsid")
        fileid == print_uint64(fsid, "fileid")
        atime == print_nfstime3(fileid, "atime")
        mtime == print_nfstime3(atime, "mtime")
    IN  IF Short(w, 0) THEN Fail(w) ELSE print_nfstime3(mtime, "ctime")
print_pre_op_attr3(w) ==
    LET size == print_uint64(w, "pre-size")
        mtime == print_nfstime3(size, "pre-mtime")
    IN  IF Short(w, 0) THEN Fail(w) ELSE print_nfstime3(mtime, "pre-ctime")

\* A flag, then what follows if it is set.  With print = 0 nothing is printed.
Absent(w) == Value(w.p) = 0
print_post_op_attr3(w) ==
    CASE Short(w, 0)                  -> Fail(w)
      [] ~ Short(w, 0) /\ Absent(w)   -> Move(w, 1)
      [] ~ Short(w, 0) /\ ~ Absent(w) -> print_fattr3(Move(w, 1))
skip_post_op_attr3(w) == [print_post_op_attr3(w) EXCEPT !.printed = w.printed]
print_post_op_fh3(w) ==
    CASE Short(w, 0)                  -> Fail(w)
      [] ~ Short(w, 0) /\ Absent(w)   -> Move(w, 1)
      [] ~ Short(w, 0) /\ ~ Absent(w) -> print_fh3(Move(w, 1), "fh")

\* The second flag is read even if print_pre_op_attr3 returned NULL.
print_wcc_data3(w) ==
    IF Short(w, 0) THEN Fail(w)
    ELSE LET pre == IF Absent(w) THEN Move(w, 1) ELSE print_pre_op_attr3(Move(w, 1))
         IN  CASE pre.p = NULL                  -> [pre EXCEPT !.crashed = TRUE]
               [] pre.p # NULL /\ Absent(pre)   -> Move(pre, 1)
               [] pre.p # NULL /\ ~ Absent(pre) -> print_fattr3(Move(pre, 1))

\* Version 2: fields of fixed places, all of them there or none.
GetAll(w, names) ==
    IF Short(w, Len(names)) THEN Fail(w)
    ELSE [w EXCEPT !.printed = @ \cup {<<names[i], w.p + i - 1>> : i \in DOMAIN names},
                   !.p = @ + Len(names)]
print_fattr2(w) == GetAll(w, Fattr2)
print_statfsokres2(w) == GetAll(w, StatFs2)

\* A field whose first word is -1 is not printed, and the pointer returned is that
\* before them.
Unset == -1
FirstWord == <<0, 1, 2, 3, 4, 4, 6, 6>>
print_sattr2(w) ==
    IF Short(w, Len(Sattr2)) THEN Fail(w)
    ELSE LET set == {i \in DOMAIN Sattr2 : Value(w.p + FirstWord[i]) # Unset}
         IN  [w EXCEPT !.printed = @ \cup {<<Sattr2[i], w.p + i - 1>> : i \in set}]
=============================================================================
