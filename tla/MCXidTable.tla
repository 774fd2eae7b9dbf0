----------------------------- MODULE MCXidTable -----------------------------
(***************************************************************************)
(* Small instances of XidTable: two buckets, three keys of which two share *)
(* a bucket, and timestamps around MAX_AGE.                                *)
(***************************************************************************)
EXTENDS XidTable

MCHosts == {0}
MCPorts == {1}
MCXids == {0, 1, 2}
MCXidsTwo == {0, 2}
=============================================================================
