---------------------------- MODULE CallMatching ----------------------------
(***************************************************************************)
(* What the XID table of nfsdump promises to the rest of the program, with *)
(* no buckets, no chains and no cull loop: for each key the calls still    *)
(* waiting for their reply, newest first.  A reply is matched with the     *)
(* newest call of its key and is unknown only if the key has none; a call  *)
(* is forgotten without a reply only if some call of its key is expired.   *)
(***************************************************************************)
EXTENDS Sequences, Integers

CONSTANTS Keys, Procs, Times, NoCall
CONSTANT Expired(_, _)      \* Expired(call, now)

VARIABLES pending, now, found

vars == <<pending, now, found>>

Init ==
    /\ pending = [k \in Keys |-> <<>>]
    /\ now \in Times
    /\ found = NoCall

Clock ==
    /\ now' \in Times
    /\ UNCHANGED <<pending, found>>

See(k) ==
    /\ \E proc \in Procs :
        pending' = [pending EXCEPT
                       ![k] = <<[key |-> k, proc |-> proc, call_time |-> now]>> \o @]
    /\ UNCHANGED <<now, found>>

Answer(k) ==
    /\ pending[k] # <<>>
    /\ found' = Head(pending[k])
    /\ pending' = [pending EXCEPT ![k] = Tail(@)]
    /\ UNCHANGED now

Unknown(k) ==
    /\ pending[k] = <<>>
    /\ found' = NoCall
    /\ UNCHANGED <<pending, now>>

Forget(k) ==
    /\ \E i \in DOMAIN pending[k] : Expired(pending[k][i], now)
    /\ pending' = [pending EXCEPT ![k] = Tail(@)]
    /\ UNCHANGED <<now, found>>

Next == Clock \/ \E k \in Keys : See(k) \/ Answer(k) \/ Unknown(k) \/ Forget(k)

Spec == Init /\ [][Next]_vars
=============================================================================
