----------------------------- MODULE HashChain -----------------------------
(***************************************************************************)
(* The bucket chains shared by the two hash tables of nfsdump2: the XID    *)
(* table of nfsrecord.c and the fragment table of tcp_reassembly.c, whose  *)
(* lookup and insert functions are line-for-line the same on their chains. *)
(* A chain is a sequence of entries in the order of the `next' pointers;   *)
(* every entry is a record with a field `key'.                             *)
(***************************************************************************)
EXTENDS Integers, Sequences, FiniteSets, SequencesExt

\* The head insertion of hashInsertXid and tcpInsert.
Push(chain, entry) == <<entry>> \o chain

\* Wrong searches: one that starts behind the head, and one that goes on to
\* the last entry with the key.
FirstMatch_SkipHead(chain, key) ==
    LET p == SelectInSeq(SubSeq(chain, 2, Len(chain)), LAMBDA entry : entry.key = key)
    IN  IF p = 0 THEN 0 ELSE p + 1
FirstMatch_Last(chain, key) == SelectLastInSeq(chain, LAMBDA entry : entry.key = key)

\* The position at which the search loop of the lookup stops; 0 stands for
\* the NULL pointer the lookup returns when no entry has the key.
FirstMatch(chain, key) == SelectInSeq(chain, LAMBDA entry : entry.key = key)

\* *prev_p = curr->next for the entry the search stopped at.
Unlink(chain, key) == RemoveAt(chain, FirstMatch(chain, key))

\* The places of the entries with a key, and the entries themselves in the
\* order of the chain: what a caller of the lookup can see of the chain.
PlacesOf(chain, key) == {i \in DOMAIN chain : chain[i].key = key}
Nth(S, r) == CHOOSE i \in S : Cardinality({j \in S : j <= i}) = r
EntriesOf(chain, key) ==
    [r \in 1..Cardinality(PlacesOf(chain, key)) |->
        chain[Nth(PlacesOf(chain, key), r)]]
=============================================================================
