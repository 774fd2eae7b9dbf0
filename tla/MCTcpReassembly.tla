-------------------------- MODULE MCTcpReassembly --------------------------
(***************************************************************************)
(* Small instances of TcpReassembly.  The sequence numbers wrap around in  *)
(* the middle of the stream.                                               *)
(***************************************************************************)
EXTENDS TcpReassembly

\* Messages of 3 and 2 bytes, and of 1 and 4.
MCMarkAt == <<0, 4, 7>>
MCShortLong == <<0, 2, 7>>

Lossy == [lossless |-> FALSE, aligned |-> TRUE, conns |-> {0}, paddings |-> {0, 1},
          snaplens |-> {3}, garbage |-> {0, 2, 9}, start |-> 0]
\* As Lossy, with the last byte of the longest segments not captured.
Cut == [Lossy EXCEPT !.paddings = {0}, !.snaplens = {2}, !.garbage = {2}]
Interleaved == [lossless |-> TRUE, aligned |-> TRUE, conns |-> {0, 1}, paddings |-> {0},
                snaplens |-> {3}, garbage |-> {}, start |-> 1]
Pipelined == [lossless |-> TRUE, aligned |-> FALSE, conns |-> {0}, paddings |-> {0},
              snaplens |-> {6}, garbage |-> {}, start |-> 1]

MCNetworks == {Lossy, Cut, Interleaved}
MCPipelined == {Pipelined}

Symmetry == Permutations(Buffers)
=============================================================================
