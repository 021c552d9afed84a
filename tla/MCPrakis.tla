------------------------------ MODULE MCPrakis -------------------------------
(***************************************************************************)
(* Instances of Prakis for TLC.                                            *)
(***************************************************************************)
EXTENDS Prakis, TLC

CONSTANTS r1, r2, w1, w2, s1, s2, s3

\* Ranks of the writers' names; w1 is "writer-1", the id of the initial tag.
Ranks == [w \in Writers |-> IF w = w1 THEN 1 ELSE 2]

\* Bounds on the operations of each client.
Once == [c \in Clients |-> 1]
ReadTwice == [c \in Clients |-> IF c \in Readers THEN 2 ELSE 1]
WriteTwice == [c \in Clients |-> IF c \in Writers THEN 2 ELSE 1]

\* Sound for the safety runs: only the first server is named in the module.
ServerSymmetry == Permutations(Servers \ {FirstServer})

\* Reads around the last write: r1 begins when that write has, r2 when it has ended.
ReadsAroundLastWrite ==
  /\ Opnum[r1] > 0 => Opnum[w1] = MaxOpnum[w1]
  /\ Opnum[r2] > 0 => Opnum[w1] = MaxOpnum[w1] /\ w1 \notin busy
=============================================================================
