------------------------------- MODULE MCSodaw -------------------------------
(***************************************************************************)
(* Instances of Sodaw for TLC.                                             *)
(***************************************************************************)
EXTENDS Sodaw, TLC

CONSTANTS r1, w1, w2, s1, s2, s3

\* Ranks of the names "w-i"; the incarnations of one writer are not in the order
\* of their numbers ("w-10" precedes "w-9").
Ranks == [w \in Writers |-> [i \in Incarnations |->
            (IF w = w1 THEN 10 ELSE 20) - i]]

\* Bounds on the operations of each client.
Once == [c \in Clients |-> 1]
WriteTwice == [c \in Clients |-> IF c \in Writers THEN 2 ELSE 1]

\* Bound: one fault of any kind in a behaviour (a client restarted as a new
\* incarnation, a request lost, a server whose disk writes fail, a process
\* stopped).  The states with more faults are not explored further.
OneFault ==
  drops + Cardinality(diskErrors) + Cardinality(stopped)
    + Cardinality({c \in Clients : incarnation[c] > 0}) <= 1

\* Sound for the safety runs: only the first server is named in the module.
ServerSymmetry == Permutations(Servers \ {FirstServer})
=============================================================================
