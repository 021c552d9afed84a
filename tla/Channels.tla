------------------------------ MODULE Channels ------------------------------
(* What is in a first-in first-out channel, for statements about messages on *)
(* their way.                                                                *)
EXTENDS Sequences, Naturals

Messages(q) == {q[k] : k \in 1..Len(q)}

\* At most one position of q holds a message of S.
AtMostOne(q, S) == \A j, k \in 1..Len(q) : q[j] \in S /\ q[k] \in S => j = k
=============================================================================
