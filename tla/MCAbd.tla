-------------------------------- MODULE MCAbd --------------------------------
(***************************************************************************)
(* Instances of Abd for TLC.                                               *)
(***************************************************************************)
EXTENDS AbdInvariant, TLC

CONSTANTS r1, w1, w2, s1, s2, s3, o1

\* Every object on every server.
AllServers == [o \in Objects |-> Servers]

\* Ranks of the names "w-i": all names of w1 come before those of w2, and the
\* incarnations of one writer are not in the order of their numbers ("w-10"
\* precedes "w-9").
Ranks == [w \in Writers |-> [i \in Incarnations |->
            (IF w = w1 THEN 10 ELSE 20) - i]]

\* Bounds on the operations of each client.
Once == [c \in Clients |-> 1]
Twice == [c \in Clients |-> 2]

\* Two instances in one: a reader and a writer of two operations each, without
\* faults, and two writers of one operation each, which may restart and lose one
\* request.
ReaderAndWriter ==
  OpnumTable[w2][o1] = 0 /\ drops = 0 /\ \A c \in Clients : incarnation[c] = 0
TwoWriters ==
  /\ OpnumTable[r1][o1] = 0 /\ incarnation[r1] = 0
  /\ \A w \in Writers : OpnumTable[w][o1] <= 1

AllAskedEnded ==
  /\ \A c \in Clients : ~Busy(c)
  /\ \/ OpnumTable[r1][o1] = 2 /\ OpnumTable[w1][o1] = 2
     \/ OpnumTable[w1][o1] = 1 /\ OpnumTable[w2][o1] = 1
  /\ UNCHANGED vars

MCNext == (Next /\ (ReaderAndWriter' \/ TwoWriters')) \/ AllAskedEnded
MCSpec == Init /\ [][MCNext]_vars

\* The constraint of the liveness run: only a writer restarts, which nothing
\* obliges it to do.
ReadersStay == \A r \in Readers : incarnation[r] = 0

\* Sound for the safety runs: the servers are interchangeable when every object
\* is on all of them, and no temporal property needs them named.
ServerSymmetry == Permutations(Servers)
=============================================================================
