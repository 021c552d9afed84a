------------------------- MODULE DeploymentInvariant -------------------------
(***************************************************************************)
(* The inductive invariant behind the safety properties of Deployment.     *)
(* TLC checks it on a small instance; DeploymentProofs proves it for all.  *)
(***************************************************************************)
EXTENDS Deployment

\* What the script has asked of client c so far.
Asked(c) ==
  IF tester \in {"experiment", "done"}
    THEN IF c \in Readers THEN numreads ELSE Len(Keys) + numwrites
    ELSE IF tester = "prewriting" /\ c \in Writers THEN Len(Keys) ELSE 0

InProgress(c) == IF current[c] = NoObject THEN 0 ELSE 1

\* The types of TypeOK without the bounds, which follow from the other parts.
Types ==
  /\ stage \in [Processes -> {"starting", "waiting", "running", "killed"}]
  /\ received \in [Processes -> SUBSET Kinds]
  /\ tokens \in [Processes -> [Kinds -> 0..2]]
  /\ count \in [Processes -> [Kinds -> 0..1]]
  /\ command \in [Kinds -> [status : {"idle", "sending", "done", "failed"}, pending : SUBSET Remote]]
  /\ setupComplete \in [Processes -> BOOLEAN]
  /\ active \in [Clients -> Nat]
  /\ current \in [Clients -> Objects \cup {NoObject}]
  /\ globalOpNum \in [Clients -> Nat]
  /\ written \in [Writers -> SUBSET Objects]
  /\ tester \in {"configuring", "prewriting", "experiment", "done"}

\* A token stands for parameters that were unmarshalled.
TokensAreReceived ==
  /\ \A p \in Processes, k \in Kinds :
       tokens[p][k] > 0 \/ count[p][k] > 0 => k \in received[p]
  /\ \A p \in Processes : stage[p] = "running" => BothCounted(count[p])

\* A process that was not sent a kind yet has no token of it; one that was sent
\* it runs, or was killed, or has the token.
SentOnce ==
  \A p \in Remote, k \in Kinds :
    IF command[k].status = "idle" \/ p \in command[k].pending
      THEN tokens[p][k] = 0 /\ count[p][k] = 0
      ELSE \/ stage[p] \in {"running", "killed"}
           \/ stage[p] = "waiting" /\ count[p][k] + tokens[p][k] > 0

\* The controller counts a command only once it has sent everything.
ControllerCountsLast ==
  /\ \A k \in Kinds :
       /\ command[k].status = "idle" => command[k].pending = {}
       /\ command[k].status # "idle" => k \in received[Controller]
       /\ command[k].status # "done" => tokens[Controller][k] = 0 /\ count[Controller][k] = 0
       /\ command[k].status = "done" => command[k].pending = {}
  /\ setupComplete[Controller] => stage[Controller] = "running"

ConfigInv == TokensAreReceived /\ SentOnce /\ ControllerCountsLast

\* Every operation asked for is a token, in progress or counted.
NoTokenLost ==
  \A c \in Clients : globalOpNum[c] + active[c] + InProgress(c) = Asked(c)

\* The first writes of a writer are of the objects in turn.
WritesInTurn(w) ==
  /\ \A i \in 1..Len(Keys) : i <= globalOpNum[w] => Keys[i] \in written[w]
  /\ current[w] # NoObject /\ globalOpNum[w] < Len(Keys) => current[w] = Keys[globalOpNum[w] + 1]
  /\ setupComplete[w] => IsSetUp(globalOpNum[w])

\* The script asks for reads after one writer has reached the number of objects.
PrewritesFirst ==
  tester \in {"experiment", "done"} => ReachedBySome(Writers, Len(Keys))

OperationInv == NoTokenLost /\ (\A w \in Writers : WritesInTurn(w)) /\ PrewritesFirst

DInv == Types /\ ConfigInv /\ OperationInv
=============================================================================
