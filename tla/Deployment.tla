------------------------------ MODULE Deployment ------------------------------
(***************************************************************************)
(* How a deployment is configured and driven: the processes start and wait *)
(* for their parameters (main_daemon.go, deploymentUtilities.go), the      *)
(* controller hands them out (controller.go, routes.go), the operation     *)
(* commands feed tokens to the clients, whose loops execute one operation  *)
(* per token (client_application.go), and the regression script waits for  *)
(* the pre-writes before it asks for reads (start_regression.sh).  The     *)
(* operations themselves are those of Abd, Sodaw and Prakis; here one      *)
(* starts, and ends when a quorum of servers answers.                      *)
(***************************************************************************)
EXTENDS Integers, FiniteSets, Sequences

CONSTANTS
  Readers, Writers, Servers, Controller,
  Keys,           \* the names of the objects in dictionary order
  NoObject,
  numreads, numwrites,  \* operations asked of each reader, each writer
  ToBeKilled      \* bound: the servers that KillServers may kill

Clients == Readers \cup Writers
Remote == Clients \cup Servers
Processes == Remote \cup {Controller}
Objects == {Keys[i] : i \in DOMAIN Keys}
Kinds == {"depl", "app"}

ASSUME ProcessesAssumption ==
  /\ IsFiniteSet(Servers)
  /\ Readers \cap Writers = {} /\ Clients \cap Servers = {} /\ Controller \notin Remote
  /\ ToBeKilled \subseteq Servers
ASSUME KeysAssumption ==
  /\ Keys \in Seq(Objects) /\ Keys # <<>> /\ NoObject \notin Objects
  /\ numreads \in Nat /\ numwrites \in Nat

VARIABLES
  stage,      \* [Processes -> {"starting", "waiting", "running", "killed"}]
  received,   \* [Processes -> SUBSET Kinds], the parameters unmarshalled
  tokens,     \* [Processes -> [Kinds -> Nat]], in chan_depl_params, chan_app_params
  count,      \* [Processes -> [Kinds -> 0..1]], count2 and count1
  command,    \* [Kinds -> [status, pending]], the controller's two handlers
  setupComplete,  \* [Processes -> BOOLEAN]
  active,     \* [Clients -> Nat], tokens of active_chan_reader and _writer
  current,    \* [Clients -> Objects \cup {NoObject}], the object operated on
  globalOpNum,    \* [Clients -> Nat]
  written,    \* [Writers -> SUBSET Objects], what each writer has written
  tester      \* "configuring", "prewriting", "experiment" or "done"

configVars == <<stage, received, tokens, count, command>>
clientVars == <<active, current, globalOpNum, written>>
vars == <<configVars, clientVars, setupComplete, tester>>

Init ==
  /\ stage = [p \in Processes |-> "starting"]
  /\ received = [p \in Processes |-> {}]
  /\ tokens = [p \in Processes |-> [k \in Kinds |-> 0]]
  /\ count = [p \in Processes |-> [k \in Kinds |-> 0]]
  /\ command = [k \in Kinds |-> [status |-> "idle", pending |-> {}]]
  /\ setupComplete = [p \in Processes |-> FALSE]
  /\ active = [c \in Clients |-> 0]
  /\ current = [c \in Clients |-> NoObject]
  /\ globalOpNum = [c \in Clients |-> 0]
  /\ written = [w \in Writers |-> {}]
  /\ tester = "configuring"

-----------------------------------------------------------------------------
(* Configuration *)

\* waitUntilParamsIsSet makes the channels.  The HTTP server runs in a goroutine
\* of its own: while the process is "starting", it may serve requests or not yet,
\* and the channels are nil.
Start(p) ==
  /\ stage[p] = "starting"
  /\ stage' = [stage EXCEPT ![p] = "waiting"]
  /\ UNCHANGED <<received, tokens, count, command, setupComplete, clientVars, tester>>

HasChannels(p) == stage[p] \in {"waiting", "running"}

\* What the handlers push at their end: SetApplicationParams pushes twice.
Pushed(k) == IF k = "app" THEN 2 ELSE 1

\* The operator sends the parameters to the controller, the deployment first: the
\* controller sends what it got to the processes it knows.
OperatorConfigures(k) ==
  /\ command[k].status = "idle"
  /\ k = "app" => "depl" \in received[Controller]
  /\ received' = [received EXCEPT ![Controller] = @ \cup {k}]
  /\ command' = [command EXCEPT ![k] = [status |-> "sending", pending |-> Remote]]
  /\ UNCHANGED <<stage, tokens, count, setupComplete, clientVars, tester>>

\* Readers first, then writers, then servers, each in the order of a Go map.
NextTargets(pending) ==
  LET first(S, T) == IF S \cap pending # {} THEN S \cap pending ELSE T IN
  first(Readers, first(Writers, Servers \cap pending))

\* send_command_to_process and the handler at p: it unmarshals the parameters and
\* pushes its tokens.  A push to a nil channel blocks for ever, and the controller's
\* request times out; one to a process that does not listen is refused.  Both ways
\* the controller's handler panics, and nobody else is sent anything.
SendParams(k, p) ==
  /\ command[k].status = "sending" /\ p \in NextTargets(command[k].pending)
  /\ \/ /\ HasChannels(p)
        /\ received' = [received EXCEPT ![p] = @ \cup {k}]
        /\ tokens' = [tokens EXCEPT ![p][k] = @ + Pushed(k)]
        /\ command' = [command EXCEPT ![k].pending = @ \ {p}]
     \/ /\ ~ HasChannels(p)
        /\ received' \in {received, [received EXCEPT ![p] = @ \cup {k}]}
        /\ command' = [command EXCEPT ![k].status = "failed"]
        /\ UNCHANGED tokens
  /\ UNCHANGED <<stage, count, setupComplete, clientVars, tester>>

\* Mutant: the controller pushes its own tokens before it has sent everything.
AllSent_always(k) == TRUE

AllSent(k) == command[k].pending = {}

\* The end of the controller's handler: its own push.
CommandEnds(k) ==
  /\ command[k].status = "sending" /\ AllSent(k)
  /\ IF HasChannels(Controller)
       THEN /\ tokens' = [tokens EXCEPT ![Controller][k] = @ + Pushed(k)]
            /\ command' = [command EXCEPT ![k].status = "done"]
       ELSE /\ command' = [command EXCEPT ![k].status = "failed"]
            /\ UNCHANGED tokens
  /\ UNCHANGED <<stage, received, count, setupComplete, clientVars, tester>>

\* Mutant: either count will do.
BothCounted_either(n) == \E k \in Kinds : n[k] > 0

BothCounted(n) == \A k \in Kinds : n[k] > 0

\* One turn of the loop of waitUntilParamsIsSet, and what the process does when
\* the loop ends.  A writer completes its set-up later.  Nobody takes the tokens
\* that are left then; they are forgotten.
TakeParams(p) ==
  \E k \in Kinds :
    /\ stage[p] = "waiting" /\ tokens[p][k] > 0
    /\ count' = [count EXCEPT ![p][k] = 1]
    /\ IF BothCounted(count'[p])
         THEN /\ stage' = [stage EXCEPT ![p] = "running"]
              /\ setupComplete' = [setupComplete EXCEPT ![p] = p \notin Writers]
              /\ tokens' = [tokens EXCEPT ![p] = [j \in Kinds |-> 0]]
         ELSE /\ tokens' = [tokens EXCEPT ![p][k] = @ - 1]
              /\ UNCHANGED <<stage, setupComplete>>
    /\ UNCHANGED <<received, command, clientVars, tester>>

-----------------------------------------------------------------------------
(* The clients *)

\* Mutant: the initial writes pick objects like any other.
retrieveObjectByIndex_any(i) == Objects

retrieveObjectByIndex(i) == {Keys[i + 1]}

\* doAWrite: the first writes take the objects in turn.  Any other operation
\* takes an entry of a list of the keys in the order of a Go map: any object,
\* whatever the picker chose.
PickedObjects(c) ==
  IF c \in Writers /\ globalOpNum[c] < Len(Keys)
    THEN retrieveObjectByIndex(globalOpNum[c]) ELSE Objects

\* A turn of the client's loop takes a token.
StartOperation(c) ==
  /\ stage[c] = "running" /\ current[c] = NoObject /\ active[c] > 0
  /\ \E o \in PickedObjects(c) : current' = [current EXCEPT ![c] = o]
  /\ active' = [active EXCEPT ![c] = @ - 1]
  /\ UNCHANGED <<configVars, globalOpNum, written, setupComplete, tester>>

\* Mutant: set up one write too early.
IsSetUp_early(n) == n + 1 >= Len(Keys)

quorum_size == Cardinality(Servers) \div 2 + 1
OperationsDone(n) == n + 1
IsSetUp(n) == n >= Len(Keys)

Quorum == Cardinality({s \in Servers : stage[s] = "running"}) >= quorum_size
QuorumLost == Cardinality({s \in Servers : stage[s] # "killed"}) < quorum_size

\* An operation ends when a quorum of running servers has answered it.
EndOperation(c) ==
  /\ current[c] # NoObject
  /\ Quorum
  /\ current' = [current EXCEPT ![c] = NoObject]
  /\ globalOpNum' = [globalOpNum EXCEPT ![c] = OperationsDone(@)]
  /\ IF c \in Writers
       THEN /\ written' = [written EXCEPT ![c] = @ \cup {current[c]}]
            /\ setupComplete' =
                 [setupComplete EXCEPT ![c] = @ \/ IsSetUp(globalOpNum'[c])]
       ELSE UNCHANGED <<written, setupComplete>>
  /\ UNCHANGED <<configVars, active, tester>>

-----------------------------------------------------------------------------
(* The script and the operation commands *)

\* DoReadOperations, DoWriteOperations: the handler's goroutine feeds the tokens.
Feed(C, n) == active' = [c \in Clients |-> IF c \in C THEN active[c] + n ELSE active[c]]

\* check_operations: the largest count of the clients C.
ReachedBySome(C, n) == \E c \in C : globalOpNum[c] >= n

TesterPrewrites ==
  /\ tester = "configuring" /\ setupComplete[Controller]
  /\ tester' = "prewriting"
  /\ Feed(Writers, Len(Keys))
  /\ UNCHANGED <<configVars, current, globalOpNum, written, setupComplete>>

TesterRunsExperiment ==
  /\ tester = "prewriting" /\ ReachedBySome(Writers, Len(Keys))
  /\ tester' = "experiment"
  /\ active' = [c \in Clients |-> active[c] + IF c \in Readers THEN numreads ELSE numwrites]
  /\ UNCHANGED <<configVars, current, globalOpNum, written, setupComplete>>

TesterEnds ==
  /\ tester = "experiment"
  /\ ReachedBySome(Writers, Len(Keys) + numwrites) /\ ReachedBySome(Readers, numreads)
  /\ tester' = "done"
  /\ UNCHANGED <<configVars, clientVars, setupComplete>>

\* KillServers, and KillSelf at the server.
KillServer(s) ==
  /\ tester # "configuring" /\ s \in ToBeKilled /\ stage[s] # "killed"
  /\ stage' = [stage EXCEPT ![s] = "killed"]
  /\ UNCHANGED <<received, tokens, count, command, clientVars, setupComplete, tester>>

-----------------------------------------------------------------------------
ProcessStep(p) == Start(p) \/ TakeParams(p)
ControllerStep(k) ==
  OperatorConfigures(k) \/ (\E p \in Remote : SendParams(k, p)) \/ CommandEnds(k)
ClientStep(c) == StartOperation(c) \/ EndOperation(c)
TesterStep == TesterPrewrites \/ TesterRunsExperiment \/ TesterEnds

Next ==
  \/ \E p \in Processes : ProcessStep(p)
  \/ \E k \in Kinds : ControllerStep(k)
  \/ \E c \in Clients : ClientStep(c)
  \/ TesterStep
  \/ \E s \in Servers : KillServer(s)

\* Every goroutine is scheduled, the operator and the script go on; nobody has
\* to kill a server.
Fairness ==
  /\ \A p \in Processes : WF_vars(ProcessStep(p))
  /\ \A k \in Kinds : WF_vars(ControllerStep(k))
  /\ \A c \in Clients : WF_vars(ClientStep(c))
  /\ WF_vars(TesterStep)

Spec == Init /\ [][Next]_vars
FairSpec == Spec /\ Fairness

-----------------------------------------------------------------------------
(* Properties *)

\* The types; a client counts no more operations than it was asked for.
TypeOK ==
  /\ stage \in [Processes -> {"starting", "waiting", "running", "killed"}]
  /\ received \in [Processes -> SUBSET Kinds]
  /\ tokens \in [Processes -> [Kinds -> 0..2]]
  /\ count \in [Processes -> [Kinds -> 0..1]]
  /\ command \in [Kinds -> [status : {"idle", "sending", "done", "failed"}, pending : SUBSET Remote]]
  /\ setupComplete \in [Processes -> BOOLEAN]
  /\ active \in [Clients -> 0..(Len(Keys) + numreads + numwrites)]
  /\ current \in [Clients -> Objects \cup {NoObject}]
  /\ \A r \in Readers : globalOpNum[r] \in 0..numreads
  /\ \A w \in Writers : globalOpNum[w] \in 0..(Len(Keys) + numwrites)
  /\ written \in [Writers -> SUBSET Objects]
  /\ tester \in {"configuring", "prewriting", "experiment", "done"}

\* A process leaves waitUntilParamsIsSet only with both sets of parameters
\* unmarshalled (deploymentUtilities.go:127-144, routes.go:331-427): the tokens of
\* one kind, of which there are two, never stand for the other.
RunningIsConfigured ==
  \A p \in Processes : stage[p] = "running" => received[p] = Kinds

\* When the controller reports its set-up (isSetup, routes.go:360-368), every
\* process runs or has the tokens it still waits for: no token was lost.
ControllerIsSetupLast ==
  setupComplete[Controller] =>
    \A p \in Remote :
      \/ stage[p] \in {"running", "killed"}
      \/ stage[p] = "waiting" /\ \A k \in Kinds : count[p][k] + tokens[p][k] > 0

\* No read is of an object that was never written: the pre-writes of one writer
\* cover all objects before the script asks for reads (client_application.go:
\* 244-248, start_regression.sh:80-89).  The modules Sodaw and Prakis start
\* from objects that were written, because of this.
ReadsAreOfWrittenObjects ==
  \A r \in Readers : current[r] # NoObject => \E w \in Writers : current[r] \in written[w]

\* A writer that reports its set-up has written every object
\* (client_application.go:305-309).
WriterSetupMeansAllWritten ==
  \A w \in Writers : setupComplete[w] => written[w] = Objects

\* Every client has executed everything it was asked for, unless the servers left
\* are no quorum: no command was lost on a client that was not running yet
\* (routes.go:211-290, client_application.go:71-187).
OperationsEnded ==
  \/ QuorumLost
  \/ /\ tester = "done"
     /\ \A r \in Readers : globalOpNum[r] = numreads
     /\ \A w \in Writers : globalOpNum[w] = Len(Keys) + numwrites
=============================================================================
