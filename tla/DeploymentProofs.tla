--------------------------- MODULE DeploymentProofs ---------------------------
(***************************************************************************)
(* Proofs about Deployment: its safety properties hold for any number of   *)
(* processes, objects and operations, whichever servers are killed; and    *)
(* about ClientLoop, for any number of commands, tokens and limits.        *)
(***************************************************************************)
EXTENDS DeploymentInvariant, ClientLoop, TLAPS

-----------------------------------------------------------------------------
(* The initial states *)

LEMMA LenKeys == Len(Keys) \in Nat \ {0} /\ Objects # {}
<1>1. Keys \in Seq(Objects) /\ Keys # <<>>
  BY KeysAssumption
<1>2. Len(Keys) \in Nat /\ Len(Keys) # 0
  BY <1>1
<1>3. Keys[1] \in Objects
  BY <1>1, <1>2
<1> QED
  BY <1>2, <1>3

LEMMA DInit == Init => DInv
<1> SUFFICES ASSUME Init PROVE DInv
  OBVIOUS
<1>1. Types
  BY KeysAssumption DEF Init, Types
<1>2. TokensAreReceived
  BY DEF Init, TokensAreReceived, BothCounted, Kinds, Processes
<1>3. SentOnce
  BY DEF Init, SentOnce, Processes
<1>4. ControllerCountsLast
  BY DEF Init, ControllerCountsLast, Processes
<1>5. NoTokenLost
  BY DEF Init, NoTokenLost, InProgress, Asked
<1>6. \A w \in Writers : WritesInTurn(w)
  <2> SUFFICES ASSUME NEW w \in Writers PROVE WritesInTurn(w)
    OBVIOUS
  <2>1. w \in Clients /\ w \in Processes
    BY DEF Clients, Processes, Remote
  <2> QED
    BY <2>1, LenKeys DEF Init, WritesInTurn
<1>7. PrewritesFirst
  BY DEF Init, PrewritesFirst
<1> QED
  BY <1>1, <1>2, <1>3, <1>4, <1>5, <1>6, <1>7 DEF DInv, ConfigInv, OperationInv

-----------------------------------------------------------------------------
(* Configuration: the steps of the processes and of the controller *)

LEMMA Disjoint ==
  /\ Remote \subseteq Processes /\ Controller \in Processes /\ Controller \notin Remote
  /\ Clients \subseteq Remote /\ Servers \subseteq Remote
  /\ Readers \subseteq Clients /\ Writers \subseteq Clients
  /\ Clients \cap Servers = {} /\ Readers \cap Writers = {}
BY ProcessesAssumption DEF Remote, Processes, Clients

LEMMA StartKeeps ==
  ASSUME DInv, NEW p \in Processes, Start(p)
  PROVE  DInv'
<1>1. Types'
  BY DEF DInv, Types, Start, clientVars
<1>2. TokensAreReceived'
  BY DEF DInv, Types, ConfigInv, TokensAreReceived, Start
<1>3. SentOnce'
  BY DEF DInv, Types, ConfigInv, SentOnce, Start, Processes
<1>4. ControllerCountsLast'
  BY Disjoint DEF DInv, Types, ConfigInv, ControllerCountsLast, Start
<1>5. OperationInv'
  BY DEF DInv, OperationInv, NoTokenLost, InProgress, Asked, WritesInTurn,
         PrewritesFirst, ReachedBySome, Start, clientVars
<1> QED
  BY <1>1, <1>2, <1>3, <1>4, <1>5 DEF DInv, ConfigInv

LEMMA OperatorKeeps ==
  ASSUME DInv, NEW k \in Kinds, OperatorConfigures(k)
  PROVE  DInv'
<1>1. Types'
  BY Disjoint DEF DInv, Types, OperatorConfigures, clientVars
<1>2. TokensAreReceived'
  BY Disjoint DEF DInv, Types, ConfigInv, TokensAreReceived, OperatorConfigures
<1>3. SentOnce'
  BY DEF DInv, Types, ConfigInv, SentOnce, OperatorConfigures
<1>4. ControllerCountsLast'
  BY Disjoint DEF DInv, Types, ConfigInv, ControllerCountsLast, OperatorConfigures
<1>5. OperationInv'
  BY DEF DInv, OperationInv, NoTokenLost, InProgress, Asked, WritesInTurn,
         PrewritesFirst, ReachedBySome, OperatorConfigures, clientVars
<1> QED
  BY <1>1, <1>2, <1>3, <1>4, <1>5 DEF DInv, ConfigInv

\* Changing the status of one command leaves the rest as it is.
LEMMA StatusChange ==
  ASSUME Types, NEW k \in Kinds, NEW st \in {"done", "failed"},
         command' = [command EXCEPT ![k].status = st]
  PROVE  /\ command' \in [Kinds -> [status : {"idle", "sending", "done", "failed"},
                                    pending : SUBSET Remote]]
         /\ command'[k].status = st
         /\ \A j \in Kinds : /\ command'[j].pending = command[j].pending
                             /\ j # k => command'[j].status = command[j].status
<1>1. command[k] \in [status : {"idle", "sending", "done", "failed"}, pending : SUBSET Remote]
  BY DEF Types
<1>2. [command[k] EXCEPT !.status = st]
        \in [status : {"idle", "sending", "done", "failed"}, pending : SUBSET Remote]
  BY <1>1
<1>3. command' = [command EXCEPT ![k] = [command[k] EXCEPT !.status = st]]
  OBVIOUS
<1>4. \A j \in Kinds : command'[j] = IF j = k THEN [command[k] EXCEPT !.status = st] ELSE command[j]
  BY <1>3 DEF Types
<1> QED
  BY ZenonT(40), <1>1, <1>2, <1>3, <1>4 DEF Types

LEMMA SendingKeeps ==
  ASSUME DInv, NEW k \in Kinds, NEW p \in Remote, SendParams(k, p)
  PROVE  DInv'
<1> USE DEF DInv, Types
<1>1. p \in command[k].pending /\ command[k].status = "sending" /\ p \in Processes
  <2>1. NextTargets(command[k].pending) \subseteq command[k].pending
    BY DEF NextTargets
  <2> QED
    BY <2>1, Disjoint DEF SendParams
<1>2. tokens[p][k] = 0 /\ count[p][k] = 0
  BY <1>1 DEF ConfigInv, SentOnce
<1>3. Pushed(k) \in 1..2
  BY DEF Pushed
<1>4. ASSUME HasChannels(p),
             received' = [received EXCEPT ![p] = @ \cup {k}],
             tokens' = [tokens EXCEPT ![p][k] = @ + Pushed(k)],
             command' = [command EXCEPT ![k].pending = @ \ {p}],
             UNCHANGED <<stage, count, setupComplete, clientVars, tester>>
      PROVE  Types' /\ ConfigInv'
  <2>1. Types'
    BY <1>1, <1>2, <1>3, <1>4 DEF clientVars
  <2>2. TokensAreReceived'
    BY <1>1, <1>4 DEF ConfigInv, TokensAreReceived
  <2>3. SentOnce'
    <3> SUFFICES ASSUME NEW q \in Remote, NEW j \in Kinds
                 PROVE  IF command'[j].status = "idle" \/ q \in command'[j].pending
                          THEN tokens'[q][j] = 0 /\ count'[q][j] = 0
                          ELSE \/ stage'[q] \in {"running", "killed"}
                               \/ stage'[q] = "waiting" /\ count'[q][j] + tokens'[q][j] > 0
      BY DEF SentOnce
    <3>1. CASE q = p /\ j = k
      <4>1. command'[k].status = "sending" /\ p \notin command'[k].pending
        BY <1>1, <1>4
      <4>2. stage'[p] \in {"waiting", "running"}
        BY <1>4 DEF HasChannels
      <4>3. count'[p][k] + tokens'[p][k] > 0
        BY <1>1, <1>2, <1>3, <1>4
      <4> QED
        BY <3>1, <4>1, <4>2, <4>3
    <3>2. CASE ~ (q = p /\ j = k)
      <4>1. tokens'[q][j] = tokens[q][j] /\ count'[q][j] = count[q][j] /\ stage'[q] = stage[q]
        BY <1>1, <1>4, <3>2, Disjoint
      <4>2. /\ command'[j].status = command[j].status
            /\ q \in command'[j].pending <=> q \in command[j].pending
        BY <1>1, <1>4, <3>2
      <4> QED
        BY <4>1, <4>2 DEF ConfigInv, SentOnce
    <3> QED
      BY <3>1, <3>2
  <2>4. ControllerCountsLast'
    BY <1>1, <1>4, Disjoint DEF ConfigInv, ControllerCountsLast
  <2> QED
    BY <2>1, <2>2, <2>3, <2>4 DEF ConfigInv
<1>5. ASSUME received' \in {received, [received EXCEPT ![p] = @ \cup {k}]},
             command' = [command EXCEPT ![k].status = "failed"],
             UNCHANGED <<tokens, stage, count, setupComplete, clientVars, tester>>
      PROVE  Types' /\ ConfigInv'
  <2> HIDE DEF Types
  <2>0. /\ command' \in [Kinds -> [status : {"idle", "sending", "done", "failed"},
                                   pending : SUBSET Remote]]
        /\ command'[k].status = "failed"
        /\ \A j \in Kinds : /\ command'[j].pending = command[j].pending
                            /\ j # k => command'[j].status = command[j].status
    BY <1>5, StatusChange
  <2> USE DEF Types
  <2>5. received' \in [Processes -> SUBSET Kinds] /\ received'[Controller] = received[Controller]
    <3>1. CASE received' = received
      BY <3>1
    <3>2. CASE received' = [received EXCEPT ![p] = @ \cup {k}]
      BY <1>1, <3>2, Disjoint
    <3> QED
      BY <1>5, <3>1, <3>2
  <2>1. Types'
    BY <2>0, <2>5, <1>5 DEF clientVars
  <2>2. TokensAreReceived'
    BY ZenonT(40), <1>1, <1>5 DEF ConfigInv, TokensAreReceived
  <2>3. SentOnce'
    BY <2>0, <1>1, <1>5 DEF ConfigInv, SentOnce
  <2>4. ControllerCountsLast'
    BY <2>0, <2>5, <1>1, <1>5 DEF ConfigInv, ControllerCountsLast
  <2> QED
    BY <2>1, <2>2, <2>3, <2>4 DEF ConfigInv
<1>6. Types' /\ ConfigInv'
  BY <1>4, <1>5 DEF SendParams
<1>7. OperationInv'
  BY DEF SendParams, OperationInv, NoTokenLost, InProgress, Asked, WritesInTurn,
         PrewritesFirst, ReachedBySome, clientVars
<1> QED
  BY <1>6, <1>7

LEMMA CommandEndKeeps ==
  ASSUME DInv, NEW k \in Kinds, CommandEnds(k)
  PROVE  DInv'
<1>1. /\ command[k].status = "sending" /\ command[k].pending = {}
      /\ tokens[Controller][k] = 0 /\ k \in received[Controller]
  BY DEF DInv, CommandEnds, AllSent, ConfigInv, ControllerCountsLast
<1>2. PICK st \in {"done", "failed"} :
        /\ command' = [command EXCEPT ![k].status = st]
        /\ tokens' = IF st = "done" THEN [tokens EXCEPT ![Controller][k] = @ + Pushed(k)]
                                    ELSE tokens
  BY DEF CommandEnds
<1>3. UNCHANGED <<stage, received, count, setupComplete, clientVars, tester>>
  BY DEF CommandEnds
<1>4. /\ command' \in [Kinds -> [status : {"idle", "sending", "done", "failed"},
                                 pending : SUBSET Remote]]
      /\ command'[k].status = st
      /\ \A j \in Kinds : /\ command'[j].pending = command[j].pending
                          /\ j # k => command'[j].status = command[j].status
  BY <1>2, StatusChange DEF DInv
<1>5. /\ tokens' \in [Processes -> [Kinds -> 0..2]]
      /\ \A q \in Processes, j \in Kinds :
           \/ tokens'[q][j] = tokens[q][j]
           \/ q = Controller /\ j = k /\ st = "done"
  BY <1>1, <1>2, Disjoint DEF DInv, Types, Pushed
<1>6. Types'
  BY <1>3, <1>4, <1>5 DEF DInv, Types, clientVars
<1>7. TokensAreReceived'
  BY <1>1, <1>3, <1>5 DEF DInv, ConfigInv, TokensAreReceived
<1>8. SentOnce'
  BY <1>1, <1>3, <1>4, <1>5, Disjoint DEF DInv, ConfigInv, SentOnce
<1>9. ControllerCountsLast'
  BY <1>1, <1>3, <1>4, <1>5, Disjoint DEF DInv, ConfigInv, ControllerCountsLast
<1>10. OperationInv'
  BY <1>3 DEF DInv, OperationInv, NoTokenLost, InProgress, Asked, WritesInTurn,
              PrewritesFirst, ReachedBySome, clientVars
<1> QED
  BY <1>6, <1>7, <1>8, <1>9, <1>10 DEF DInv, ConfigInv

LEMMA TakingKeeps ==
  ASSUME DInv, NEW p \in Processes, TakeParams(p)
  PROVE  DInv'
<1>1. PICK k \in Kinds :
        /\ stage[p] = "waiting" /\ tokens[p][k] > 0
        /\ count' = [count EXCEPT ![p][k] = 1]
        /\ IF BothCounted(count'[p])
             THEN /\ stage' = [stage EXCEPT ![p] = "running"]
                  /\ setupComplete' = [setupComplete EXCEPT ![p] = p \notin Writers]
                  /\ tokens' = [tokens EXCEPT ![p] = [j \in Kinds |-> 0]]
             ELSE /\ tokens' = [tokens EXCEPT ![p][k] = @ - 1]
                  /\ UNCHANGED <<stage, setupComplete>>
        /\ UNCHANGED <<received, command, clientVars, tester>>
  BY DEF TakeParams
<1>2. /\ count' \in [Processes -> [Kinds -> 0..1]]
      /\ \A q \in Processes, j \in Kinds :
           count'[q][j] = IF q = p /\ j = k THEN 1 ELSE count[q][j]
  BY <1>1 DEF DInv, Types
<1>3. /\ tokens' \in [Processes -> [Kinds -> 0..2]]
      /\ \A q \in Processes, j \in Kinds :
           /\ tokens'[q][j] > 0 => tokens[q][j] > 0
           /\ ~ (q = p /\ (j = k \/ stage'[p] = "running")) => tokens'[q][j] = tokens[q][j]
  <2>1. tokens[p][k] - 1 \in 0..2 /\ stage \in [Processes -> {"starting", "waiting", "running", "killed"}]
    BY <1>1 DEF DInv, Types
  <2>2. CASE BothCounted(count'[p])
    <3>1. stage'[p] = "running" /\ tokens' = [tokens EXCEPT ![p] = [j \in Kinds |-> 0]]
      BY <1>1, <2>1, <2>2
    <3>2. \A q \in Processes : tokens'[q] = IF q = p THEN [j \in Kinds |-> 0] ELSE tokens[q]
      BY <3>1 DEF DInv, Types
    <3>3. tokens' \in [Processes -> [Kinds -> 0..2]]
      BY <3>1 DEF DInv, Types
    <3> QED
      BY <3>1, <3>2, <3>3
  <2>3. CASE ~ BothCounted(count'[p])
    <3>1. tokens' = [tokens EXCEPT ![p][k] = @ - 1]
      BY <1>1, <2>3
    <3>2. \A q \in Processes, j \in Kinds :
            tokens'[q][j] = IF q = p /\ j = k THEN tokens[q][j] - 1 ELSE tokens[q][j]
      BY <3>1 DEF DInv, Types
    <3>3. tokens' \in [Processes -> [Kinds -> 0..2]]
      BY <2>1, <3>1 DEF DInv, Types
    <3> QED
      BY <1>1, <2>1, <3>2, <3>3
  <2> QED
    BY <2>2, <2>3
<1>4. /\ stage' \in [Processes -> {"starting", "waiting", "running", "killed"}]
      /\ \A q \in Processes : \/ stage'[q] = stage[q]
                              \/ q = p /\ stage'[q] = "running"
      /\ (stage'[p] = "running" <=> BothCounted(count'[p]))
  BY <1>1 DEF DInv, Types
<1>5. /\ setupComplete' \in [Processes -> BOOLEAN]
      /\ \A q \in Processes : \/ setupComplete'[q] = setupComplete[q]
                              \/ q = p /\ stage'[p] = "running"
      /\ \A w \in Writers : setupComplete'[w] => setupComplete[w]
  BY <1>1, <1>4, Disjoint DEF DInv, Types
<1>6. Types'
  BY <1>1, <1>2, <1>3, <1>4, <1>5 DEF DInv, Types, clientVars
<1>7. TokensAreReceived'
  <2>1. \A q \in Processes, j \in Kinds :
          tokens'[q][j] > 0 \/ count'[q][j] > 0 => j \in received'[q]
    BY <1>1, <1>2, <1>3 DEF DInv, Types, ConfigInv, TokensAreReceived
  <2>2. \A q \in Processes : stage'[q] = "running" => BothCounted(count'[q])
    <3> SUFFICES ASSUME NEW q \in Processes, stage'[q] = "running"
                 PROVE  BothCounted(count'[q])
      OBVIOUS
    <3>1. CASE q = p
      BY <1>4, <3>1
    <3>2. CASE q # p
      BY <1>1, <1>2, <1>4, <3>2 DEF DInv, Types, ConfigInv, TokensAreReceived, BothCounted
    <3> QED
      BY <3>1, <3>2
  <2> QED
    BY <2>1, <2>2 DEF TokensAreReceived
<1>8. SentOnce'
  <2> SUFFICES ASSUME NEW q \in Remote, NEW j \in Kinds
               PROVE  IF command'[j].status = "idle" \/ q \in command'[j].pending
                        THEN tokens'[q][j] = 0 /\ count'[q][j] = 0
                        ELSE \/ stage'[q] \in {"running", "killed"}
                             \/ stage'[q] = "waiting" /\ count'[q][j] + tokens'[q][j] > 0
    BY DEF SentOnce
  <2>1. /\ q \in Processes /\ command' = command
        /\ tokens[q][j] \in 0..2 /\ tokens'[q][j] \in 0..2
        /\ count[q][j] \in 0..1 /\ count'[q][j] \in 0..1
    BY <1>1, <1>2, <1>3, Disjoint DEF DInv, Types
  <2>2. CASE command[j].status = "idle" \/ q \in command[j].pending
    <3>1. tokens[q][j] = 0 /\ count[q][j] = 0
      BY <2>2 DEF DInv, ConfigInv, SentOnce
    <3>2. ~ (q = p /\ j = k)
      BY <1>1, <3>1
    <3> QED
      BY <1>2, <1>3, <2>1, <2>2, <3>1, <3>2
  <2>3. CASE ~ (command[j].status = "idle" \/ q \in command[j].pending)
    <3>1. \/ stage[q] \in {"running", "killed"}
          \/ stage[q] = "waiting" /\ count[q][j] + tokens[q][j] > 0
      BY <2>3 DEF DInv, ConfigInv, SentOnce
    <3>2. CASE q = p /\ j = k
      BY <1>1, <1>2, <1>4, <2>1, <2>3, <3>2
    <3>3. CASE ~ (q = p /\ j = k)
      BY <1>2, <1>3, <1>4, <2>1, <2>3, <3>1, <3>3
    <3> QED
      BY <3>2, <3>3
  <2> QED
    BY <2>2, <2>3
<1>9. ControllerCountsLast'
  <2>1. \A j \in Kinds : command[j].status # "done" =>
          tokens'[Controller][j] = 0 /\ count'[Controller][j] = 0
    BY <1>1, <1>2, <1>3, Disjoint DEF DInv, Types, ConfigInv, ControllerCountsLast
  <2>2. setupComplete'[Controller] => stage'[Controller] = "running"
    BY <1>4, <1>5, Disjoint DEF DInv, ConfigInv, ControllerCountsLast
  <2> QED
    BY <1>1, <2>1, <2>2 DEF DInv, ConfigInv, ControllerCountsLast
<1>10. OperationInv'
  BY <1>1, <1>5 DEF DInv, OperationInv, NoTokenLost, InProgress, Asked, WritesInTurn,
              PrewritesFirst, ReachedBySome, clientVars
<1> QED
  BY <1>6, <1>7, <1>8, <1>9, <1>10 DEF DInv, ConfigInv

LEMMA KillKeeps ==
  ASSUME DInv, NEW s \in Servers, KillServer(s)
  PROVE  DInv'
<1>1. /\ stage' \in [Processes -> {"starting", "waiting", "running", "killed"}]
      /\ \A p \in Processes : \/ stage'[p] = stage[p]
                              \/ p # Controller /\ stage'[p] = "killed"
      /\ UNCHANGED <<received, tokens, count, command, clientVars, setupComplete, tester>>
  BY Disjoint DEF DInv, Types, KillServer
<1>2. Types'
  BY <1>1 DEF DInv, Types, clientVars
<1>3. TokensAreReceived'
  BY <1>1 DEF DInv, ConfigInv, TokensAreReceived
<1>4. SentOnce'
  BY <1>1, Disjoint DEF DInv, ConfigInv, SentOnce
<1>5. ControllerCountsLast'
  BY <1>1, Disjoint DEF DInv, ConfigInv, ControllerCountsLast
<1>6. OperationInv'
  BY <1>1 DEF DInv, OperationInv, NoTokenLost, InProgress, Asked, WritesInTurn,
              PrewritesFirst, ReachedBySome, clientVars
<1> QED
  BY <1>2, <1>3, <1>4, <1>5, <1>6 DEF DInv, ConfigInv

-----------------------------------------------------------------------------
(* Operations: the steps of the clients and of the script *)

\* Configuration is not touched by them.
LEMMA ConfigKept ==
  ASSUME ConfigInv, UNCHANGED configVars,
         setupComplete'[Controller] => setupComplete[Controller]
  PROVE  ConfigInv'
<1>1. TokensAreReceived'
  BY DEF ConfigInv, TokensAreReceived, configVars
<1>2. SentOnce'
  BY DEF ConfigInv, SentOnce, configVars
<1>3. ControllerCountsLast'
  BY DEF ConfigInv, ControllerCountsLast, configVars
<1> QED
  BY <1>1, <1>2, <1>3 DEF ConfigInv

LEMMA OperationStarts ==
  ASSUME DInv, NEW c \in Clients, StartOperation(c)
  PROVE  DInv'
<1>1. PICK o \in PickedObjects(c) : current' = [current EXCEPT ![c] = o]
  BY DEF StartOperation
<1>2. o \in Objects
  <2>1. CASE c \in Writers /\ globalOpNum[c] < Len(Keys)
    <3>1. globalOpNum[c] + 1 \in DOMAIN Keys
      BY <2>1, KeysAssumption DEF DInv, Types
    <3> QED
      BY <1>1, <2>1, <3>1 DEF PickedObjects, retrieveObjectByIndex, Objects
  <2>2. CASE ~ (c \in Writers /\ globalOpNum[c] < Len(Keys))
    BY <1>1, <2>2 DEF PickedObjects
  <2> QED
    BY <2>1, <2>2
<1>3. current[c] = NoObject /\ o # NoObject /\ active[c] \in Nat /\ active[c] > 0
  BY <1>2, KeysAssumption DEF StartOperation, DInv, Types
<1>4. active' = [active EXCEPT ![c] = @ - 1]
      /\ UNCHANGED <<configVars, globalOpNum, written, setupComplete, tester>>
  BY DEF StartOperation
<1>5. Types'
  BY <1>1, <1>2, <1>3, <1>4 DEF DInv, Types, configVars
<1>6. ConfigInv'
  BY <1>4, ConfigKept DEF DInv
<1>7. NoTokenLost'
  BY <1>1, <1>3, <1>4 DEF DInv, Types, OperationInv, NoTokenLost, InProgress, Asked
<1>8. \A w \in Writers : WritesInTurn(w)'
  <2> SUFFICES ASSUME NEW w \in Writers PROVE WritesInTurn(w)'
    OBVIOUS
  <2>1. CASE w = c
    <3>1. globalOpNum[w] < Len(Keys) => current'[w] = Keys[globalOpNum[w] + 1]
      BY <1>1, <2>1, Disjoint DEF DInv, Types, PickedObjects, retrieveObjectByIndex
    <3> QED
      BY <1>4, <3>1 DEF DInv, OperationInv, WritesInTurn
  <2>2. CASE w # c
    BY <1>1, <1>4, <2>2, Disjoint DEF DInv, Types, OperationInv, WritesInTurn
  <2> QED
    BY <2>1, <2>2
<1>9. PrewritesFirst'
  BY <1>4 DEF DInv, OperationInv, PrewritesFirst, ReachedBySome
<1> QED
  BY <1>5, <1>6, <1>7, <1>8, <1>9 DEF DInv, OperationInv

LEMMA OperationEnds ==
  ASSUME DInv, NEW c \in Clients, EndOperation(c)
  PROVE  DInv'
<1>1. /\ current[c] # NoObject
      /\ current' = [current EXCEPT ![c] = NoObject]
      /\ globalOpNum' = [globalOpNum EXCEPT ![c] = @ + 1]
      /\ UNCHANGED <<configVars, active, tester>>
  BY DEF EndOperation, OperationsDone
<1>2. /\ written' \in [Writers -> SUBSET Objects]
      /\ setupComplete' \in [Processes -> BOOLEAN]
      /\ setupComplete'[Controller] = setupComplete[Controller]
      /\ \A w \in Writers :
           /\ written'[w] = IF w = c THEN written[w] \cup {current[w]} ELSE written[w]
           /\ setupComplete'[w] => \/ setupComplete[w]
                                   \/ w = c /\ IsSetUp(globalOpNum'[w])
  <2>1. current[c] \in Objects /\ written \in [Writers -> SUBSET Objects]
        /\ setupComplete \in [Processes -> BOOLEAN]
    BY <1>1 DEF DInv, Types
  <2>2. CASE c \in Writers
    <3>1. /\ written' = [written EXCEPT ![c] = @ \cup {current[c]}]
          /\ setupComplete' = [setupComplete EXCEPT ![c] = @ \/ IsSetUp(globalOpNum'[c])]
      BY <2>2 DEF EndOperation
    <3>2. IsSetUp(globalOpNum'[c]) \in BOOLEAN
      BY DEF IsSetUp
    <3> DEFINE ends == setupComplete[c] \/ IsSetUp(globalOpNum'[c])
    <3>3. ends \in BOOLEAN /\ setupComplete' = [setupComplete EXCEPT ![c] = ends]
      BY <3>1, <3>2, <2>1
    <3> HIDE DEF ends
    <3>5. setupComplete' \in [Processes -> BOOLEAN]
          /\ \A p \in Processes : setupComplete'[p] = IF p = c THEN ends ELSE setupComplete[p]
      BY <2>1, <3>3, Disjoint
    <3>6. /\ written' \in [Writers -> SUBSET Objects]
          /\ \A w \in Writers :
               written'[w] = IF w = c THEN written[w] \cup {current[w]} ELSE written[w]
      BY <2>1, <2>2, <3>1
    <3> QED
      BY <2>2, <3>5, <3>6, Disjoint DEF ends
  <2>3. CASE c \notin Writers
    BY <2>1, <2>3 DEF EndOperation
  <2> QED
    BY <2>2, <2>3
<1>3. Types'
  BY <1>1, <1>2 DEF DInv, Types, configVars
<1>4. ConfigInv'
  BY <1>1, <1>2, ConfigKept DEF DInv
<1>5. NoTokenLost'
  BY <1>1 DEF DInv, Types, OperationInv, NoTokenLost, InProgress, Asked
<1>6. \A w \in Writers : WritesInTurn(w)'
  <2> SUFFICES ASSUME NEW w \in Writers PROVE WritesInTurn(w)'
    OBVIOUS
  <2>1. WritesInTurn(w) /\ globalOpNum[w] \in Nat /\ w \in Clients
    BY Disjoint DEF DInv, Types, OperationInv
  <2>2. CASE w = c
    <3>1. globalOpNum'[w] = globalOpNum[w] + 1 /\ current'[w] = NoObject
      BY <1>1, <2>1, <2>2 DEF DInv, Types
    <3>2. \A i \in 1..Len(Keys) : i <= globalOpNum'[w] => Keys[i] \in written'[w]
      BY <1>1, <1>2, <2>1, <2>2, <3>1, LenKeys DEF WritesInTurn
    <3>3. setupComplete'[w] => IsSetUp(globalOpNum'[w])
      BY <1>2, <2>1, <3>1, LenKeys DEF WritesInTurn, IsSetUp
    <3> QED
      BY <3>1, <3>2, <3>3 DEF WritesInTurn
  <2>3. CASE w # c
    <3>1. globalOpNum'[w] = globalOpNum[w] /\ current'[w] = current[w]
      BY <1>1, <2>1, <2>3 DEF DInv, Types
    <3> QED
      BY <1>2, <2>1, <2>3, <3>1 DEF WritesInTurn
  <2> QED
    BY <2>2, <2>3
<1>7. PrewritesFirst'
  BY <1>1, LenKeys DEF DInv, Types, OperationInv, PrewritesFirst, ReachedBySome, Clients
<1> QED
  BY <1>3, <1>4, <1>5, <1>6, <1>7 DEF DInv, OperationInv

LEMMA AskedKept ==
  ASSUME DInv, UNCHANGED <<configVars, current, globalOpNum, written, setupComplete>>,
         active' \in [Clients -> Nat],
         tester' \in {"configuring", "prewriting", "experiment", "done"},
         \A c \in Clients : active'[c] - active[c] = Asked(c)' - Asked(c),
         PrewritesFirst'
  PROVE  DInv'
<1>1. Types'
  BY DEF DInv, Types, configVars
<1>2. ConfigInv'
  BY ConfigKept DEF DInv
<1>3. NoTokenLost'
  <2> SUFFICES ASSUME NEW c \in Clients
               PROVE  globalOpNum'[c] + active'[c] + InProgress(c)' = Asked(c)'
    BY DEF NoTokenLost
  <2>1. InProgress(c)' = InProgress(c) /\ InProgress(c) \in Nat
    BY DEF InProgress
  <2>2. Asked(c) \in Nat
    BY LenKeys, KeysAssumption DEF Asked
  <2>3. Asked(c)' \in Nat
    BY LenKeys, KeysAssumption DEF Asked
  <2>4. globalOpNum[c] + active[c] + InProgress(c) = Asked(c)
    BY DEF DInv, OperationInv, NoTokenLost
  <2>5. globalOpNum'[c] = globalOpNum[c] /\ globalOpNum[c] \in Nat
        /\ active[c] \in Nat /\ active'[c] \in Nat
    BY DEF DInv, Types
  <2>6. active'[c] - active[c] = Asked(c)' - Asked(c)
    OBVIOUS
  <2>7. ASSUME NEW g \in Nat, NEW a \in Nat, NEW a1 \in Nat, NEW i \in Nat, NEW k \in Nat,
               NEW k1 \in Nat, g + a + i = k, a1 - a = k1 - k
        PROVE  g + a1 + i = k1
    BY <2>7
  <2> HIDE DEF InProgress, Asked
  <2> QED
    BY <2>1, <2>2, <2>3, <2>4, <2>5, <2>6, <2>7
<1>4. \A w \in Writers : WritesInTurn(w)'
  BY DEF DInv, OperationInv, WritesInTurn
<1> QED
  BY <1>1, <1>2, <1>3, <1>4 DEF DInv, OperationInv

LEMMA ScriptGoesOn ==
  ASSUME DInv, TesterStep
  PROVE  DInv'
<1> USE LenKeys, KeysAssumption, Disjoint
<1>1. CASE TesterPrewrites
  <2>1. active' = [c \in Clients |-> IF c \in Writers THEN active[c] + Len(Keys) ELSE active[c]]
    BY <1>1 DEF TesterPrewrites, Feed
  <2>2. active' \in [Clients -> Nat]
    BY <2>1 DEF DInv, Types
  <2>3. \A c \in Clients : active'[c] - active[c] = Asked(c)' - Asked(c)
    <3> SUFFICES ASSUME NEW c \in Clients
                 PROVE  active'[c] - active[c] = Asked(c)' - Asked(c)
      OBVIOUS
    <3>1. Asked(c) = 0
      BY <1>1 DEF TesterPrewrites, Asked
    <3>2. Asked(c)' = IF c \in Writers THEN Len(Keys) ELSE 0
      BY <1>1 DEF TesterPrewrites, Asked
    <3>3. active[c] \in Nat /\ active'[c] = active[c] + IF c \in Writers THEN Len(Keys) ELSE 0
      BY <2>1 DEF DInv, Types
    <3> QED
      BY <3>1, <3>2, <3>3
  <2>4. PrewritesFirst'
    BY <1>1 DEF TesterPrewrites, PrewritesFirst
  <2> QED
    BY <1>1, <2>2, <2>3, <2>4, AskedKept DEF TesterPrewrites
<1>2. CASE TesterRunsExperiment
  <2>1. active' = [c \in Clients |-> active[c] + IF c \in Readers THEN numreads ELSE numwrites]
    BY <1>2 DEF TesterRunsExperiment
  <2>2. active' \in [Clients -> Nat]
    BY <2>1 DEF DInv, Types
  <2>3. \A c \in Clients : active'[c] - active[c] = Asked(c)' - Asked(c)
    <3> SUFFICES ASSUME NEW c \in Clients
                 PROVE  active'[c] - active[c] = Asked(c)' - Asked(c)
      OBVIOUS
    <3>1. Asked(c) = IF c \in Readers THEN 0 ELSE Len(Keys)
      BY <1>2 DEF TesterRunsExperiment, Asked, Clients
    <3>2. Asked(c)' = IF c \in Readers THEN numreads ELSE Len(Keys) + numwrites
      BY <1>2 DEF TesterRunsExperiment, Asked
    <3>3. active[c] \in Nat
          /\ active'[c] = active[c] + IF c \in Readers THEN numreads ELSE numwrites
      BY <2>1 DEF DInv, Types
    <3> QED
      BY <3>1, <3>2, <3>3
  <2>4. PrewritesFirst'
    BY <1>2 DEF TesterRunsExperiment, PrewritesFirst, ReachedBySome
  <2> QED
    BY <1>2, <2>2, <2>3, <2>4, AskedKept DEF TesterRunsExperiment
<1>3. CASE TesterEnds
  <2>1. active' \in [Clients -> Nat] /\ active' = active
    BY <1>3 DEF TesterEnds, clientVars, DInv, Types
  <2>2. \A c \in Clients : active'[c] - active[c] = Asked(c)' - Asked(c)
    BY <1>3, <2>1 DEF TesterEnds, Asked, DInv, Types
  <2>3. PrewritesFirst'
    BY <1>3 DEF TesterEnds, PrewritesFirst, ReachedBySome, DInv, OperationInv, clientVars
  <2> QED
    BY <1>3, <2>1, <2>2, <2>3, AskedKept DEF TesterEnds, clientVars
<1> QED
  BY <1>1, <1>2, <1>3 DEF TesterStep

-----------------------------------------------------------------------------
(* The theorems *)

LEMMA DNext == DInv /\ [Next]_vars => DInv'
<1> SUFFICES ASSUME DInv, [Next]_vars PROVE DInv'
  OBVIOUS
<1>1. ASSUME NEW p \in Processes, ProcessStep(p) PROVE DInv'
  BY <1>1, StartKeeps, TakingKeeps DEF ProcessStep
<1>2. ASSUME NEW k \in Kinds, ControllerStep(k) PROVE DInv'
  BY <1>2, OperatorKeeps, SendingKeeps, CommandEndKeeps DEF ControllerStep
<1>3. ASSUME NEW c \in Clients, ClientStep(c) PROVE DInv'
  BY <1>3, OperationStarts, OperationEnds DEF ClientStep
<1>4. ASSUME NEW s \in Servers, KillServer(s) PROVE DInv'
  BY <1>4, KillKeeps
<1>5. CASE UNCHANGED vars
  <2>1. UNCHANGED <<configVars, setupComplete, clientVars, tester>>
    BY <1>5 DEF vars
  <2>2. ConfigInv'
    BY <2>1, ConfigKept DEF DInv
  <2> QED
    BY <2>1, <2>2 DEF DInv, Types, OperationInv, NoTokenLost, InProgress, Asked,
         WritesInTurn, PrewritesFirst, ReachedBySome, configVars, clientVars
<1> QED
  BY <1>1, <1>2, <1>3, <1>4, <1>5, ScriptGoesOn DEF Next

\* The inductive invariant: parameters are counted only where they were handed
\* over (routes.go, deploymentUtilities.go), and every operation that was asked
\* for is a token, in progress or done (client_application.go).
THEOREM InvariantHolds == Spec => []DInv
<1>1. Init => DInv
  BY DInit
<1>2. DInv /\ [Next]_vars => DInv'
  BY DNext
<1> QED
  BY <1>1, <1>2, PTL DEF Spec

LEMMA AskedBound ==
  ASSUME DInv, NEW c \in Clients
  PROVE  /\ globalOpNum[c] + active[c] <= Asked(c)
         /\ Asked(c) \in 0 .. (IF c \in Readers THEN numreads ELSE Len(Keys) + numwrites)
<1>1. globalOpNum[c] + active[c] + InProgress(c) = Asked(c)
  BY DEF DInv, OperationInv, NoTokenLost
<1>2. globalOpNum[c] \in Nat /\ active[c] \in Nat /\ InProgress(c) \in Nat
  BY DEF DInv, Types, InProgress
<1>3. Asked(c) \in 0 .. (IF c \in Readers THEN numreads ELSE Len(Keys) + numwrites)
  BY LenKeys, KeysAssumption, Disjoint DEF Asked
<1> QED
  BY <1>1, <1>2, <1>3

LEMMA TypeOKFromInvariant == DInv => TypeOK
<1> SUFFICES ASSUME DInv PROVE TypeOK
  OBVIOUS
<1>1. \A c \in Clients :
        /\ active[c] \in 0..(Len(Keys) + numreads + numwrites)
        /\ globalOpNum[c] \in 0 .. (IF c \in Readers THEN numreads ELSE Len(Keys) + numwrites)
  <2> SUFFICES ASSUME NEW c \in Clients
               PROVE  /\ active[c] \in 0..(Len(Keys) + numreads + numwrites)
                      /\ globalOpNum[c] \in 0 .. (IF c \in Readers THEN numreads
                                                    ELSE Len(Keys) + numwrites)
    OBVIOUS
  <2>1. active[c] \in Nat /\ globalOpNum[c] \in Nat
    BY DEF DInv, Types
  <2> QED
    BY <2>1, AskedBound, LenKeys, KeysAssumption
<1>2. active \in [Clients -> 0..(Len(Keys) + numreads + numwrites)]
  BY <1>1 DEF DInv, Types
<1>3. \A r \in Readers : globalOpNum[r] \in 0..numreads
  BY <1>1, Disjoint
<1>4. \A w \in Writers : globalOpNum[w] \in 0..(Len(Keys) + numwrites)
  BY <1>1, Disjoint
<1> QED
  BY <1>2, <1>3, <1>4 DEF TypeOK, DInv, Types

\* The types and the bounds on what the clients count.
THEOREM DeploymentTypes == Spec => []TypeOK
BY InvariantHolds, TypeOKFromInvariant, PTL

LEMMA RunningFromInvariant == DInv => RunningIsConfigured
<1> SUFFICES ASSUME DInv, NEW p \in Processes, stage[p] = "running"
             PROVE  received[p] = Kinds
  BY DEF RunningIsConfigured
<1>1. \A k \in Kinds : k \in received[p]
  BY DEF DInv, ConfigInv, TokensAreReceived, BothCounted
<1> QED
  BY <1>1 DEF DInv, Types

\* No process leaves waitUntilParamsIsSet (deploymentUtilities.go:127-144) with
\* one set of parameters only.
THEOREM RunningConfigured == Spec => []RunningIsConfigured
BY InvariantHolds, RunningFromInvariant, PTL

LEMMA SetupLastFromInvariant == DInv => ControllerIsSetupLast
<1> SUFFICES ASSUME DInv, setupComplete[Controller], NEW p \in Remote
             PROVE  \/ stage[p] \in {"running", "killed"}
                    \/ stage[p] = "waiting" /\ \A k \in Kinds : count[p][k] + tokens[p][k] > 0
  BY DEF ControllerIsSetupLast
<1>1. \A k \in Kinds : count[Controller][k] > 0
  BY Disjoint DEF DInv, ConfigInv, ControllerCountsLast, TokensAreReceived, BothCounted
<1>2. \A k \in Kinds : command[k].status = "done" /\ command[k].pending = {}
  BY <1>1 DEF DInv, ConfigInv, ControllerCountsLast
<1>3. \A k \in Kinds : \/ stage[p] \in {"running", "killed"}
                       \/ stage[p] = "waiting" /\ count[p][k] + tokens[p][k] > 0
  BY <1>2 DEF DInv, ConfigInv, SentOnce
<1> QED
  BY <1>3 DEF Kinds

\* When the controller answers isSetup (routes.go:360-368), every process runs,
\* was killed, or has what it waits for.
THEOREM ControllerSetupLast == Spec => []ControllerIsSetupLast
BY InvariantHolds, SetupLastFromInvariant, PTL

LEMMA ReadsFromInvariant == DInv => ReadsAreOfWrittenObjects
<1> SUFFICES ASSUME DInv, NEW r \in Readers, current[r] # NoObject
             PROVE  \E w \in Writers : current[r] \in written[w]
  BY DEF ReadsAreOfWrittenObjects
<1>1. r \in Clients /\ globalOpNum[r] \in Nat /\ active[r] \in Nat /\ InProgress(r) = 1
  BY Disjoint DEF DInv, Types, InProgress
<1>2. Asked(r) > 0
  BY <1>1 DEF DInv, OperationInv, NoTokenLost
<1>3. tester \in {"experiment", "done"}
  BY <1>2, Disjoint DEF Asked
<1>4. PICK w \in Writers : globalOpNum[w] >= Len(Keys)
  BY <1>3 DEF DInv, OperationInv, PrewritesFirst, ReachedBySome
<1>5. PICK i \in 1..Len(Keys) : current[r] = Keys[i]
  BY <1>1, KeysAssumption DEF DInv, Types, Objects
<1>6. i <= globalOpNum[w]
  BY <1>4, <1>5, LenKeys, Disjoint DEF DInv, Types
<1> QED
  BY <1>5, <1>6 DEF DInv, OperationInv, WritesInTurn

\* Every object that a read chooses was written before (client_application.go
\* 244-248 and 287-309, start_regression.sh 80-89).
THEOREM ReadsOfWritten == Spec => []ReadsAreOfWrittenObjects
BY InvariantHolds, ReadsFromInvariant, PTL

LEMMA WriterSetupFromInvariant == DInv => WriterSetupMeansAllWritten
<1> SUFFICES ASSUME DInv, NEW w \in Writers, setupComplete[w]
             PROVE  written[w] = Objects
  BY DEF WriterSetupMeansAllWritten
<1>1. globalOpNum[w] >= Len(Keys) /\ globalOpNum[w] \in Nat
  BY Disjoint DEF DInv, Types, OperationInv, WritesInTurn, IsSetUp
<1>2. \A i \in 1..Len(Keys) : Keys[i] \in written[w]
  BY <1>1, LenKeys DEF DInv, OperationInv, WritesInTurn
<1>3. Objects \subseteq written[w]
  BY <1>2, KeysAssumption DEF Objects
<1> QED
  BY <1>3 DEF DInv, Types

\* A writer that answers isSetup has written every object
\* (client_application.go:305-309).
THEOREM WriterSetup == Spec => []WriterSetupMeansAllWritten
BY InvariantHolds, WriterSetupFromInvariant, PTL

-----------------------------------------------------------------------------
(* The loop of a client under a time limit (ClientLoop) *)

LoopSpec == LoopInit /\ [][LoopNext]_loopVars

LoopTypes ==
  /\ at \in {"setup", "testing", "draining", "receiving", "operating"}
  /\ timelimit \in {"far", "near", "passed"}
  /\ feeding \in Nat /\ channel \in Nat
  /\ asked \in Nat /\ executed \in Nat /\ dropped \in Nat
  /\ pushedLate \in Nat /\ begunLate \in Nat

\* Past the limit the loop waits for a token either as it did when the limit
\* passed, and then nothing was begun since, or with an empty channel behind it,
\* and then all that the channel holds was pushed since.
LateTokensArePushed ==
  IsPast => /\ begunLate <= pushedLate + 1
            /\ at = "receiving" =>
                 begunLate = 0 \/ begunLate + channel <= pushedLate + 1

\* A token is still to be pushed, in the channel, in use, used or dropped; the
\* loop drops tokens, and gets as far as that, under a limit that passed only.
EveryTokenIsSomewhere ==
  /\ asked = feeding + channel + executed + dropped
             + (IF at = "operating" THEN 1 ELSE 0)
  /\ dropped > 0 \/ at = "draining" => expired = TRUE
  /\ IsPast => at = "setup" \/ expired = TRUE

LoopInv == LoopTypes /\ LateTokensArePushed /\ EveryTokenIsSomewhere

LEMMA LoopInitInv == LoopInit => LoopInv
BY DEF LoopInit, LoopInv, LoopTypes, LateTokensArePushed, EveryTokenIsSomewhere, IsPast

LEMMA LoopStepKeeps == LoopInv /\ LoopStep => LoopInv'
<1> SUFFICES ASSUME LoopInv, LoopStep PROVE LoopInv'
  OBVIOUS
<1> USE DEF LoopInv, LoopTypes, LateTokensArePushed, EveryTokenIsSomewhere, IsPast
<1>1. CASE StartLoop
  BY <1>1 DEF StartLoop, LimitAtStart
<1>2. CASE TestLimit
  BY <1>2 DEF TestLimit
<1>3. CASE DropToken
  BY <1>3 DEF DropToken, AfterDrop
<1>4. CASE DrainEnds
  BY <1>4 DEF DrainEnds
<1>5. CASE BeginOperation
  BY <1>5 DEF BeginOperation
<1>6. CASE FinishOperation
  BY <1>6 DEF FinishOperation
<1> QED
  BY <1>1, <1>2, <1>3, <1>4, <1>5, <1>6 DEF LoopStep

LEMMA LoopNextKeeps == LoopInv /\ [LoopNext]_loopVars => LoopInv'
<1> SUFFICES ASSUME LoopInv, [LoopNext]_loopVars PROVE LoopInv'
  OBVIOUS
<1> USE DEF LoopInv, LoopTypes, LateTokensArePushed, EveryTokenIsSomewhere, IsPast
<1>1. CASE LoopStep
  BY <1>1, LoopStepKeeps
<1>2. CASE DoOperations
  <2>1. PICK n \in 1..MaxBatch : feeding' = feeding + n /\ asked' = asked + n
    BY <1>2 DEF DoOperations
  <2>2. n \in Nat
    BY LoopAssumption
  <2> QED
    BY <1>2, <2>1, <2>2 DEF DoOperations
<1>3. CASE PushToken
  BY <1>3 DEF PushToken
<1>4. CASE SetTimeLimit
  BY <1>4 DEF SetTimeLimit
<1>5. CASE TimePasses
  <2>1. expired = TRUE \/ at # "setup" => expired' = TRUE
    BY ZenonT(20), <1>5 DEF TimePasses
  <2>2. /\ timelimit = "near" /\ timelimit' = "passed"
        /\ pushedLate' = 0 /\ begunLate' = 0
        /\ UNCHANGED <<at, feeding, channel, commands, limits, asked, executed, dropped>>
    BY <1>5 DEF TimePasses
  <2> QED
    BY <2>1, <2>2
<1>6. CASE UNCHANGED loopVars
  BY <1>6 DEF loopVars
<1> QED
  BY <1>1, <1>2, <1>3, <1>4, <1>5, <1>6 DEF LoopNext

\* After its limit a client begins at most one operation more than tokens are
\* pushed, whatever the capacity of the channel and the number of commands
\* (client_application.go:82-88, 172-178).
THEOREM FewAreLate == LoopSpec => []FewOperationsAreLate
<1>1. LoopInv => FewOperationsAreLate
  BY DEF LoopInv, LateTokensArePushed, FewOperationsAreLate
<1> QED
  BY <1>1, LoopInitInv, LoopNextKeeps, PTL DEF LoopSpec

\* No operation that was asked for is lost but to a limit that passed while the
\* loop ran (client_application.go:67-88, 158-178).
THEOREM TokensAreAccounted == LoopSpec => []EveryTokenIsSomewhere
<1>1. LoopInv => EveryTokenIsSomewhere
  BY DEF LoopInv
<1> QED
  BY <1>1, LoopInitInv, LoopNextKeeps, PTL DEF LoopSpec
=============================================================================
