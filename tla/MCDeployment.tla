----------------------------- MODULE MCDeployment -----------------------------
(***************************************************************************)
(* Instances for TLC of Deployment and of ClientLoop, the loop of one of   *)
(* its clients in detail: a behaviour is one of the two, chosen in Init.   *)
(***************************************************************************)
EXTENDS DeploymentInvariant, ClientLoop

CONSTANTS r1, w1, w2, s1, s2, o1, o2

VARIABLE program  \* "deployment" or "loop"; never changes

MCKeys == <<o1, o2>>

MCvars == <<program, vars, loopVars>>

MCInit == program \in {"deployment", "loop"} /\ Init /\ LoopInit

Deploys(A) == program = "deployment" /\ A /\ UNCHANGED <<program, loopVars>>
Loops(A) == program = "loop" /\ A /\ UNCHANGED <<program, vars>>

MCNext == Deploys(Next) \/ Loops(LoopNext)

\* The fairness of Deployment; the loop goes on and the goroutines push.  Nobody
\* has to give a command or a limit, and a limit need not be reached.
MCFairness ==
  /\ \A p \in Processes : WF_MCvars(Deploys(ProcessStep(p)))
  /\ \A k \in Kinds : WF_MCvars(Deploys(ControllerStep(k)))
  /\ \A c \in Clients : WF_MCvars(Deploys(ClientStep(c)))
  /\ WF_MCvars(Deploys(TesterStep))
  /\ WF_MCvars(Loops(LoopStep)) /\ WF_MCvars(Loops(PushToken))

MCFairSpec == MCInit /\ [][MCNext]_MCvars /\ MCFairness

\* What the clients are asked for ends: in a deployment once the controller reports
\* its set-up, and in the loop, token by token, but for those dropped after a
\* limit (routes.go:211-290, client_application.go:71-187).
WhatIsAskedEnds == []<>((setupComplete[Controller] => OperationsEnded) /\ TokensAreUsed)
=============================================================================
