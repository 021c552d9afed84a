----------------------------- MODULE ClientLoop ------------------------------
(***************************************************************************)
(* The loop of one reader or writer process (client_application.go,        *)
(* Reader_process and Writer_process) with what runs beside it: the        *)
(* goroutines that feed tokens for DoReads and DoWrites, and SetTimeLimit  *)
(* (routes.go).  In Deployment a command feeds its tokens in one step and  *)
(* no time limit is set; here they are fed one at a time, into a channel   *)
(* that may be full, while the loop takes them or, late, drops them.       *)
(***************************************************************************)
EXTENDS Naturals

CONSTANTS
  MAX_NUM_PENDING,  \* capacity of active_chan_reader and active_chan_writer
  MaxCommands,      \* bound: the commands the process is given
  MaxBatch,         \* bound: the operations one command asks for
  MaxLimits         \* bound: the times SetTimeLimit is called

ASSUME LoopAssumption ==
  /\ MAX_NUM_PENDING \in Nat \ {0}
  /\ MaxCommands \in Nat /\ MaxBatch \in Nat /\ MaxLimits \in Nat

VARIABLES
  at,        \* "setup", "testing", "draining", "receiving" or "operating"
  timelimit, \* "far" (never reached, or not set yet), "near" or "passed"
  feeding,   \* tokens that the goroutines still have to push
  channel,   \* tokens in the channel
  commands, limits,  \* commands and time limits so far
  \* History: what was asked for, executed, and dropped; whether the loop ever
  \* had a limit that passed; and, since the last one passed, the tokens pushed
  \* and the operations begun.
  asked, executed, dropped, expired, pushedLate, begunLate

loopVars == <<at, timelimit, feeding, channel, commands, limits,
              asked, executed, dropped, expired, pushedLate, begunLate>>

LoopInit ==
  /\ at = "setup" /\ timelimit = "far"
  /\ feeding = 0 /\ channel = 0 /\ commands = 0 /\ limits = 0
  /\ asked = 0 /\ executed = 0 /\ dropped = 0
  /\ expired = FALSE /\ pushedLate = 0 /\ begunLate = 0

\* A limit counts from the call on: it is ahead, if only by nothing.
IsPast == timelimit = "passed"

-----------------------------------------------------------------------------
(* Beside the loop *)

\* DoReadOperations and DoWriteOperations start a goroutine each time, also
\* before the loop runs: the channel is made before the HTTP server starts.
DoOperations ==
  /\ commands < MaxCommands /\ commands' = commands + 1
  /\ \E n \in 1..MaxBatch : feeding' = feeding + n /\ asked' = asked + n
  /\ UNCHANGED <<at, timelimit, channel, limits, executed, dropped, expired,
                 pushedLate, begunLate>>

\* One of the goroutines pushes a token; when the channel is full they block.
PushToken ==
  /\ feeding > 0 /\ channel < MAX_NUM_PENDING
  /\ feeding' = feeding - 1 /\ channel' = channel + 1
  /\ pushedLate' = IF IsPast THEN pushedLate + 1 ELSE pushedLate
  /\ UNCHANGED <<at, timelimit, commands, limits, asked, executed, dropped,
                 expired, begunLate>>

SetTimeLimit ==
  /\ limits < MaxLimits /\ limits' = limits + 1
  /\ timelimit' = "near"
  /\ UNCHANGED <<at, feeding, channel, commands, asked, executed, dropped,
                 expired, pushedLate, begunLate>>

TimePasses ==
  /\ timelimit = "near"
  /\ timelimit' = "passed"
  /\ expired' = (expired \/ at # "setup")
  /\ pushedLate' = 0 /\ begunLate' = 0
  /\ UNCHANGED <<at, feeding, channel, commands, limits, asked, executed, dropped>>

-----------------------------------------------------------------------------
(* The loop *)

\* Mutant: the limit is left as it is when the loop starts.
LimitAtStart_kept == timelimit

\* Twice the present time: a limit that came during the set-up is overwritten.
LimitAtStart == "far"

StartLoop ==
  /\ at = "setup"
  /\ at' = "testing" /\ timelimit' = LimitAtStart
  /\ UNCHANGED <<feeding, channel, commands, limits, asked, executed, dropped,
                 expired, pushedLate, begunLate>>

\* The time is read once per turn.
TestLimit ==
  /\ at = "testing"
  /\ at' = IF IsPast THEN "draining" ELSE "receiving"
  /\ UNCHANGED <<timelimit, feeding, channel, commands, limits, asked, executed,
                 dropped, expired, pushedLate, begunLate>>

\* Mutant: one token is dropped per turn, as by an "if".
AfterDrop_once == "receiving"

AfterDrop == "draining"

\* for len(active_chan_reader) > 0 { <-active_chan_reader }
DropToken ==
  /\ at = "draining" /\ channel > 0
  /\ channel' = channel - 1 /\ dropped' = dropped + 1
  /\ at' = AfterDrop
  /\ UNCHANGED <<timelimit, feeding, commands, limits, asked, executed, expired,
                 pushedLate, begunLate>>

DrainEnds ==
  /\ at = "draining" /\ channel = 0
  /\ at' = "receiving"
  /\ UNCHANGED <<timelimit, feeding, channel, commands, limits, asked, executed,
                 dropped, expired, pushedLate, begunLate>>

\* active := <-active_chan_reader, the wait between operations, and the operation
\* itself, in which the limit is not looked at.
BeginOperation ==
  /\ at = "receiving" /\ channel > 0
  /\ channel' = channel - 1
  /\ at' = "operating"
  /\ begunLate' = IF IsPast THEN begunLate + 1 ELSE begunLate
  /\ UNCHANGED <<timelimit, feeding, commands, limits, asked, executed, dropped,
                 expired, pushedLate>>

FinishOperation ==
  /\ at = "operating"
  /\ at' = "testing" /\ executed' = executed + 1
  /\ UNCHANGED <<timelimit, feeding, channel, commands, limits, asked, dropped,
                 expired, pushedLate, begunLate>>

LoopStep ==
  StartLoop \/ TestLimit \/ DropToken \/ DrainEnds \/ BeginOperation \/ FinishOperation

LoopNext == LoopStep \/ DoOperations \/ PushToken \/ SetTimeLimit \/ TimePasses

-----------------------------------------------------------------------------
(* Properties *)

\* The limit is tested before the loop waits for a token, not after
\* (client_application.go:82-88, 172-178): once it has passed, one operation may
\* still begin with a token that was there before, and after that no more than
\* the tokens that a command goes on pushing (routes.go:224-228, 281-288).
FewOperationsAreLate == IsPast => begunLate <= pushedLate + 1

\* Every operation that was asked for is executed, or dropped after a limit that
\* passed while the loop ran.  A limit that comes and passes during the set-up is
\* overwritten (client_application.go:67, 158) and costs no operation.
TokensAreUsed == asked = executed + (IF expired THEN dropped ELSE 0)
=============================================================================
