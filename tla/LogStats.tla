------------------------------ MODULE LogStats -------------------------------
(***************************************************************************)
(* LogStats of daemons/logger.go: the goroutine of every process that logs *)
(* the load of the machine, reading libstatgrab through gostatgrab.  Its   *)
(* log is a line per interval with the bytes moved since the previous one. *)
(***************************************************************************)
EXTENDS Statgrab

CONSTANTS
  KB,       \* 1024
  MAXUINT64 \* 2^64: the sums are of type uint64

ASSUME LogStatsAssumption == KB \in Nat \ {0} /\ MAXUINT64 \in Nat \ {0}

VARIABLES
  pc,        \* the call the loop makes next
  err,       \* err # nil \/ err1 # nil \/ err2 # nil
  networkBytes, pnetworkBytes, \* the sum over the interfaces, now and before
  ready,
  line,      \* the last line of the log
  base,      \* ghost: the kernel's counts when pnetworkBytes were taken
  steady     \* ghost: no interface came or went since

logVars == <<pc, err, networkBytes, pnetworkBytes, ready, line, base, steady>>

NoLine == [logged |-> FALSE, kb |-> 0, grown |-> 0, steady |-> FALSE]

LogStatsInit ==
  /\ pc = "mem" /\ err = FALSE
  /\ networkBytes = 0 /\ pnetworkBytes = 0
  /\ ready = FALSE
  /\ line = NoLine
  /\ base = Zero(Devices) /\ steady = FALSE

\* gostatgrab.GetMemStats keeps nothing from one call to the next.
GetMemStats ==
  /\ pc = "mem"
  /\ pc' = "cpu"
  /\ \E o \in {[read |-> TRUE]} \cup CanFail({[read |-> FALSE]}) :
       Fails(o) /\ err' = ~o.read
  /\ UNCHANGED <<kernel, statics, returned, told, networkBytes, pnetworkBytes, ready,
                 line, base, steady>>

GetCpuPercents ==
  /\ pc = "cpu"
  /\ sg_get_cpu_percents
  /\ pc' = "net"
  /\ err' = (err \/ returned'.null)
  /\ UNCHANGED <<networkBytes, pnetworkBytes, ready, line, base, steady>>

Total(s) ==
  LET total[i \in 0..Len(s)] == IF i = 0 THEN 0 ELSE total[i - 1] + s[i] IN
  total[Len(s)]

Sum(s) == Total([i \in 1..Len(s) |-> s[i].moved])

\* Ghost: what the interfaces moved since the last line, and whether it can be told:
\* none came or went and no counter turned over.
Grown ==
  LET s == Whole(table["net"]) IN
  Total([i \in 1..Len(s) |-> moved["net"][s[i]] - base[s[i]]])
Tellable ==
  /\ steady
  /\ \A d \in Devices : moved["net"][d] \div MAXVAL = base[d] \div MAXVAL

\* The last of the three calls, and the line when none of them failed.  After an
\* error the loop goes on at once; a null pointer is one, so are no interfaces.
GetNetworkIoStats ==
  /\ pc = "net"
  /\ sg_get_network_io_stats
  /\ err' = (err \/ returned'.null)
  /\ IF err'
     THEN /\ pc' = "mem"
          /\ UNCHANGED <<networkBytes, ready, line, base, steady>>
     ELSE /\ pc' = "sleep"
          /\ networkBytes' = Sum(returned'.stats)
          /\ line' = IF ~ready THEN line
                     ELSE [logged |-> TRUE,
                           kb |-> ((networkBytes' - pnetworkBytes) % MAXUINT64) \div KB,
                           grown |-> Grown, steady |-> Tellable]
          /\ ready' = TRUE
          /\ base' = moved["net"] /\ steady' = TRUE
  /\ UNCHANGED pnetworkBytes

\* Mutant: the sum before stays what it was.
Kept_Wake ==
  /\ pc = "sleep"
  /\ pc' = "mem"
  /\ UNCHANGED <<vars, err, networkBytes, pnetworkBytes, ready, line, base, steady>>

\* LogInterval seconds later.
Wake ==
  /\ pc = "sleep"
  /\ pc' = "mem"
  /\ pnetworkBytes' = networkBytes
  /\ UNCHANGED <<vars, err, networkBytes, ready, line, base, steady>>

LogStatsStep == GetMemStats \/ GetCpuPercents \/ GetNetworkIoStats \/ Wake

\* What a step of the kernel means to the ghost.
FollowTable ==
  /\ steady' = (steady /\ table' = table)
  /\ UNCHANGED <<pc, err, networkBytes, pnetworkBytes, ready, line, base>>

LogStatsNext == LogStatsStep \/ (Kernel /\ FollowTable)

LogStatsSpec == Init /\ LogStatsInit /\ [][LogStatsNext]_<<vars, logVars>>

-----------------------------------------------------------------------------
\* A line tells the bytes that moved since the line before, in whole kilobytes and
\* modulo 2^64: also when a call failed meanwhile and no line was written, and the
\* first line not what moved before the process started.  (When an interface goes away or a
\* 32-bit counter turns over the difference is negative, and is logged as 2^64
\* less that much: nothing is told then.)
LoggedTrafficIsTraffic ==
  line.logged /\ line.steady => line.kb = (line.grown % MAXUINT64) \div KB

\* Where the loop comes to again and again.  Before an interface was seen the
\* pointer is null, an error: the loop then asks again without waiting.
IntervalOrNothingSeen == pc = "sleep" \/ network_stats = <<>>
=============================================================================
