---------------------------- MODULE SafetyAnalyzer ----------------------------
(***************************************************************************)
(* The offline check of a run (analytics/safetyAnalyzer.go).  It reads the *)
(* FOR_SAFETY_CHECK lines that the clients wrote (client_application.go),  *)
(* the logs of the clients one after the other (start_regression.sh), and  *)
(* runs four checks on them: P1 (no operation has a tag below that of an   *)
(* operation that ended before it started), P2 (no two writes have one     *)
(* tag), P3 (reads return what was written) and liveness (every client     *)
(* executed what it was asked for).                                        *)
(*                                                                         *)
(* sort.Sort is not stable: operations that compare equal come in any      *)
(* order.  Go's indices start at 0: entry i is element i + 1 of a sequence.*)
(***************************************************************************)
EXTENDS Tags, Sequences, SequencesExt, FiniteSetsExt

CONSTANTS
  Logs,        \* the clients, in the order in which their logs are joined
  Writers,     \* the clients that write; the others read
  Objects,
  Times,       \* the clock readings a line may bear
  LoggedTags,  \* [Clients -> SUBSET Tag], the tags the lines of a client may bear
  numReads, numWrites,  \* operations asked of each reader, of each writer
  MaxLines     \* bound: lines of the log

Clients == Range(Logs)
Readers == Clients \ Writers

ASSUME LogsAssumption ==
  /\ Logs \in Seq(Clients) /\ IsInjective(Logs) /\ Writers \subseteq Clients
  /\ Clients \cap Objects = {}
ASSUME DataAssumption ==
  /\ Times \subseteq Nat /\ LoggedTags \in [Clients -> SUBSET Tag]
  /\ numReads \in Nat /\ numWrites \in Nat /\ MaxLines \in Nat

VARIABLES
  operations,  \* [Objects -> Seq(Operations)], in the order of the log
  maxOpnums,   \* [Objects -> [Clients -> Nat]]
  stage,       \* the next check, or "reading"
  passed       \* the checks that returned true

vars == <<operations, maxOpnums, stage, passed>>

Operations ==
  [client_name : Clients, objectname : Objects, opnum : 1..MaxLines,
   startime_ms : Times, endtime_ms : Times, Tag_var : Tag, dataSafe : BOOLEAN]

IsWrite(op) == op.client_name \in Writers

\* The lines read so far.
AllOperations == UNION {Range(operations[o]) : o \in Objects}
LinesOf(c) == {op \in AllOperations : op.client_name = c}

Init ==
  /\ operations = [o \in Objects |-> <<>>]
  /\ maxOpnums = [o \in Objects |-> [c \in Clients |-> 0]]
  /\ stage = "reading"
  /\ passed = {}

-----------------------------------------------------------------------------
(* ReadLogFile *)

\* The lines that can follow those read so far: of the same client or a later
\* one, which numbers its operations on an object and executes one at a time.
Following(c) ==
  {line \in [client_name : {c}, objectname : Objects, opnum : 1..MaxLines,
             startime_ms : {t \in Times : \A op \in LinesOf(c) : op.endtime_ms <= t},
             endtime_ms : Times, Tag_var : LoggedTags[c],
             dataSafe : IF c \in Writers THEN {TRUE} ELSE BOOLEAN] :
     /\ line.startime_ms < line.endtime_ms
     /\ line.opnum = 1 + Cardinality({op \in LinesOf(c) : op.objectname = line.objectname})}

NextClients ==
  {Logs[j] : j \in {k \in DOMAIN Logs : \A i \in (k + 1)..Len(Logs) : LinesOf(Logs[i]) = {}}}

\* Mutant: only the first line of a client counts.
NewMaxOpnum_first(o, c, opnum) == IF maxOpnums[o][c] = 0 THEN opnum ELSE maxOpnums[o][c]

\* The test before the assignment looks the client up among the objects, and
\* never finds it: every line overwrites the entry of its client.
NewMaxOpnum(o, c, opnum) == opnum

ReadLine(line) ==
  /\ stage = "reading"
  /\ Cardinality(AllOperations) < MaxLines
  /\ operations' = [operations EXCEPT ![line.objectname] = Append(@, line)]
  /\ maxOpnums' = [maxOpnums EXCEPT ![line.objectname][line.client_name] =
       NewMaxOpnum(line.objectname, line.client_name, line.opnum)]
  /\ UNCHANGED <<stage, passed>>

EndOfFile ==
  /\ stage = "reading"
  /\ stage' = "P1"
  /\ UNCHANGED <<operations, maxOpnums, passed>>

-----------------------------------------------------------------------------
(* The checks of one object, whose operations are ops *)

\* The two orders in which the checks sort.
Less(key, e, f) ==
  \/ key = "endtime_ms" /\ e.endtime_ms < f.endtime_ms
  \/ key = "Tag_var" /\ isGreaterTag(f.Tag_var, e.Tag_var)

\* The results of sort.Sort on the indices of ops.
IndexOrders == [n \in 0..MaxLines |-> SetToSeqs(1..n)]
Sorted(ops, key) ==
  {p \in IndexOrders[Len(ops)] : \A i \in 1..(Len(p) - 1) : ~ Less(key, ops[p[i + 1]], ops[p[i]])}

\* Mutants: the position one too far; only what ended strictly before.
BinarySearchP1_next(times, value) ==
  IF value < times[1] THEN -1
  ELSE Min({Len(times) - 1, Cardinality({i \in DOMAIN times : times[i] <= value})})
BinarySearchP1_strict(times, value) == Cardinality({i \in DOMAIN times : times[i] < value}) - 1

\* The search in the sorted end times.  median is 0 before the first turn, and
\* the search ends when a turn finds the same median as the one before.
SearchP1(times, value) ==
  LET n == Len(times)
      search[x \in (0..n) \X (-1..(n - 1)) \X (0..(n - 1))] ==
        LET start == x[1]
            end == x[2]
            last == x[3]
            median == (start + end) \div 2 IN
        IF start > end THEN IF start = 0 THEN 0 ELSE start - 1
        ELSE IF median = last THEN last
        ELSE IF times[median + 1] = value THEN search[<<median, end, median>>]
        ELSE IF times[median + 1] < value THEN search[<<median + 1, end, median>>]
        ELSE search[<<start, median - 1, median>>] IN
  search[<<0, n - 1, 0>>]

BinarySearchP1(times, value) == IF value < times[1] THEN -1 ELSE SearchP1(times, value)

\* p sorts ops by end time: the end times, and the running maxima of the tags.
EndTimes(ops, p) == [i \in DOMAIN p |-> ops[p[i]].endtime_ms]

RunningMaxTag(ops, p) ==
  LET maxTag[i \in DOMAIN p] ==
        LargerTag(ops[p[i]].Tag_var, IF i = 1 THEN LowestTag ELSE maxTag[i - 1]) IN
  maxTag

safetyCheckP1(ops, p) ==
  LET runningMaxTag == RunningMaxTag(ops, p) IN
  \A i \in DOMAIN ops :
    LET index == BinarySearchP1(EndTimes(ops, p), ops[i].startime_ms) IN
    index > -1 => ~ isGreaterTag(runningMaxTag[index + 1], ops[i].Tag_var)

\* p sorts ops by tag: the tags of the writes, in that order.
WriteTags(ops, p) ==
  LET tags[i \in 0..Len(p)] ==
        IF i = 0 THEN <<>>
        ELSE IF IsWrite(ops[p[i]]) THEN Append(tags[i - 1], ops[p[i]].Tag_var)
        ELSE tags[i - 1] IN
  tags[Len(p)]

\* Mutant: reads count as writes.
safetyCheckP2_reads(ops, p) ==
  \A i \in 2..Len(p) : ops[p[i]].Tag_var # ops[p[i - 1]].Tag_var

safetyCheckP2(ops, p) ==
  LET tags == WriteTags(ops, p) IN
  \A i \in 2..Len(tags) : tags[i] # tags[i - 1]

\* Mutant: the search never looks at the last entry.
BinarySearchP3_short(tags, tag) == \E i \in 1..(Len(tags) - 1) : tags[i] = tag

BinarySearchP3(tags, tag) ==
  LET n == Len(tags)
      search[x \in (0..n) \X (-1..(n - 1))] ==
        LET start == x[1]
            end == x[2]
            median == (start + end) \div 2 IN
        IF start > end THEN FALSE
        ELSE IF isGreaterTag(tag, tags[median + 1]) THEN search[<<median + 1, end>>]
        ELSE IF isGreaterTag(tags[median + 1], tag) THEN search[<<start, median - 1>>]
        ELSE TRUE IN
  search[<<0, n - 1>>]

safetyCheckP3(ops, p) ==
  /\ safetyCheckP2(ops, p)
  /\ \A i \in DOMAIN ops : ~ IsWrite(ops[i]) =>
       /\ ops[i].Tag_var = InitialTag \/ BinarySearchP3(WriteTags(ops, p), ops[i].Tag_var)
       /\ ops[i].dataSafe

-----------------------------------------------------------------------------
(* The checks of the log *)

\* The objects that occur in the log; what maxOpnums does not hold is 0.
LoggedObjects == {o \in Objects : operations[o] # <<>>}
TotalOpnum(c) == MapThenSumSet(LAMBDA o : maxOpnums[o][c], LoggedObjects)

livenessCheck ==
  /\ \A w \in Writers : TotalOpnum(w) = numWrites
  /\ \A r \in Readers : TotalOpnum(r) = numReads
  /\ numWrites * Cardinality(Writers) =
       MapThenSumSet(LAMBDA w : Cardinality(LinesOf(w)), Writers)
  /\ numReads * Cardinality(Readers) =
       MapThenSumSet(LAMBDA r : Cardinality(LinesOf(r)), Readers)

\* main runs the checks in turn, whatever their results.
Check(name, next, result) ==
  /\ stage = name
  /\ stage' = next
  /\ passed' = IF result THEN passed \cup {name} ELSE passed
  /\ UNCHANGED <<operations, maxOpnums>>

\* One sorted order of every object of the log.
Orders(key) ==
  {p \in [LoggedObjects -> UNION {Sorted(operations[o], key) : o \in LoggedObjects}] :
     \A o \in LoggedObjects : p[o] \in Sorted(operations[o], key)}

CheckP1 ==
  \E p \in Orders("endtime_ms") :
    Check("P1", "P2", \A o \in LoggedObjects : safetyCheckP1(operations[o], p[o]))

CheckP2 ==
  \E p \in Orders("Tag_var") :
    Check("P2", "P3", \A o \in LoggedObjects : safetyCheckP2(operations[o], p[o]))

CheckP3 ==
  \E p \in Orders("Tag_var") :
    Check("P3", "liveness", \A o \in LoggedObjects : safetyCheckP3(operations[o], p[o]))

CheckLiveness == Check("liveness", "done", livenessCheck)

Done == stage = "done" /\ UNCHANGED vars

Next ==
  \/ \E c \in NextClients : \E line \in Following(c) : ReadLine(line)
  \/ EndOfFile
  \/ CheckP1 \/ CheckP2 \/ CheckP3 \/ CheckLiveness
  \/ Done

Spec == Init /\ [][Next]_vars

-----------------------------------------------------------------------------
(* Properties *)

\* f started after e had ended, and has the smaller tag.
Inversion(e, f) ==
  /\ e.objectname = f.objectname
  /\ e.endtime_ms <= f.startime_ms
  /\ isGreaterTag(e.Tag_var, f.Tag_var)

\* Two operations on the object of f ended when f started.
EndTimesTie(f) ==
  \E i, j \in DOMAIN operations[f.objectname] :
    /\ i # j
    /\ operations[f.objectname][i].endtime_ms = f.startime_ms
    /\ operations[f.objectname][j].endtime_ms = f.startime_ms

\* P1 fails only on a log with an inversion (safetyAnalyzer.go:144-196): the
\* running maximum at the position found is of operations that had ended.
P1RaisesNoFalseAlarm ==
  stage \notin {"reading", "P1"} /\ "P1" \notin passed =>
    \E e, f \in AllOperations : Inversion(e, f)

\* P1 misses no inversion, unless two operations ended in the microsecond in
\* which a third started: BinarySearchP1 (l.352-385) may then return an entry
\* that is not the last of the equal ones.
P1FindsEveryInversion ==
  "P1" \in passed =>
    \A e, f \in AllOperations : Inversion(e, f) => EndTimesTie(f)

\* P2 passes exactly the logs in which no two writes of an object have one tag,
\* whatever order an unstable sort gives to equal tags (l.210-250).
P2IsExact ==
  stage \in {"P3", "liveness", "done"} =>
    ("P2" \in passed <=>
       \A e, f \in AllOperations :
         IsWrite(e) /\ IsWrite(f) /\ e.objectname = f.objectname /\ e.Tag_var = f.Tag_var => e = f)

\* P3 passes exactly the logs that pass P2 and whose reads return, unharmed, the
\* initial value or what a write of that object wrote (l.263-350).
P3IsExact ==
  stage \in {"liveness", "done"} =>
    ("P3" \in passed <=>
       /\ "P2" \in passed
       /\ \A r \in {op \in AllOperations : ~ IsWrite(op)} :
            /\ r.dataSafe
            /\ \/ r.Tag_var = InitialTag
               \/ \E w \in AllOperations :
                    IsWrite(w) /\ w.objectname = r.objectname /\ w.Tag_var = r.Tag_var)

\* The liveness check passes exactly when every client logged as many operations
\* as it was asked for: the numbers it gave them and the lines of the log agree
\* (l.387-449 and 526-535).
LivenessIsExact ==
  stage = "done" =>
    ("liveness" \in passed <=>
       \A c \in Clients :
         Cardinality(LinesOf(c)) =
           IF c \in Writers THEN numWrites ELSE numReads)

=============================================================================
