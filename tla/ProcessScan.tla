---------------------------- MODULE ProcessScan -----------------------------
(***************************************************************************)
(* sg_get_process_stats and sg_get_process_count of libstatgrab: a walk    *)
(* over the processes of a system that start and end meanwhile.  No two    *)
(* system calls of a walk see the same table.  The platforms are cases of  *)
(* one model, chosen in Init; "NetBSD" is NetBSD 2, which also asks for    *)
(* the threads of every process.                                           *)
(*                                                                         *)
(* A process is its number: the order of the numbers is the order of the   *)
(* kernel's tables, and no number is used again.  Allocation succeeds.     *)
(***************************************************************************)
EXTENDS Integers, SequencesExt, FiniteSetsExt

CONSTANTS
  Systems,   \* the platforms to consider, a set of names used below
  Processes, \* the processes there may ever be
  Self,      \* the process that makes the walk: it does not end
  State,     \* State[p]: running, sleeping, stopped, zombie or other, all along
  Spare,     \* by how much a BSD kernel overestimates the size of its table
  Batch,     \* PROCESS_BATCH of HP-UX
  NoProcess  \* no process, or no title

Counted == {"running", "sleeping", "stopped", "zombie"}

ASSUME ScanAssumption ==
  /\ Processes \subseteq Nat \ {0}
  /\ IsFiniteSet(Processes)
  /\ Self \in Processes
  /\ State \in [Processes -> Counted \cup {"other"}]
  /\ Spare \in Nat
  /\ Batch \in Nat \ {0}
  /\ NoProcess \notin Processes

VARIABLES
  system,       \* the platform compiled for; never changes
  alive,        \* kernel: the processes there are
  born,         \* kernel: the processes there have been
  step,         \* where the walk is
  entry,        \* the process looked at, the directory entry, or psd_idx
  kp_stats,     \* BSD: the rest of the kernel's table, as it was copied
  procs,        \* BSD: the size asked for
  process_info, \* Solaris: the record read into
  item,         \* the slot of proc_state being filled
  proc_state,   \* the slots filled: proc_state_size of them
  process_stat, \* the counts; total is 0 until they are complete
  lived,        \* ghost: the processes there were from the start of the walk on
  seen          \* ghost: those there were at any time of it

walk == <<step, entry, kp_stats, procs, process_info, item, proc_state, process_stat>>
scanVars == <<system, alive, born, walk, lived, seen>>

NoItem == [pid |-> NoProcess, title |-> NoProcess, state |-> "unknown"]
NoCounts == [s \in Counted \cup {"total"} |-> 0]

ScanInit ==
  /\ system \in Systems
  /\ alive \in {P \in SUBSET Processes : Self \in P}
  /\ born = alive
  /\ step = "idle" /\ entry = 0
  /\ kp_stats = <<>> /\ procs = 0
  /\ process_info = NoItem /\ item = NoItem
  /\ proc_state = <<>> /\ process_stat = NoCounts
  /\ lived = {} /\ seen = {}

-----------------------------------------------------------------------------
(* The kernel: a process starts or ends at any time.                       *)

Fork(p) ==
  /\ p \notin born
  /\ alive' = alive \cup {p}
  /\ born' = born \cup {p}
  /\ seen' = seen \cup {p}
  /\ UNCHANGED <<system, walk, lived>>

Exit(p) ==
  /\ p \in alive \ {Self}
  /\ alive' = alive \ {p}
  /\ lived' = lived \ {p}
  /\ UNCHANGED <<system, born, walk, seen>>

\* The states an item gets for process p.  Where a letter or number has no case
\* the slot keeps what its memory held.
ItemStates(p) ==
  IF State[p] # "other" THEN {State[p]}
  ELSE IF system \in {"Linux", "Solaris"} THEN Counted \cup {"unknown"}
  ELSE {"unknown"}

\* A walk begins anew; the record of Solaris is a local variable not yet set.
Start ==
  /\ step \in {"idle", "done", "failed"}
  /\ step' = CASE system \in {"Linux", "Solaris"} -> "readdir"
               [] system = "HPUX" -> "pstat_getproc"
               [] OTHER -> "size"
  /\ entry' = 0
  /\ proc_state' = <<>>
  /\ process_stat' = NoCounts
  /\ item' = NoItem
  /\ \E s \in IF system = "Solaris" THEN Counted ELSE {"unknown"} :
       process_info' = [NoItem EXCEPT !.state = s]
  /\ lived' = alive /\ seen' = alive
  /\ UNCHANGED <<system, alive, born, kp_stats, procs>>

\* The walk ends with a null pointer; nothing is counted.
Fail ==
  /\ step' = "failed"
  /\ UNCHANGED <<system, alive, born, entry, kp_stats, procs, process_info, item,
                 proc_state, process_stat, lived, seen>>

Goto(s) ==
  /\ step' = s
  /\ UNCHANGED <<system, alive, born, kp_stats, procs, process_info, proc_state,
                 process_stat, lived, seen>>

-----------------------------------------------------------------------------
(* Linux and Solaris: the directory /proc, and files of each process.      *)

\* readdir finds the next process there is at that moment.
ReadDir ==
  /\ step = "readdir"
  /\ LET rest == {p \in alive : p > entry}
     IN IF rest = {} THEN Goto("count") /\ UNCHANGED <<entry, item>>
        ELSE Goto("fopen") /\ entry' = Min(rest) /\ UNCHANGED item

\* A process that ended before its file is opened is passed over.
Open ==
  /\ step = "fopen"
  /\ Goto(IF entry \notin alive THEN "readdir"
          ELSE IF system = "Linux" THEN "fscanf" ELSE "fread")
  /\ UNCHANGED <<entry, item>>

\* The result of fscanf is not looked at: for a process that ended the slot keeps
\* what its memory held.
ReadStat ==
  /\ step = "fscanf"
  /\ \E s \in IF entry \in alive THEN ItemStates(entry) ELSE Counted \cup {"unknown"} :
       item' = [pid |-> IF entry \in alive THEN entry ELSE NoProcess,
                title |-> NoProcess, state |-> s]
  /\ Goto("status")
  /\ UNCHANGED entry

\* Uid and gid: without them the slot is given up, to be used for the next one.
ReadStatus ==
  /\ step = "status"
  /\ Goto(IF entry \in alive THEN "open" ELSE "readdir")
  /\ UNCHANGED <<entry, item>>

OpenCmdline ==
  /\ step = "open"
  /\ Goto(IF entry \in alive THEN "read" ELSE "readdir")
  /\ UNCHANGED <<entry, item>>

\* The command line of a process that ended since is empty, or an error.
ReadCmdline ==
  /\ step = "read"
  /\ \/ /\ entry \in alive
        /\ proc_state' = Append(proc_state, [item EXCEPT !.title = entry])
     \/ /\ entry \notin alive
        /\ proc_state' = Append(proc_state, item)
     \/ /\ entry \notin alive
        /\ UNCHANGED proc_state
  /\ step' = "readdir"
  /\ UNCHANGED <<system, alive, born, entry, kp_stats, procs, process_info, item,
                 process_stat, lived, seen>>

\* Solaris: one record has everything.  The result of fread is not looked at, so
\* a process that ended is listed as the one read before it.
ReadPsinfo ==
  /\ step = "fread"
  /\ \E s \in IF entry \in alive THEN ItemStates(entry) ELSE {process_info.state} :
       process_info' = IF entry \in alive
                       THEN [pid |-> entry, title |-> entry, state |-> s]
                       ELSE process_info
  /\ proc_state' = Append(proc_state, process_info')
  /\ step' = "readdir"
  /\ UNCHANGED <<system, alive, born, entry, kp_stats, procs, item,
                 process_stat, lived, seen>>

-----------------------------------------------------------------------------
(* BSD: a copy of the kernel's table, then the arguments of each process.  *)

\* The processes P, the smallest number first.
InOrder(P) ==
  CHOOSE s \in [1..Cardinality(P) -> P] : \A i, j \in DOMAIN s : i < j => s[i] < s[j]

TableSize ==
  /\ step = "size"
  /\ procs' = Cardinality(alive) + Spare
  /\ step' = "sysctl"
  /\ UNCHANGED <<system, alive, born, entry, kp_stats, process_info, item, proc_state,
                 process_stat, lived, seen>>

\* Mutant: a table that grew is cut off.
Cut_CopyTable ==
  /\ step = "sysctl"
  /\ LET n == Cardinality(alive)
     IN kp_stats' = IF n > procs THEN SubSeq(InOrder(alive), 1, procs)
                    ELSE InOrder(alive) \o [i \in 1..procs - n |-> NoProcess]
  /\ step' = "args"
  /\ UNCHANGED <<system, alive, born, entry, procs, process_info, item, proc_state,
                 process_stat, lived, seen>>

\* The table must fit the size asked for; what it leaves free is zero.
CopyTable ==
  /\ step = "sysctl"
  /\ IF Cardinality(alive) > procs THEN Fail
     ELSE /\ kp_stats' = InOrder(alive) \o
                         [i \in 1..procs - Cardinality(alive) |-> NoProcess]
          /\ step' = "args"
          /\ UNCHANGED <<system, alive, born, entry, procs, process_info, item,
                         proc_state, process_stat, lived, seen>>

\* The arguments of a process that ended are not there.
TitleOf(p) == IF p \in alive THEN p ELSE NoProcess

ItemOf(p, s) == [pid |-> p, title |-> TitleOf(p), state |-> s]

\* The next record of the copy.
Args ==
  /\ step = "args"
  /\ UNCHANGED <<system, alive, born, procs, process_info, process_stat, lived, seen>>
  /\ IF kp_stats = <<>>
     THEN step' = "count" /\ UNCHANGED <<entry, kp_stats, item, proc_state>>
     ELSE LET p == Head(kp_stats) IN
       /\ kp_stats' = Tail(kp_stats)
       /\ IF p = NoProcess THEN UNCHANGED <<step, entry, item, proc_state>>
          ELSE \E s \in ItemStates(p) :
            /\ entry' = p
            /\ item' = ItemOf(p, s)
            /\ IF system = "NetBSD"
               THEN step' = "lwp" /\ UNCHANGED proc_state
               ELSE proc_state' = Append(proc_state, item') /\ UNCHANGED step

\* NetBSD 2: the threads of a process that ended are an error, and the whole walk
\* fails.
Lwps ==
  /\ step = "lwp"
  /\ IF entry \notin alive THEN Fail
     ELSE /\ proc_state' = Append(proc_state, item)
          /\ step' = "args"
          /\ UNCHANGED <<system, alive, born, entry, kp_stats, procs, process_info,
                         item, process_stat, lived, seen>>

-----------------------------------------------------------------------------
(* HP-UX: batches of complete records, by their index in the table.        *)

NextBatch ==
  /\ step = "pstat_getproc"
  /\ LET rest == InOrder({p \in alive : p > entry})
         num == Min({Batch, Len(rest)})
     IN \E s \in [1..num -> Counted \cup {"unknown"}] :
       /\ \A i \in 1..num : s[i] \in ItemStates(rest[i])
       /\ proc_state' = proc_state \o
            [i \in 1..num |-> [pid |-> rest[i], title |-> rest[i], state |-> s[i]]]
       /\ IF num = 0 THEN step' = "count" /\ UNCHANGED entry
          ELSE entry' = rest[num] /\ UNCHANGED step
  /\ UNCHANGED <<system, alive, born, kp_stats, procs, process_info, item,
                 process_stat, lived, seen>>

-----------------------------------------------------------------------------
\* Mutant: what is in no state known is counted as asleep.
Unknown_InState(s) ==
  {i \in DOMAIN proc_state :
     proc_state[i].state \in {s} \cup IF s = "sleeping" THEN {"unknown"} ELSE {}}

\* sg_get_process_count: every state but unknown has a counter.
InState(s) == {i \in DOMAIN proc_state : proc_state[i].state = s}

Count ==
  /\ step = "count"
  /\ process_stat' = [s \in Counted \cup {"total"} |->
                       IF s = "total" THEN Len(proc_state) ELSE Cardinality(InState(s))]
  /\ step' = "done"
  /\ UNCHANGED <<system, alive, born, entry, kp_stats, procs, process_info, item,
                 proc_state, lived, seen>>

Walk ==
  \/ Start
  \/ ReadDir \/ Open \/ ReadStat \/ ReadStatus \/ OpenCmdline \/ ReadCmdline \/ ReadPsinfo
  \/ TableSize \/ CopyTable \/ Args \/ Lwps
  \/ NextBatch
  \/ Count

ScanNext ==
  \/ Walk
  \/ \E p \in Processes : Fork(p) \/ Exit(p)

ScanSpec == ScanInit /\ [][ScanNext]_scanVars

-----------------------------------------------------------------------------
(* Properties.                                                             *)

Listed == {proc_state[i].pid : i \in DOMAIN proc_state}

\* A list that sg_get_process_stats returns has every process there was all
\* along, none there never was, each of them once and under its own title or
\* none, however processes started and ended between the calls.  On Solaris a
\* process that ended while it was read is listed as the one before it again, or
\* as nothing when it was the first.
ProcessesAreListedOnce ==
  step \in {"count", "done"} =>
    /\ lived \subseteq Listed
    /\ \A i \in DOMAIN proc_state :
         LET x == proc_state[i] IN
           /\ x.title \in {x.pid, NoProcess}
           /\ system # "Solaris" =>
                /\ x.pid \in seen
                /\ \A j \in DOMAIN proc_state : proc_state[j].pid = x.pid => i = j

Those(P, s) == {p \in P : State[p] = s}

\* The counts of sg_get_process_count lie between the processes in a state all
\* along the walk and those there at any time of it: a process in a state the
\* library does not know is in no counter, but on Linux and Solaris, where the
\* slot keeps the state of a process of an earlier walk, in any.
ProcessesAreCounted ==
  step = "done" =>
    /\ process_stat.total >= Cardinality(lived)
    /\ \A s \in Counted :
         /\ process_stat[s] >= Cardinality(Those(lived, s))
         /\ CASE system = "Linux" ->
                   process_stat[s] <= Cardinality(Those(seen, s) \cup Those(seen, "other"))
              [] system = "Solaris" -> process_stat[s] <= process_stat.total
              [] OTHER -> process_stat[s] <= Cardinality(Those(seen, s))
=============================================================================
