----------------------------- MODULE MCMonitors ------------------------------
(***************************************************************************)
(* Instances for TLC of what runs on libstatgrab: one program at a time,   *)
(* chosen in Init.  "caller" calls the library in any order, "count" walks *)
(* over the processes.                                                     *)
(***************************************************************************)
EXTENDS LogStats, Saidar, StatgrabTool, ProcessScan

CONSTANTS d1, d2, p1

VARIABLES
  program, \* the program that runs; never changes
  scope    \* the counters that change in this behaviour; never changes

MCTables == {<<d1>>, <<d1, d2>>, <<d2, p1>>, <<p1, d1>>}

\* Places in the alphabet: the interfaces' names are not in their order.
Alphabet == <<"0", "const", "cpu", "disk", "disk_name", "free", "in", "interface_name",
              "mem", "net", "page", "read_bytes", "rx", "speed", "total", "user">>
Places ==
  [x \in ToSet(Alphabet) \cup Devices |->
     IF x \in Devices THEN 100 + (IF x = d1 THEN 3 ELSE IF x = d2 THEN 1 ELSE 2)
     ELSE CHOOSE i \in DOMAIN Alphabet : Alphabet[i] = x]

\* TLC keeps the value of Places; a cfg's CONSTANT it would compute at each use.
MCRank == Places

\* No argument; sections, a device of one, exact names and names there are not.
MCArguments ==
  {<<>>,
   <<[name |-> <<"cpu">>, dot |-> FALSE], [name |-> <<"const", "0">>, dot |-> FALSE]>>,
   <<[name |-> <<"net">>, dot |-> TRUE], [name |-> <<"mem", "free">>, dot |-> FALSE]>>,
   <<[name |-> <<"net", d1>>, dot |-> TRUE],
     [name |-> <<"disk", d1, "read_bytes">>, dot |-> FALSE]>>,
   <<[name |-> <<"net", p1, "interface_name">>, dot |-> FALSE]>>}

MCState == <<"running", "sleeping", "other", "zombie">>

Runs ==
  {[program |-> "caller", scope |-> {k}] : k \in {"cpu", "page", "net", "disk"}}
    \cup {[program |-> "LogStats", scope |-> {"net"}],
          [program |-> "statgrab", scope |-> {"net"}],
          [program |-> "statgrab", scope |-> {"disk"}],
          [program |-> "saidar", scope |-> {"net"}],
          [program |-> "count", scope |-> {}]}

\* A choice that a program does not look at is made in one way.
MCInit ==
  /\ \E r \in Runs : program = r.program /\ scope = r.scope
  /\ Init
  /\ \A k \in Kinds \ scope : table[k] = <<d1, d2>>
  /\ program \in {"LogStats", "saidar", "count"} => platform = "Linux"
  /\ program = "statgrab" => platform \in {"Linux", "NetBSD", "Solaris", "HPUX"}
  /\ program = "statgrab" => \A k \in scope : table[k] \in {<<d1, d2>>, <<p1, d1>>}
  /\ ToolInit
  /\ program # "statgrab" => argv = <<>> /\ repeat_mode = "none"
  /\ program = "statgrab" =>
       /\ "disk" \in scope => Interesting("disk")
       /\ use_cpu_percent => repeat_mode = "once"
  /\ ScanInit
  /\ program # "count" => system = "Linux" /\ alive = {Self}
  /\ LogStatsInit /\ SaidarInit

MCKernel ==
  \/ "cpu" \in scope /\ Ticking
  \/ "page" \in scope /\ Paging
  \/ \E k \in Kinds \cap scope : DeviceChange(k)

\* For the programs that care for names more than for counts: devices come and go,
\* at most twice.
MCPlugging ==
  /\ changes < 2
  /\ \E k \in Kinds \cap scope, d \in Devices : Unplug(k, d) \/ Plug(k, d)

CallerStep ==
  \/ "cpu" \in scope /\ CpuCalls
  \/ "page" \in scope /\ PageCalls
  \/ "net" \in scope /\ NetworkCalls
  \/ "disk" \in scope /\ DiskCalls

rest == <<program, scope>>

MCNext ==
  \/ /\ program = "caller"
     /\ MCKernel \/ CallerStep
     /\ UNCHANGED <<rest, logVars, saidarVars, toolVars, scanVars>>
  \/ /\ program = "LogStats"
     /\ LogStatsStep \/ (MCKernel /\ FollowTable)
     /\ UNCHANGED <<rest, saidarVars, toolVars, scanVars>>
  \/ /\ program = "statgrab"
     /\ ToolStep \/ (MCPlugging /\ UNCHANGED toolVars)
     /\ UNCHANGED <<rest, logVars, saidarVars, scanVars>>
  \/ /\ program = "saidar"
     /\ SaidarNext \/ (MCPlugging /\ UNCHANGED saidarVars)
     /\ UNCHANGED <<rest, logVars, toolVars, scanVars>>
  \/ /\ program = "count"
     /\ ScanNext
     /\ UNCHANGED <<rest, vars, logVars, saidarVars, toolVars>>

MCvars == <<rest, vars, logVars, saidarVars, toolVars, scanVars>>

\* The program goes on, and time passes.
Program ==
  \/ /\ program = "LogStats" /\ LogStatsStep
     /\ UNCHANGED <<rest, saidarVars, toolVars, scanVars>>
  \/ /\ program = "statgrab" /\ ToolStep
     /\ UNCHANGED <<rest, logVars, saidarVars, scanVars>>
  \/ /\ program = "saidar" /\ SaidarStep
     /\ UNCHANGED <<rest, logVars, toolVars, scanVars>>

MCFairSpec == MCInit /\ [][MCNext]_MCvars /\ WF_MCvars(Program)

\* Each program comes back to its interval, to its next reading, or to its end,
\* also when reads fail: LogStats logs on once an interface was seen, statgrab
\* prints and ends or prints for ever, saidar reads again when keys stop coming
\* and notices a resize of the terminal.
MonitorsGoOn ==
  /\ []<>(/\ program = "LogStats" => IntervalOrNothingSeen
          /\ program = "statgrab" => PrintingOrDone
          /\ program = "saidar" => ReadingOrQuit)
  /\ []<>(program = "saidar" => ResizeNoticed)
=============================================================================
