---------------------------- MODULE StatgrabTool -----------------------------
(***************************************************************************)
(* statgrab, the command that prints statistics by name: it reads the      *)
(* sections that were asked for, once or repeatedly, sorts the statistics  *)
(* by name and finds those asked for by bisection.                         *)
(*                                                                         *)
(* A name is the sequence of the parts between its dots, ordered by the    *)
(* rank of its parts.  An argument is a name, or with a dot at its end the *)
(* beginning of one.  Section "mem" stands for all those that keep nothing *)
(* from one reading to the next.  Options of the layout are left out.      *)
(***************************************************************************)
EXTENDS Statgrab

CONSTANTS
  Rank,      \* Rank[x]: the place of part x in the alphabet
  Arguments  \* the argument lists to consider

Fields == {"const", "0", "cpu", "user", "mem", "total", "disk", "disk_name", "read_bytes",
           "net", "interface_name", "rx", "speed", "page", "in"}

ASSUME ToolAssumption ==
  /\ Fields \cup Devices \subseteq DOMAIN Rank
  /\ \A x, y \in DOMAIN Rank : Rank[x] \in Nat /\ (Rank[x] = Rank[y] => x = y)
  /\ Arguments \subseteq Seq([name : Seq(DOMAIN Rank), dot : BOOLEAN])

VARIABLES
  repeat_mode,     \* none, once or forever; never changes
  use_cpu_percent,
  argv,            \* the arguments, of type [name, dot]
  section,         \* the section to populate next, or what main does next
  round,           \* the readings so far, at most 2
  stats_list,      \* stats[0 .. num_stats - 1]: the names
  io,              \* the names of the interfaces with counters, while populating
  printed          \* for each argument the names printed

toolVars == <<repeat_mode, use_cpu_percent, argv, section, round, stats_list, io, printed>>

use_diffs == repeat_mode # "none"

toplevels == <<"const", "cpu", "mem", "disk", "net", "page">>

\* "cpu.user" and "cpu." begin with "cpu.", "cpu" does not.
Interesting(t) ==
  argv = <<>> \/ \E a \in ToSet(argv) : a.name[1] = t /\ (Len(a.name) > 1 \/ a.dot)

\* The first interesting section from place i on.
Section(i) ==
  LET J == {j \in i..Len(toplevels) : Interesting(toplevels[j])}
  IN IF J = {} THEN "sorted" ELSE toplevels[CHOOSE j \in J : \A h \in J : j <= h]

After(t) == Section(1 + CHOOSE i \in DOMAIN toplevels : toplevels[i] = t)

ToolInit ==
  /\ repeat_mode \in {"none", "once", "forever"}
  /\ use_cpu_percent \in BOOLEAN
  /\ use_cpu_percent => repeat_mode # "none"
  /\ argv \in Arguments
  /\ section = Section(1)
  /\ round = 1
  /\ stats_list = <<>> /\ io = <<>> /\ printed = <<>>

Of(sect, names, field) == [i \in DOMAIN names |-> <<sect, names[i], field>>]
Names(s) == [i \in DOMAIN s |-> s[i].name]

\* One section: the names ns are added and section t comes next.
Populate(ns, t) ==
  /\ stats_list' = stats_list \o ns
  /\ section' = t
  /\ UNCHANGED <<repeat_mode, use_cpu_percent, argv, round, printed>>

populate_const ==
  /\ section = "const"
  /\ Populate(<< <<"const", "0">> >>, After("const"))
  /\ UNCHANGED <<vars, io>>

populate_mem ==
  /\ section = "mem"
  /\ \E o \in {[read |-> TRUE]} \cup CanFail({[read |-> FALSE]}) :
       /\ Fails(o)
       /\ Populate(IF o.read THEN << <<"mem", "total">> >> ELSE <<>>, After("mem"))
  /\ UNCHANGED <<kernel, statics, returned, told, io>>

\* A null pointer adds nothing.
IfRead(ns) == IF returned'.null THEN <<>> ELSE ns

populate_cpu ==
  /\ section = "cpu"
  /\ IF use_cpu_percent THEN sg_get_cpu_percents
     ELSE IF use_diffs THEN sg_get_cpu_stats_diff ELSE sg_get_cpu_stats
  /\ Populate(IfRead(<< <<"cpu", "user">> >>), After("cpu"))
  /\ UNCHANGED io

populate_page ==
  /\ section = "page"
  /\ IF use_diffs THEN sg_get_page_stats_diff ELSE sg_get_page_stats
  /\ Populate(IfRead(<< <<"page", "in">> >>), After("page"))
  /\ UNCHANGED io

populate_disk ==
  /\ section = "disk"
  /\ IF use_diffs THEN sg_get_disk_io_stats_diff ELSE sg_get_disk_io_stats
  /\ LET ns == Names(returned'.stats)
     IN Populate(Of("disk", ns, "disk_name") \o Of("disk", ns, "read_bytes"), After("disk"))
  /\ UNCHANGED io

\* The interfaces with their counters, then in a second call all interfaces.
populate_net_io ==
  /\ section = "net"
  /\ IF use_diffs THEN sg_get_network_io_stats_diff ELSE sg_get_network_io_stats
  /\ io' = Names(returned'.stats)
  /\ Populate(Of("net", io', "interface_name") \o Of("net", io', "rx"), "iface")

\* The name of one that had counters is not added again.
populate_net_iface ==
  /\ section = "iface"
  /\ sg_get_network_iface_stats
  /\ LET ns == returned'.stats
         new == Keep(ns, Devices \ ToSet(io))
     IN Populate(Of("net", new, "interface_name") \o Of("net", ns, "speed"), After("net"))
  /\ io' = <<>>

-----------------------------------------------------------------------------
(* The names in order, and those asked for.                                *)

\* strcmp: the first part that differs decides.
Before(a, b) ==
  \E i \in 1..Len(a) + 1 :
    /\ \A j \in 1..i - 1 : j <= Len(b) /\ a[j] = b[j]
    /\ i <= Len(b)
    /\ i > Len(a) \/ Rank[a[i]] < Rank[b[i]]

\* How many names of s come up to the place of name i; equal ones in their order.
Place(s, i) == Cardinality({j \in DOMAIN s : Before(s[j], s[i]) \/ (s[j] = s[i] /\ j <= i)})

\* qsort with stats_compare: each name goes to its place (the only such list).
Sorted(s) ==
  {[k \in DOMAIN s |-> s[(CHOOSE p \in places : p[1] = k)[2]]] :
     places \in {{<<Place(s, i), i>> : i \in DOMAIN s}}}

\* stats_compare_prefix when the argument ends in a dot, else stats_compare.
Compare(a, name) ==
  IF a.dot THEN IsStrictPrefix(a.name, name) ELSE a.name = name

\* Some place where the comparison is 0, 0 for a null pointer.
bsearch(a) ==
  LET hits == {i \in DOMAIN stats_list : Compare(a, stats_list[i])}
  IN IF hits = {} THEN {0} ELSE hits

\* Mutant: only up.
Up_PrintRange(a, s) ==
  IF s = 0 THEN <<>>
  ELSE LET end == Min({Len(stats_list) + 1} \cup
                      {i \in s..Len(stats_list) : ~Compare(a, stats_list[i])})
       IN SubSeq(stats_list, s, end - 1)

\* From the place found down and up to the first that differs.
PrintRange(a, s) ==
  IF s = 0 THEN <<>>
  ELSE LET differs == {i \in DOMAIN stats_list : ~Compare(a, stats_list[i])}
           first == Max({0} \cup {i \in differs : i < s}) + 1
           end == Min({Len(stats_list) + 1} \cup {i \in differs : i > s})
       IN SubSeq(stats_list, first, end - 1)

\* The end of get_stats.
Sort ==
  /\ section = "sorted"
  /\ stats_list' \in Sorted(stats_list)
  /\ section' = IF repeat_mode = "once" /\ round = 1 THEN "sleep" ELSE "print"
  /\ UNCHANGED <<vars, repeat_mode, use_cpu_percent, argv, round, io, printed>>

print_stats ==
  /\ section = "print"
  /\ IF argv = <<>> THEN printed' = <<stats_list>>
     ELSE \E s \in [DOMAIN argv -> UNION {bsearch(a) : a \in ToSet(argv)}] :
            /\ \A i \in DOMAIN argv : s[i] \in bsearch(argv[i])
            /\ printed' = [i \in DOMAIN argv |-> PrintRange(argv[i], s[i])]
  /\ section' = IF repeat_mode = "forever" THEN "sleep" ELSE "done"
  /\ UNCHANGED <<vars, repeat_mode, use_cpu_percent, argv, round, stats_list, io>>

\* repeat_time seconds later, clear_stats and the next reading.
Repeat ==
  /\ section = "sleep"
  /\ section' = Section(1)
  /\ round' = 2
  /\ stats_list' = <<>> /\ printed' = <<>>
  /\ UNCHANGED <<vars, repeat_mode, use_cpu_percent, argv, io>>

ToolStep ==
  \/ populate_const \/ populate_cpu \/ populate_mem \/ populate_disk
  \/ populate_net_io \/ populate_net_iface \/ populate_page
  \/ Sort \/ print_stats \/ Repeat

ToolNext == ToolStep \/ (Kernel /\ UNCHANGED toolVars)

ToolSpec == Init /\ ToolInit /\ [][ToolNext]_<<vars, toolVars>>

-----------------------------------------------------------------------------
\* An argument has exactly the statistics it names printed, wherever bisection
\* lands among them; and an exact name is printed once, even when interfaces come
\* and go between the two calls that list them (but on HP-UX, where two disks
\* can be under one name).
PrintedIsAsked ==
  printed # <<>> /\ argv # <<>> =>
    \A i \in DOMAIN argv :
      /\ ToSet(printed[i]) = {n \in ToSet(stats_list) : Compare(argv[i], n)}
      /\ platform # "HPUX" => IsInjective(printed[i])

\* What the command comes to again and again.
PrintingOrDone == section = IF repeat_mode = "forever" THEN "print" ELSE "done"
=============================================================================
