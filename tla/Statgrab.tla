------------------------------ MODULE Statgrab ------------------------------
(***************************************************************************)
(* libstatgrab 0.17, the library every process links through gostatgrab:   *)
(* its samples of the counters that only grow (processor time, pages,      *)
(* network interfaces, disks) and the differences it forms from one call   *)
(* to the next.  The static variables of the library are the state; the    *)
(* kernel it reads is the environment.  The platforms the source is        *)
(* compiled for are cases of one model, chosen once in Init.               *)
(*                                                                         *)
(* Each sample reads the kernel's tables at one instant.  Allocation       *)
(* succeeds.  Windows is left out: its counters are read by another        *)
(* library.                                                                *)
(***************************************************************************)
EXTENDS Integers, SequencesExt

CONSTANTS
  Platforms,   \* the platforms to consider, a set of names used below
  Devices,     \* the names an interface or a disk can have
  Partial,     \* those without counters of their own: partitions, loopbacks, metadevices
  Tables,      \* the lists of devices the kernel may start with
  NULL,        \* a name that is not set
  MAXVAL,      \* 2^32: where the counters of interfaces wrap
  Bursts,      \* numbers of bytes moved at once
  MaxChanges,  \* bound on the changes of the kernel's tables
  MaxFailures  \* bound on the reads that fail

ASSUME StatgrabAssumption ==
  /\ Partial \subseteq Devices
  /\ \A s \in Tables : /\ s \in Seq(Devices)
                       /\ \A i, j \in DOMAIN s : s[i] = s[j] => i = j
  /\ NULL \notin Devices
  /\ MAXVAL \in Nat \ {0}
  /\ Bursts \subseteq Nat
  /\ MaxChanges \in Nat
  /\ MaxFailures \in Nat

CpuFields == {"user", "idle", "iowait"}
PageFields == {"in", "out"}
Kinds == {"net", "disk"}

\* The platforms whose counters of interfaces are 32 bits wide.
Narrow == {"Linux", "Linux24", "FreeBSD", "OpenBSD"}
ALLBSD == {"FreeBSD", "NetBSD", "OpenBSD"}

VARIABLES
  platform,           \* the platform compiled for; never changes
  ticks,              \* kernel: time spent in each state since boot
  paged,              \* kernel: pages read and written since boot
  table,              \* kernel: the interfaces and the disks, in order
  moved,              \* kernel: bytes each device moved since it appeared
  changes, failures,  \* counts against the bounds
  cpu_now, cpu_now_uninit,
  page_stats, page_stats_uninit,
  network_stats,      \* the vector of the last sample of interfaces
  diskio_stats,       \* the vector of the last sample of disks
  returned,           \* what the last call returned
  told                \* ghost: what the answers so far add up to

kernel == <<platform, ticks, paged, table, moved, changes>>
cpuVars == <<cpu_now, cpu_now_uninit>>
pageVars == <<page_stats, page_stats_uninit>>
statics == <<cpuVars, pageVars, network_stats, diskio_stats>>
vars == <<kernel, failures, statics, returned, told>>

Zero(F) == [f \in F |-> 0]
Plus(a, b) == [f \in DOMAIN a |-> a[f] + b[f]]
Minus(a, b) == [f \in DOMAIN a |-> a[f] - b[f]]

\* What a call returns: a null pointer, or the statistics it points to (a single
\* record as a sequence of one).
Nothing == [null |-> TRUE, stats |-> <<>>]
Return(s) == [null |-> FALSE, stats |-> s]

\* Ghost: the answers of a counter since it was last started over add up to sum,
\* when the kernel's own count was at; begun once differences are being formed.
Fresh(F) == [sum |-> Zero(F), at |-> Zero(F), begun |-> FALSE]

Init ==
  /\ platform \in Platforms
  /\ ticks = Zero(CpuFields)
  /\ paged = Zero(PageFields)
  /\ table \in [Kinds -> Tables]
  /\ moved = [k \in Kinds |-> Zero(Devices)]
  /\ changes = 0 /\ failures = 0
  /\ cpu_now = Zero(CpuFields) /\ cpu_now_uninit = TRUE
  /\ page_stats = Zero(PageFields) /\ page_stats_uninit = TRUE
  /\ network_stats = <<>> /\ diskio_stats = <<>>
  /\ returned = Nothing
  /\ told = [cpu |-> Fresh(CpuFields), page |-> Fresh(PageFields),
             net |-> <<>>, disk |-> <<>>]

-----------------------------------------------------------------------------
(* The kernel.                                                             *)

Change ==
  /\ changes < MaxChanges
  /\ changes' = changes + 1
  /\ UNCHANGED <<platform, failures, statics, returned>>

Tick(f) ==
  /\ Change
  /\ ticks' = [ticks EXCEPT ![f] = @ + 1]
  /\ UNCHANGED <<paged, table, moved, told>>

Page(f) ==
  /\ Change
  /\ paged' = [paged EXCEPT ![f] = @ + 1]
  /\ UNCHANGED <<ticks, table, moved, told>>

Move(k, d, n) ==
  /\ Change
  /\ d \in ToSet(table[k]) \ Partial
  /\ moved' = [moved EXCEPT ![k][d] = @ + n]
  /\ UNCHANGED <<ticks, paged, table, told>>

\* What s has of S, in order.
Keep(s, S) ==
  LET kept[i \in 0..Len(s)] ==
        IF i = 0 THEN <<>>
        ELSE IF s[i] \in S THEN Append(kept[i - 1], s[i])
        ELSE kept[i - 1] IN
  kept[Len(s)]

Unplug(k, d) ==
  /\ Change
  /\ d \in ToSet(table[k])
  /\ table' = [table EXCEPT ![k] = Keep(@, Devices \ {d})]
  /\ UNCHANGED <<ticks, paged, moved, told>>

\* A device appears with its counters at zero: nothing is known of it.
Plug(k, d) ==
  /\ Change
  /\ d \notin ToSet(table[k])
  /\ table' = [table EXCEPT ![k] = Append(@, d)]
  /\ moved' = [moved EXCEPT ![k][d] = 0]
  /\ told' = [told EXCEPT ![k] = [x \in DOMAIN @ \ {d} |-> @[x]]]
  /\ UNCHANGED <<ticks, paged>>

Ticking == \E f \in CpuFields : Tick(f)
Paging == \E f \in PageFields : Page(f)
DeviceChange(k) ==
  \E d \in Devices :
    \/ \E n \in Bursts : Move(k, d, n)
    \/ Unplug(k, d)
    \/ Plug(k, d)

Kernel == Ticking \/ Paging \/ \E k \in Kinds : DeviceChange(k)

-----------------------------------------------------------------------------
(* Processor time.  A read gives the kernel's counts, or fails: the record *)
(* was zeroed first, and on Solaris a processor that cannot be read is     *)
(* passed over without an error.                                           *)

\* MaxFailures bounds the reads that fail.
Fails(o) == failures' = IF o.read THEN failures ELSE failures + 1
CanFail(S) == IF failures < MaxFailures THEN S ELSE {}

CpuSample ==
  [f \in CpuFields |-> IF f = "iowait" /\ platform \in ALLBSD THEN 0 ELSE ticks[f]]

CpuReads ==
  {[read |-> TRUE, ok |-> TRUE, stats |-> CpuSample]}
    \cup CanFail([read : {FALSE},
                  ok : IF platform = "Solaris" THEN BOOLEAN ELSE {FALSE},
                  stats : {Zero(CpuFields)}])

\* The field total, which leaves out the time spent waiting on Linux and BSD.
CpuTotal(c) ==
  c["user"] + c["idle"] + IF platform \in {"Solaris", "HPUX"} THEN c["iowait"] ELSE 0

\* Mutant: the flag is never cleared.
FlagKept_CpuDifference(now) == now

CpuDifference(now) == IF cpu_now_uninit THEN now ELSE Minus(now, cpu_now)

\* Ghost: what is known of a counter after answer a to read o.
Told(t, o, a, begun) ==
  [sum |-> IF ~o.ok THEN o.stats ELSE IF begun THEN Plus(t.sum, a) ELSE a,
   at |-> o.stats,
   begun |-> t.begun]
Begun(t, o) == [t EXCEPT !.begun = @ \/ o.ok]

CpuCall(o, a, begun) ==
  /\ cpu_now' = o.stats
  /\ cpu_now_uninit' = (cpu_now_uninit /\ ~o.ok)
  /\ told' = [told EXCEPT !.cpu = Begun(Told(@, o, a, begun), o)]
  /\ Fails(o)
  /\ UNCHANGED <<kernel, pageVars, network_stats, diskio_stats>>

sg_get_cpu_stats ==
  \E o \in CpuReads :
    /\ CpuCall(o, o.stats, FALSE)
    /\ returned' = IF o.ok THEN Return(<<o.stats>>) ELSE Nothing

sg_get_cpu_stats_diff ==
  \E o \in CpuReads : LET a == CpuDifference(o.stats) IN
    /\ CpuCall(o, a, told.cpu.begun)
    /\ returned' = IF o.ok THEN Return(<<a>>) ELSE Nothing

\* A percentage is a part of the total that passed; 0 / 0 is not a number.
sg_get_cpu_percents ==
  \E o \in CpuReads : LET a == CpuDifference(o.stats) IN
    /\ CpuCall(o, a, told.cpu.begun)
    /\ returned' = IF o.ok THEN Return(<<[part |-> a, total |-> CpuTotal(a)]>>) ELSE Nothing

-----------------------------------------------------------------------------
(* Pages.  The flag is cleared by the first difference, not by the first   *)
(* sample; nothing is read on HP-UX; the second of the two counters may    *)
(* fail alone on FreeBSD.                                                  *)

PageSample == IF platform = "HPUX" THEN Zero(PageFields) ELSE paged

PageReads ==
  {[read |-> TRUE, ok |-> TRUE, stats |-> PageSample]}
    \cup IF platform = "HPUX" THEN {}
         ELSE CanFail([read : {FALSE},
                       ok : IF platform = "Solaris" THEN BOOLEAN ELSE {FALSE},
                       stats : {Zero(PageFields)} \cup
                               IF platform = "FreeBSD"
                               THEN {[Zero(PageFields) EXCEPT !["in"] = paged["in"]]}
                               ELSE {}])

PageDifference(now) == IF page_stats_uninit THEN now ELSE Minus(now, page_stats)

sg_get_page_stats ==
  \E o \in PageReads :
    /\ page_stats' = o.stats
    /\ returned' = IF o.ok THEN Return(<<o.stats>>) ELSE Nothing
    /\ told' = [told EXCEPT !.page = Told(@, o, o.stats, FALSE)]
    /\ Fails(o)
    /\ UNCHANGED <<kernel, cpuVars, page_stats_uninit, network_stats, diskio_stats>>

sg_get_page_stats_diff ==
  \E o \in PageReads : LET a == PageDifference(o.stats) IN
    /\ page_stats' = o.stats
    /\ page_stats_uninit' = (page_stats_uninit /\ ~o.ok)
    /\ returned' = IF o.ok THEN Return(<<a>>) ELSE Nothing
    /\ told' = [told EXCEPT !.page = Begun(Told(@, o, a, told.page.begun), o)]
    /\ Fails(o)
    /\ UNCHANGED <<kernel, cpuVars, network_stats, diskio_stats>>

-----------------------------------------------------------------------------
(* Vectors of devices.  An item holds a name and one counter, which stands *)
(* for all of an interface's or a disk's.                                  *)

Blank == [name |-> NULL, moved |-> 0]

VectorResize(v, count) == [i \in 1..count |-> IF i <= Len(v) THEN v[i] ELSE Blank]

\* Every name is replaced, except on HP-UX one that is set already.
Update(old, item) ==
  IF platform = "HPUX" /\ old.name # NULL THEN [item EXCEPT !.name = old.name] ELSE item

\* The vector v after the items s were written to it one by one.  The first
\* resize is to one item and destroys the others; without any the vector is
\* left as it was.
Filled(v, s) ==
  IF s = <<>> THEN v
  ELSE LET w == VectorResize(VectorResize(v, 1), Len(s))
       IN [i \in DOMAIN s |-> Update(w[i], s[i])]

Shown(k, d) ==
  IF k = "net" /\ platform \in Narrow THEN moved[k][d] % MAXVAL ELSE moved[k][d]

Items(k, s) == [i \in DOMAIN s |-> [name |-> s[i], moved |-> Shown(k, s[i])]]
Whole(s) == Keep(s, Devices \ Partial)
Used(s) == Keep(s, {d \in Devices : moved["disk"][d] > 0})

\* A read of the devices s into a vector that had been v: the items written, how
\* many are answered, and the devices they are of.  A read that fails answers a
\* null pointer and leaves the vector alone.
Read(v, s, items) ==
  [read |-> TRUE, ok |-> TRUE, vector |-> Filled(v, items),
   entries |-> Len(s), devices |-> s]
Failed(v) ==
  [read |-> FALSE, ok |-> FALSE, vector |-> v, entries |-> 0, devices |-> <<>>]

\* Interfaces.  On Solaris one found to lack a counter is in the vector until the
\* next one overwrites it: the last one stays, beyond those answered.
BSDNetworkReads ==
  LET s == Whole(table["net"])
  IN {Read(network_stats, s, Items("net", s))} \cup CanFail({Failed(network_stats)})

LinuxNetworkReads ==
  LET s == Whole(table["net"])
  IN {Read(network_stats, s, Items("net", s))} \cup CanFail({Failed(network_stats)})

SolarisNetworkReads ==
  LET t == table["net"]
      rest == IF t # <<>> /\ Last(t) \in Partial THEN <<Last(t)>> ELSE <<>>
  IN {Read(network_stats, Whole(t), Items("net", Whole(t) \o rest))}
       \cup CanFail({Failed(network_stats)})

NetworkReads ==
  CASE platform = "HPUX" -> {[Failed(network_stats) EXCEPT !.read = TRUE]}
    [] platform = "Solaris" -> SolarisNetworkReads
    [] platform \in ALLBSD -> BSDNetworkReads
    [] OTHER -> LinuxNetworkReads

\* Disks.
\*  Linux: a file that cannot be opened is not reported: no disks are answered.
\*    When the statistics are in a second file the items are zero by then.
\*  FreeBSD, NetBSD, OpenBSD, HP-UX: only the disks that were ever used.
\*  HP-UX: the disks come in batches; a later one fails with the vector half new.
\*  Solaris: a disk that cannot be read gets the values of the one before, the
\*    first one those of an uninitialized record.
LinuxDiskReads ==
  LET s == Whole(table["disk"])
      unopened == [Failed(diskio_stats) EXCEPT !.ok = TRUE]
      zeroed == [i \in DOMAIN s |-> [name |-> s[i], moved |-> 0]]
  IN {Read(diskio_stats, s, Items("disk", s))}
       \cup CanFail({unopened} \cup
                    IF platform = "Linux24"
                    THEN {[unopened EXCEPT !.vector = Filled(@, zeroed)]}
                    ELSE {})

HPUXDiskReads ==
  LET s == Used(table["disk"])
      items == Items("disk", s)
  IN {Read(diskio_stats, s, items)}
       \cup CanFail({[Failed(diskio_stats) EXCEPT !.vector = Filled(@, SubSeq(items, 1, n))] :
                       n \in 0..Len(s)})

SolarisDiskReads ==
  LET s == Whole(table["disk"])
      items == Items("disk", s)
      unread(i, junk) ==
        [Read(diskio_stats, s,
              [items EXCEPT ![i].moved = IF i = 1 THEN junk ELSE items[i - 1].moved])
           EXCEPT !.read = FALSE, !.devices[i] = NULL]
  IN {Read(diskio_stats, s, items)}
       \cup CanFail({Failed(diskio_stats)} \cup {unread(i, j) : i \in DOMAIN s, j \in {0, 1}})

BSDDiskReads ==
  LET s == Used(table["disk"])
  IN {Read(diskio_stats, s, Items("disk", s))} \cup CanFail({Failed(diskio_stats)})

DiskReads ==
  CASE platform \in {"Linux", "Linux24"} -> LinuxDiskReads
    [] platform = "HPUX" -> HPUXDiskReads
    [] platform = "Solaris" -> SolarisDiskReads
    [] OTHER -> BSDDiskReads

-----------------------------------------------------------------------------
(* Differences of two vectors.                                             *)

\* Mutant: without the turn of a 32-bit counter.
NoTurn_transfer_diff(new, old) == new - old

transfer_diff(new, old) ==
  IF new >= old \/ platform \notin Narrow THEN new - old ELSE MAXVAL + new - old

Subtract(k, new, old) == IF k = "net" THEN transfer_diff(new, old) ELSE new - old

\* Mutant: by position only, whatever the name.
ByPosition_Match(name, i, new) == IF i <= Len(new) THEN i ELSE 0

\* The item of the new sample with the name of item i of the previous one, tried
\* at the same position first; 0 when there is none.
Match(name, i, new) ==
  LET n == Len(new)
      at(j) == ((i - 1 + j) % n) + 1
      J == {j \in 0..n - 1 : new[at(j)].name = name}
  IN IF J = {} THEN 0 ELSE at(CHOOSE j \in J : \A h \in J : j <= h)

\* One item for each of the previous sample; one without a match keeps its count.
Differences(k, prev, new) ==
  [i \in DOMAIN prev |->
     LET m == Match(prev[i].name, i, new)
     IN IF m = 0 THEN prev[i]
        ELSE [prev[i] EXCEPT !.moved = Subtract(k, new[m].moved, @)]]

\* The pointer is null while the vector was never allocated.
Sample(o) ==
  IF o.ok /\ o.vector # <<>> THEN Return(SubSeq(o.vector, 1, o.entries)) ELSE Nothing

SampleDiff(k, prev, o) ==
  IF prev = <<>> \/ ~o.ok THEN Sample(o)
  ELSE Return(Differences(k, prev, SubSeq(o.vector, 1, o.entries)))

\* Ghost: the devices that an answer names once, and rightly.
Known(o) ==
  {d \in ToSet(o.devices) :
     \E i \in 1..o.entries :
       /\ o.devices[i] = d
       /\ \A j \in 1..o.entries : o.vector[j].name = d <=> j = i}

\* Ghost: what the kernel moved from one sample to the next, as 32 bits tell it.
Growth(k, n) == IF k = "net" /\ platform \in Narrow THEN n % MAXVAL ELSE n

\* Ghost: of every device known since the last samples, what the differences add
\* up to, what the kernel moved, and its count now.
ToldDevices(k, t, prev, o, a) ==
  IF ~o.ok THEN IF o.vector = prev THEN t ELSE <<>>
  ELSE [d \in Known(o) |->
          IF d \in DOMAIN t
          THEN LET i == CHOOSE j \in DOMAIN a : a[j].name = d
               IN [sum |-> t[d].sum + a[i].moved,
                   grown |-> t[d].grown + Growth(k, moved[k][d] - t[d].at),
                   at |-> moved[k][d]]
          ELSE [sum |-> 0, grown |-> 0, at |-> moved[k][d]]]

sg_get_network_io_stats ==
  \E o \in NetworkReads :
    /\ network_stats' = o.vector
    /\ returned' = Sample(o)
    /\ told' = [told EXCEPT !.net = ToldDevices("net", <<>>, network_stats, o, <<>>)]
    /\ Fails(o)
    /\ UNCHANGED <<kernel, cpuVars, pageVars, diskio_stats>>

sg_get_network_io_stats_diff ==
  \E o \in NetworkReads : LET a == SampleDiff("net", network_stats, o) IN
    /\ network_stats' = o.vector
    /\ returned' = a
    /\ told' = [told EXCEPT !.net = ToldDevices("net", @, network_stats, o, a.stats)]
    /\ Fails(o)
    /\ UNCHANGED <<kernel, cpuVars, pageVars, diskio_stats>>

sg_get_disk_io_stats ==
  \E o \in DiskReads :
    /\ diskio_stats' = o.vector
    /\ returned' = Sample(o)
    /\ told' = [told EXCEPT !.disk = ToldDevices("disk", <<>>, diskio_stats, o, <<>>)]
    /\ Fails(o)
    /\ UNCHANGED <<kernel, cpuVars, pageVars, network_stats>>

sg_get_disk_io_stats_diff ==
  \E o \in DiskReads : LET a == SampleDiff("disk", diskio_stats, o) IN
    /\ diskio_stats' = o.vector
    /\ returned' = a
    /\ told' = [told EXCEPT !.disk = ToldDevices("disk", @, diskio_stats, o, a.stats)]
    /\ Fails(o)
    /\ UNCHANGED <<kernel, cpuVars, pageVars, network_stats>>

\* The names of the interfaces, those without counters included except on BSD.
\* Only a local vector changes.
BSDInterfaces == Return(Whole(table["net"]))
SolarisInterfaces == Return(table["net"])
LinuxInterfaces == Return(table["net"])

Interfaces ==
  CASE platform = "HPUX" -> Nothing
    [] platform = "Solaris" -> SolarisInterfaces
    [] platform \in ALLBSD -> BSDInterfaces
    [] OTHER -> LinuxInterfaces

sg_get_network_iface_stats ==
  LET read == [read |-> TRUE, a |-> Interfaces]
  IN \E o \in {read} \cup CanFail({[read |-> FALSE, a |-> Nothing]}) :
       /\ returned' = o.a
       /\ Fails(o)
       /\ UNCHANGED <<kernel, statics, told>>

-----------------------------------------------------------------------------
(* Any program that calls the library.                                     *)

CpuCalls == sg_get_cpu_stats \/ sg_get_cpu_stats_diff \/ sg_get_cpu_percents
PageCalls == sg_get_page_stats \/ sg_get_page_stats_diff
NetworkCalls ==
  sg_get_network_io_stats \/ sg_get_network_io_stats_diff \/ sg_get_network_iface_stats
DiskCalls == sg_get_disk_io_stats \/ sg_get_disk_io_stats_diff

Next == Kernel \/ CpuCalls \/ PageCalls \/ NetworkCalls \/ DiskCalls

Spec == Init /\ [][Next]_vars

-----------------------------------------------------------------------------
(* Properties.                                                             *)

\* The answers of sg_get_cpu_stats_diff and of sg_get_page_stats_diff add up to
\* what the kernel counted until the last sample: nothing is told twice or lost.
\* They start over at a sample asked for outright and after a read that failed
\* (the record was zeroed, so the next answer counts from boot again), and the
\* pages also with the first difference.
CountersAreToldOnce ==
  \A c \in {"cpu", "page"} : told[c].sum = told[c].at

\* The differences sg_get_network_io_stats_diff gives for an interface add up to
\* the bytes it moved, up to whole turns of a 32-bit counter, as long as every
\* sample listed it and it did not reappear with its counters reset, whatever
\* other interfaces came, went or changed places and whichever reads failed.
NetworkDiffsAddUp ==
  \A d \in DOMAIN told["net"] : told["net"][d].sum = told["net"][d].grown

\* The same of sg_get_disk_io_stats_diff and the disks: those every answer listed
\* under their own name (HP-UX keeps the name of another, Linux lists none
\* when a file cannot be opened) have their differences add up.
DiskDiffsAddUp ==
  \A d \in DOMAIN told["disk"] : told["disk"][d].sum = told["disk"][d].grown
=============================================================================
