---------------------------- MODULE MonitorProofs ----------------------------
(***************************************************************************)
(* Proofs about Statgrab, LogStats, ProcessScan, Saidar and StatgrabTool:  *)
(* the differences of processor time, of pages, of interfaces and of disks *)
(* add up, whatever the platform, the calls, their order, the devices that *)
(* come and go and the reads that fail; the log tells the traffic; a walk  *)
(* over the processes lists and counts each of them once, whenever they    *)
(* start and end; the readings of saidar are a second apart, for every     *)
(* delay and however many keys are pressed; and statgrab prints what its   *)
(* arguments ask for, for every list of arguments.                         *)
(***************************************************************************)
EXTENDS LogStats, Saidar, ProcessScan, StatgrabTool, StoreLemmas

-----------------------------------------------------------------------------
(* The invariant *)

Counts(F) == [F -> Int]

\* The ghost of one counter with fields F, whose last sample is now: the answers
\* add up to that sample, and differences are formed once the flag is cleared.
TellsAll(t, F, now, uninit) ==
  /\ t \in [sum : Counts(F), at : Counts(F), begun : BOOLEAN]
  /\ t.sum = now /\ t.at = now
  /\ uninit \in BOOLEAN
  /\ t.begun <=> ~ uninit

CountersInv ==
  /\ ticks \in Counts(CpuFields) /\ paged \in Counts(PageFields)
  /\ {"cpu", "page"} \subseteq DOMAIN told
  /\ TellsAll(told.cpu, CpuFields, cpu_now, cpu_now_uninit)
  /\ TellsAll(told.page, PageFields, page_stats, page_stats_uninit)

-----------------------------------------------------------------------------
(* One call *)

\* After a call that reads o and answers a difference a, formed from the sample
\* before once there is one, the answers add up to the new sample.
LEMMA DifferenceTellsAll ==
  ASSUME NEW t, NEW F, NEW now, NEW uninit, TellsAll(t, F, now, uninit),
         NEW o, o.stats \in Counts(F), o.ok \in BOOLEAN,
         NEW a, a = IF uninit THEN o.stats ELSE Minus(o.stats, now)
  PROVE  TellsAll(Begun(Told(t, o, a, t.begun), o),
                  F, o.stats, uninit /\ ~ o.ok)
<1>1. now \in Counts(F)
  BY DEF TellsAll
<1>2. ASSUME ~ uninit PROVE Plus(now, a) = o.stats
  <2>1. a = [f \in F |-> o.stats[f] - now[f]]
    BY <1>2 DEF Minus, Counts
  <2>2. Plus(now, a) = [f \in F |-> now[f] + a[f]]
    BY <1>1 DEF Plus, Counts
  <2>3. \A f \in F : o.stats[f] \in Int /\ now[f] \in Int
    BY <1>1 DEF Counts
  <2>4. \A f \in F : now[f] + a[f] = o.stats[f]
    BY <2>1, <2>3
  <2>5. o.stats = [f \in F |-> o.stats[f]]
    BY DEF Counts
  <2> QED
    BY <2>2, <2>4, <2>5
<1> DEFINE u == Told(t, o, a, t.begun)
<1>3. u \in [sum : Counts(F), at : Counts(F), begun : BOOLEAN]
      /\ u.sum = o.stats /\ u.at = o.stats /\ (u.begun <=> ~ uninit)
  BY <1>1, <1>2 DEF Told, TellsAll
<1>4. uninit \in BOOLEAN
  BY DEF TellsAll
<1>5. TellsAll(Begun(u, o), F, o.stats, uninit /\ ~ o.ok)
  <2> HIDE DEF u
  <2> QED
    BY <1>3, <1>4 DEF TellsAll, Begun
<1> QED
  BY <1>5

\* After a call that answers the sample itself the answers start over with it.
LEMMA SampleTellsAll ==
  ASSUME NEW t, NEW F, NEW now, NEW uninit, TellsAll(t, F, now, uninit),
         NEW o, o.stats \in Counts(F), o.ok \in BOOLEAN
  PROVE  /\ TellsAll(Told(t, o, o.stats, FALSE), F, o.stats, uninit)
         /\ TellsAll(Begun(Told(t, o, o.stats, FALSE), o),
                     F, o.stats, uninit /\ ~ o.ok)
<1> DEFINE u == Told(t, o, o.stats, FALSE)
<1>1. u \in [sum : Counts(F), at : Counts(F), begun : BOOLEAN]
      /\ u.sum = o.stats /\ u.at = o.stats /\ (u.begun <=> ~ uninit)
  BY DEF Told, TellsAll
<1>2. uninit \in BOOLEAN
  BY DEF TellsAll
<1>3. /\ TellsAll(u, F, o.stats, uninit)
      /\ TellsAll(Begun(u, o), F, o.stats, uninit /\ ~ o.ok)
  <2> HIDE DEF u
  <2> QED
    BY <1>1, <1>2 DEF TellsAll, Begun
<1> QED
  BY <1>3

\* Before the first call.
LEMMA FreshTellsAll ==
  ASSUME NEW F, NEW z \in Counts(F)
  PROVE  TellsAll([sum |-> z, at |-> z, begun |-> FALSE], F, z, TRUE)
BY DEF TellsAll

LEMMA CpuReadTypes ==
  ASSUME CountersInv, NEW o \in CpuReads
  PROVE  o.stats \in Counts(CpuFields) /\ o.ok \in BOOLEAN
<1>1. CpuSample \in Counts(CpuFields) /\ Zero(CpuFields) \in Counts(CpuFields)
  BY DEF CountersInv, Counts, CpuSample, Zero
<1> DEFINE good == [read |-> TRUE, ok |-> TRUE, stats |-> CpuSample]
           bad == [read : {FALSE},
                   ok : IF platform = "Solaris" THEN BOOLEAN ELSE {FALSE},
                   stats : {Zero(CpuFields)}]
<1>2. o = good \/ o \in bad
  <2>1. o \in {good} \cup CanFail(bad)
    BY DEF CpuReads
  <2> HIDE DEF good, bad
  <2> QED
    BY <2>1 DEF CanFail
<1>3. CASE o = good
  BY <1>1, <1>3
<1>4. CASE o \in bad
  BY <1>1, <1>4
<1> QED
  BY <1>2, <1>3, <1>4

LEMMA PageReadTypes ==
  ASSUME CountersInv, NEW o \in PageReads
  PROVE  o.stats \in Counts(PageFields) /\ o.ok \in BOOLEAN
<1>1. Zero(PageFields) \in Counts(PageFields)
  BY DEF Counts, Zero
<1>2. PageSample \in Counts(PageFields)
  BY <1>1 DEF CountersInv, PageSample
<1>3. [Zero(PageFields) EXCEPT !["in"] = paged["in"]] \in Counts(PageFields)
  BY <1>1 DEF CountersInv, Counts, PageFields
<1> DEFINE good == [read |-> TRUE, ok |-> TRUE, stats |-> PageSample]
           none == {Zero(PageFields)}
           one == IF platform = "FreeBSD"
                  THEN {[Zero(PageFields) EXCEPT !["in"] = paged["in"]]} ELSE {}
           bad == [read : {FALSE},
                   ok : IF platform = "Solaris" THEN BOOLEAN ELSE {FALSE},
                   stats : none \cup one]
<1>4. o = good \/ o \in bad
  <2>1. o \in {good} \cup IF platform = "HPUX" THEN {} ELSE CanFail(bad)
    BY DEF PageReads
  <2> HIDE DEF good, bad
  <2> QED
    BY <2>1 DEF CanFail
<1>5. CASE o = good
  BY <1>2, <1>5
<1>6. none \cup one \subseteq Counts(PageFields)
  BY <1>1, <1>3
<1>7. CASE o \in bad
  <2> HIDE DEF none, one
  <2> QED
    BY <1>6, <1>7
<1> QED
  BY <1>4, <1>5, <1>7

-----------------------------------------------------------------------------
(* Every step keeps the invariant *)

LEMMA CountersInit == Init => CountersInv
<1> SUFFICES ASSUME Init PROVE CountersInv
  OBVIOUS
<1>1. Zero(CpuFields) \in Counts(CpuFields) /\ Zero(PageFields) \in Counts(PageFields)
  BY DEF Zero, Counts
<1>2. told = [cpu |-> Fresh(CpuFields), page |-> Fresh(PageFields),
              net |-> <<>>, disk |-> <<>>]
  BY DEF Init
<1>3. /\ told.cpu = [sum |-> Zero(CpuFields), at |-> Zero(CpuFields), begun |-> FALSE]
      /\ told.page = [sum |-> Zero(PageFields), at |-> Zero(PageFields), begun |-> FALSE]
  BY <1>2 DEF Fresh
<1>4. {"cpu", "page"} \subseteq DOMAIN told
  BY <1>2
<1>5. /\ TellsAll(told.cpu, CpuFields, cpu_now, TRUE)
      /\ TellsAll(told.page, PageFields, page_stats, TRUE)
  BY <1>1, <1>3, FreshTellsAll DEF Init
<1> QED
  BY <1>1, <1>4, <1>5 DEF Init, CountersInv

LEMMA KernelKeeps ==
  ASSUME CountersInv, Kernel
  PROVE  CountersInv'
<1>1. ASSUME NEW f \in CpuFields, Tick(f) PROVE CountersInv'
  BY <1>1 DEF Tick, Change, CountersInv, Counts, statics, cpuVars, pageVars
<1>2. ASSUME NEW f \in PageFields, Page(f) PROVE CountersInv'
  BY <1>2 DEF Page, Change, CountersInv, Counts, statics, cpuVars, pageVars
<1>3. ASSUME NEW k \in Kinds, NEW d \in Devices, NEW n \in Bursts, Move(k, d, n)
      PROVE  CountersInv'
  BY <1>3 DEF Move, Change, CountersInv, Counts, statics, cpuVars, pageVars
<1>4. ASSUME NEW k \in Kinds, NEW d \in Devices, Unplug(k, d) PROVE CountersInv'
  BY <1>4 DEF Unplug, Change, CountersInv, Counts, statics, cpuVars, pageVars
<1>5. ASSUME NEW k \in Kinds, NEW d \in Devices, Plug(k, d) PROVE CountersInv'
  <2> DEFINE rest == [x \in DOMAIN told[k] \ {d} |-> told[k][x]]
  <2>1. told' = [told EXCEPT ![k] = rest] /\ k \in {"net", "disk"}
    BY <1>5 DEF Plug, Kinds
  <2> HIDE DEF rest
  <2>2. {"cpu", "page"} \subseteq DOMAIN told
    BY DEF CountersInv
  <2>3. told'.cpu = told.cpu /\ told'.page = told.page /\ DOMAIN told' = DOMAIN told
    BY <2>1, <2>2
  <2> QED
    BY <1>5, <2>3 DEF Plug, Change, CountersInv, Counts, statics, cpuVars, pageVars
<1> QED
  BY <1>1, <1>2, <1>3, <1>4, <1>5 DEF Kernel, Ticking, Paging, DeviceChange

LEMMA CpuCallKeeps ==
  ASSUME CountersInv, NEW o \in CpuReads, NEW a, NEW b, CpuCall(o, a, b),
         TellsAll(Begun(Told(told.cpu, o, a, b), o), CpuFields, o.stats,
                  cpu_now_uninit /\ ~ o.ok)
  PROVE  CountersInv'
<1> DEFINE t == Begun(Told(told.cpu, o, a, b), o)
<1>1. told' = [told EXCEPT !.cpu = t]
  BY DEF CpuCall
<1>2. TellsAll(t, CpuFields, o.stats, cpu_now_uninit /\ ~ o.ok)
  OBVIOUS
<1> HIDE DEF t
<1>3. {"cpu", "page"} \subseteq DOMAIN told
  BY DEF CountersInv
<1>4. told'.cpu = t /\ told'.page = told.page /\ DOMAIN told' = DOMAIN told
  BY <1>1, <1>3
<1> QED
  BY <1>2, <1>4 DEF CountersInv, CpuCall, kernel, pageVars

LEMMA CpuCallsKeep ==
  ASSUME CountersInv, CpuCalls
  PROVE  CountersInv'
<1>1. TellsAll(told.cpu, CpuFields, cpu_now, cpu_now_uninit)
  BY DEF CountersInv
<1>2. ASSUME NEW o \in CpuReads, CpuCall(o, o.stats, FALSE)
      PROVE  CountersInv'
  BY <1>1, <1>2, CpuReadTypes, SampleTellsAll, CpuCallKeeps
<1>3. ASSUME NEW o \in CpuReads, CpuCall(o, CpuDifference(o.stats), told.cpu.begun)
      PROVE  CountersInv'
  <2>1. TellsAll(Begun(Told(told.cpu, o, CpuDifference(o.stats), told.cpu.begun), o),
                 CpuFields, o.stats, cpu_now_uninit /\ ~ o.ok)
    BY <1>1, CpuReadTypes, DifferenceTellsAll DEF CpuDifference
  <2> QED
    BY <1>3, <2>1, CpuCallKeeps
<1> QED
  BY <1>2, <1>3
  DEF CpuCalls, sg_get_cpu_stats, sg_get_cpu_stats_diff, sg_get_cpu_percents

LEMMA PageCallKeeps ==
  ASSUME CountersInv, PageCalls
  PROVE  CountersInv'
<1>1. TellsAll(told.page, PageFields, page_stats, page_stats_uninit)
  BY DEF CountersInv
<1>2. {"cpu", "page"} \subseteq DOMAIN told
  BY DEF CountersInv
<1>3. ASSUME NEW o \in PageReads, NEW t, told' = [told EXCEPT !.page = t],
             page_stats' = o.stats,
             TellsAll(t, PageFields, page_stats', page_stats_uninit'),
             UNCHANGED <<kernel, cpuVars>>
      PROVE  CountersInv'
  <2>1. told'.cpu = told.cpu /\ told'.page = t /\ DOMAIN told' = DOMAIN told
    BY <1>2, <1>3
  <2> QED
    BY <1>3, <2>1 DEF CountersInv, kernel, cpuVars
<1>4. CASE sg_get_page_stats
  <2>1. PICK o \in PageReads :
          /\ page_stats' = o.stats
          /\ told' = [told EXCEPT !.page = Told(told.page, o, o.stats, FALSE)]
          /\ UNCHANGED <<kernel, cpuVars, page_stats_uninit, network_stats, diskio_stats>>
    BY <1>4 DEF sg_get_page_stats
  <2>2. o.stats \in Counts(PageFields) /\ o.ok \in BOOLEAN
    BY PageReadTypes
  <2>3. TellsAll(Told(told.page, o, o.stats, FALSE), PageFields, o.stats, page_stats_uninit)
    BY <1>1, <2>2, SampleTellsAll
  <2> QED
    BY <1>3, <2>1, <2>3
<1>5. CASE sg_get_page_stats_diff
  <2>1. PICK o \in PageReads :
          /\ page_stats' = o.stats
          /\ page_stats_uninit' = (page_stats_uninit /\ ~ o.ok)
          /\ told' = [told EXCEPT !.page =
               Begun(Told(told.page, o, PageDifference(o.stats), told.page.begun), o)]
          /\ UNCHANGED <<kernel, cpuVars>>
    BY <1>5 DEF sg_get_page_stats_diff
  <2>2. o.stats \in Counts(PageFields) /\ o.ok \in BOOLEAN
    BY PageReadTypes
  <2>3. TellsAll(Begun(Told(told.page, o, PageDifference(o.stats), told.page.begun), o),
                 PageFields, o.stats, page_stats_uninit /\ ~ o.ok)
    BY <1>1, <2>2, DifferenceTellsAll DEF PageDifference
  <2> QED
    BY <1>3, <2>1, <2>3
<1> QED
  BY <1>4, <1>5 DEF PageCalls

\* The calls that read interfaces and disks tell nothing of the other counters.
LEMMA DeviceCallKeeps ==
  ASSUME CountersInv, NetworkCalls \/ DiskCalls
  PROVE  CountersInv'
<1>1. {"cpu", "page"} \subseteq DOMAIN told
  BY DEF CountersInv
<1>2. /\ \E x : \/ told' = [told EXCEPT !.net = x]
                \/ told' = [told EXCEPT !.disk = x]
                \/ told' = told
      /\ UNCHANGED <<kernel, cpuVars, pageVars>>
  <2>1. CASE sg_get_network_io_stats
    BY <2>1 DEF sg_get_network_io_stats
  <2>2. CASE sg_get_network_io_stats_diff
    BY <2>2 DEF sg_get_network_io_stats_diff
  <2>3. CASE sg_get_network_iface_stats
    BY <2>3 DEF sg_get_network_iface_stats, statics
  <2>4. CASE sg_get_disk_io_stats
    BY <2>4 DEF sg_get_disk_io_stats
  <2>5. CASE sg_get_disk_io_stats_diff
    BY <2>5 DEF sg_get_disk_io_stats_diff
  <2> QED
    BY <2>1, <2>2, <2>3, <2>4, <2>5 DEF NetworkCalls, DiskCalls
<1>3. told'.cpu = told.cpu /\ told'.page = told.page /\ DOMAIN told' = DOMAIN told
  BY <1>1, <1>2
<1> QED
  BY <1>2, <1>3 DEF CountersInv, kernel, cpuVars, pageVars

LEMMA CountersStep == CountersInv /\ [Next]_vars => CountersInv'
<1> SUFFICES ASSUME CountersInv, [Next]_vars PROVE CountersInv'
  OBVIOUS
<1>1. CASE Kernel
  BY <1>1, KernelKeeps
<1>2. CASE CpuCalls
  BY <1>2, CpuCallsKeep
<1>3. CASE PageCalls
  BY <1>3, PageCallKeeps
<1>4. CASE NetworkCalls \/ DiskCalls
  BY <1>4, DeviceCallKeeps
<1>5. CASE UNCHANGED vars
  BY <1>5 DEF vars, kernel, statics, cpuVars, pageVars, CountersInv
<1> QED
  BY <1>1, <1>2, <1>3, <1>4, <1>5 DEF Next

\* The answers of sg_get_cpu_stats_diff and of sg_get_page_stats_diff add up to
\* the kernel's count at the last sample (cpu_stats.c, page_stats.c), on every
\* platform and whichever reads fail.
THEOREM CountersTold == Spec => []CountersAreToldOnce
<1>1. CountersInv => CountersAreToldOnce
  BY DEF CountersInv, CountersAreToldOnce, TellsAll
<1> QED
  BY <1>1, CountersInit, CountersStep, PTL DEF Spec

-----------------------------------------------------------------------------
(* Division *)

LEMMA RemainderIs ==
  ASSUME NEW n \in Nat \ {0}, NEW a \in Int, NEW q \in Int, NEW r \in 0..(n - 1), a = n * q + r
  PROVE  a % n = r
<1>1. PICK Q \in Int, R \in 0..(n - 1) : a = n * Q + R /\ a % n = R
  <2>1. a % n \in 0..(n - 1) /\ a \div n \in Int /\ a = n * (a \div n) + (a % n)
    OBVIOUS
  <2> QED
    BY <2>1
<1>2. \A z \in Int : z >= 1 => n * z >= n
  OBVIOUS
<1>3. PICK z \in Int : z = q - Q
  OBVIOUS
<1>4. n * z = R - r
  BY <1>1, <1>3
<1>5. ~ (z >= 1)
  BY <1>2, <1>4
<1>6. ~ (0 - z >= 1)
  <2>1. n * (0 - z) = r - R
    BY <1>4
  <2> QED
    BY <1>2, <2>1
<1>7. z = 0
  BY <1>5, <1>6
<1> QED
  BY <1>1, <1>4, <1>7

\* What two readings of a counter that turns at M tell of its growth.
LEMMA TurnedDifference ==
  ASSUME NEW M \in Nat \ {0}, NEW x \in Nat, NEW y \in Nat, x <= y
  PROVE  (y - x) % M = IF y % M >= x % M THEN (y % M) - (x % M) ELSE M + (y % M) - (x % M)
<1>1. PICK q \in Int, r \in 0..(M - 1) : x = M * q + r /\ r = x % M
  OBVIOUS
<1>2. PICK p \in Int, s \in 0..(M - 1) : y = M * p + s /\ s = y % M
  OBVIOUS
<1>3. x = M * q + r /\ y = M * p + s
  BY <1>1, <1>2
<1>4. CASE s >= r
  <2>1. PICK a \in Int, b \in Int, c \in 0..(M - 1) : a = y - x /\ b = p - q /\ c = s - r
    BY <1>4
  <2>2. M * b = M * p - M * q
    BY <2>1
  <2>3. a = M * b + c
    BY <1>3, <2>1, <2>2
  <2>4. a % M = c
    BY <2>3, RemainderIs
  <2> QED
    BY <1>1, <1>2, <1>4, <2>1, <2>4
<1>5. CASE ~ (s >= r)
  <2>1. PICK a \in Int, b \in Int, c \in 0..(M - 1) :
          a = y - x /\ b = p - q - 1 /\ c = M + s - r
    BY <1>5
  <2>2. M * b = M * p - M * q - M
    BY <2>1
  <2>3. a = M * b + c
    BY <1>3, <2>1, <2>2
  <2>4. a % M = c
    BY <2>3, RemainderIs
  <2> QED
    BY <1>1, <1>2, <1>5, <2>1, <2>4
<1> QED
  BY <1>4, <1>5

-----------------------------------------------------------------------------
(* Vectors of devices *)

Item == [name : Devices \cup {NULL}, moved : Nat]

\* Keep passes through s and appends what it keeps.
KeepsAlong(g, n, s, S) ==
  /\ g[0] = <<>>
  /\ \A i \in 1..n : g[i] = IF s[i] \in S THEN Append(g[i - 1], s[i]) ELSE g[i - 1]

LEMMA KeepRuns ==
  ASSUME NEW D, NEW s \in Seq(D), NEW S
  PROVE  \E g \in [0..Len(s) -> Seq(D \cap S)] : KeepsAlong(g, Len(s), s, S) /\ Keep(s, S) = g[Len(s)]
<1> DEFINE T == Seq(D \cap S)
           next == [x \in (1..Len(s)) \X T |-> IF s[x[1]] \in S THEN Append(x[2], s[x[1]]) ELSE x[2]]
           IsKept(g) == g = [i \in 0..Len(s) |->
             IF i = 0 THEN <<>>
             ELSE IF s[i] \in S THEN Append(g[i - 1], s[i])
             ELSE g[i - 1]]
<1>1. PICK n \in Nat : n = Len(s)
  OBVIOUS
<1>2. next \in [(1..n) \X T -> T]
  <2>1. ASSUME NEW i \in 1..n, NEW r \in T
        PROVE  (IF s[i] \in S THEN Append(r, s[i]) ELSE r) \in T
    BY <1>1
  <2> QED
    BY <1>1, <2>1
<1>3. <<>> \in T
  OBVIOUS
<1>4. PICK f \in [0..n -> T] : IsRun(f, n, <<>>, next)
  <2> HIDE DEF next, T
  <2> QED
    BY <1>2, <1>3, RunIsDefined
<1>5. f[0] = <<>> /\ \A i \in 1..n : f[i] = IF s[i] \in S THEN Append(f[i - 1], s[i]) ELSE f[i - 1]
  <2>1. f[0] = <<>> /\ \A i \in 1..n : f[i] = next[<<i, f[i - 1]>>]
    <3> HIDE DEF next, T
    <3> QED
      BY <1>4 DEF IsRun
  <2>2. \A i \in 1..n : <<i, f[i - 1]>> \in (1..n) \X T
    <3>1. \A i \in 1..n : i - 1 \in 0..n
      OBVIOUS
    <3> HIDE DEF T
    <3> QED
      BY <3>1
  <2> HIDE DEF T
  <2> QED
    BY <1>1, <2>1, <2>2
<1>6. IsKept(f)
  <2>1. \A i \in 0..n : i = 0 \/ i \in 1..n
    OBVIOUS
  <2>2. \A i \in 0..n : f[i] = IF i = 0 THEN <<>>
             ELSE IF s[i] \in S THEN Append(f[i - 1], s[i])
             ELSE f[i - 1]
    BY <1>5, <2>1
  <2>3. f = [i \in 0..n |-> f[i]]
    OBVIOUS
  <2> QED
    BY <1>1, <2>2, <2>3
<1> DEFINE g == CHOOSE h : IsKept(h)
<1>7. Keep(s, S) = g[n]
  BY <1>1 DEF Keep
<1>8. IsKept(g)
  <2> HIDE DEF IsKept
  <2> QED
    BY <1>6
<1>9. g[0] = <<>> /\ \A i \in 1..n : g[i] = IF s[i] \in S THEN Append(g[i - 1], s[i]) ELSE g[i - 1]
  <2> HIDE DEF g
  <2>1. \A i \in 0..n : g[i] = IF i = 0 THEN <<>>
             ELSE IF s[i] \in S THEN Append(g[i - 1], s[i])
             ELSE g[i - 1]
    BY <1>1, <1>8
  <2>2. 0 \in 0..n /\ \A i \in 1..n : i \in 0..n /\ i # 0
    OBVIOUS
  <2> QED
    BY <2>1, <2>2
<1> HIDE DEF g
<1> DEFINE M == {m \in Nat : m <= n => g[m] \in T}
<1>10. 0 \in M
  BY <1>3, <1>9
<1>11. ASSUME NEW m \in Nat, m \in M PROVE m + 1 \in M
  <2> SUFFICES ASSUME m + 1 <= n
               PROVE  g[m + 1] \in T
    OBVIOUS
  <2>1. m + 1 \in 1..n /\ (m + 1) - 1 = m
    OBVIOUS
  <2>2. g[m] \in T /\ s[m + 1] \in D
    BY <1>1, <1>11, <2>1
  <2>3. g[m + 1] = IF s[m + 1] \in S THEN Append(g[m], s[m + 1]) ELSE g[m]
    BY <1>9, <2>1
  <2> QED
    BY <2>2, <2>3
<1>12. \A m \in 0..n : g[m] \in T
  <2>1. Nat \subseteq M
    <3> HIDE DEF M
    <3> QED
      BY <1>10, <1>11, InductionOverSet
  <2> HIDE DEF T
  <2> QED
    BY <2>1
<1>13. g \in [0..n -> T]
  <2> DEFINE passed(i) == IF i = 0 THEN <<>> ELSE IF s[i] \in S THEN Append(g[i - 1], s[i]) ELSE g[i - 1]
  <2>1. g = [i \in 0..n |-> passed(i)]
    BY <1>1, <1>8
  <2> HIDE DEF passed, T
  <2> QED
    BY <1>12, <2>1
<1>14. KeepsAlong(g, n, s, S)
  BY <1>9 DEF KeepsAlong
<1> HIDE DEF T
<1>15. g \in [0..Len(s) -> T] /\ KeepsAlong(g, Len(s), s, S) /\ Keep(s, S) = g[Len(s)]
  BY <1>1, <1>7, <1>13, <1>14
<1> QED
  BY <1>15 DEF T

\* What is left of a sequence is of those kept.
LEMMA KeepIs ==
  ASSUME NEW D, NEW s \in Seq(D), NEW S
  PROVE  Keep(s, S) \in Seq(D \cap S)
BY KeepRuns

\* It names each of them once, when the sequence did.
LEMMA KeepIsInjective ==
  ASSUME NEW D, NEW s \in Seq(D), NEW S, IsInjective(s)
  PROVE  IsInjective(Keep(s, S))
<1>1. PICK n \in Nat : n = Len(s) /\ s \in [1..n -> D] /\ DOMAIN s = 1..n
  OBVIOUS
<1>2. PICK g \in [0..n -> Seq(D \cap S)] : KeepsAlong(g, n, s, S) /\ Keep(s, S) = g[n]
  BY <1>1, KeepRuns
<1> DEFINE Once(m) == /\ IsInjective(g[m])
                      /\ \A h \in DOMAIN g[m] : \E i \in 1..m : g[m][h] = s[i]
           M == {m \in Nat : m <= n => Once(m)}
<1>3. 0 \in M
  BY <1>2 DEF KeepsAlong, IsInjective
<1>4. ASSUME NEW m \in Nat, m \in M PROVE m + 1 \in M
  <2> SUFFICES ASSUME m + 1 <= n PROVE Once(m + 1)
    OBVIOUS
  <2>1. m + 1 \in 1..n /\ (m + 1) - 1 = m /\ m \in 0..n
    OBVIOUS
  <2>2. PICK q \in Seq(D \cap S) : q = g[m]
    BY <2>1
  <2>3. PICK x : x = s[m + 1]
    OBVIOUS
  <2>4. g[m + 1] = IF x \in S THEN Append(q, x) ELSE q
    BY <1>2, <2>1, <2>2, <2>3 DEF KeepsAlong
  <2>5. IsInjective(q) /\ \A h \in DOMAIN q : \E i \in 1..m : q[h] = s[i]
    BY <1>4, <2>2
  <2>6. \A h \in DOMAIN q : q[h] # x
    BY <1>1, <2>1, <2>3, <2>5 DEF IsInjective
  <2>7. CASE x \in S
    <3> DEFINE r == Append(q, x)
    <3>1. PICK l \in Nat : l = Len(q) /\ DOMAIN q = 1..l
      OBVIOUS
    <3>2. DOMAIN r = 1..(l + 1) /\ r[l + 1] = x /\ \A h \in 1..l : r[h] = q[h]
      BY <3>1
    <3> HIDE DEF r
    <3>3. IsInjective(r)
      <4>1. \A h \in 1..(l + 1) : h \in 1..l \/ h = l + 1
        OBVIOUS
      <4> QED
        BY <2>5, <2>6, <3>1, <3>2, <4>1 DEF IsInjective
    <3>4. \A h \in DOMAIN r : \E i \in 1..(m + 1) : r[h] = s[i]
      <4>1. ASSUME NEW h \in 1..l PROVE \E i \in 1..(m + 1) : r[h] = s[i]
        <5>1. PICK i \in 1..m : q[h] = s[i]
          BY <2>5, <3>1
        <5> QED
          BY <3>2, <5>1
      <4>2. \E i \in 1..(m + 1) : r[l + 1] = s[i]
        BY <2>3, <3>2
      <4>3. \A h \in 1..(l + 1) : h \in 1..l \/ h = l + 1
        OBVIOUS
      <4> QED
        BY <3>2, <4>1, <4>2, <4>3
    <3>5. g[m + 1] = r
      BY <2>4, <2>7 DEF r
    <3> QED
      BY <3>3, <3>4, <3>5
  <2>8. CASE x \notin S
    <3>1. g[m + 1] = q
      BY <2>4, <2>8
    <3>2. \A i \in 1..m : i \in 1..(m + 1)
      OBVIOUS
    <3> QED
      BY <2>5, <3>1, <3>2
  <2> QED
    BY <2>7, <2>8
<1>5. n \in M
  <2> HIDE DEF M
  <2> QED
    BY <1>3, <1>4, InductionOverSet
<1> QED
  BY <1>2, <1>5

\* What is written to a vector is in it, but on HP-UX the names.
LEMMA FilledIs ==
  ASSUME NEW v \in Seq(Item), NEW n \in Nat, NEW s \in [1..n -> Item]
  PROVE  /\ Filled(v, s) \in Seq(Item)
         /\ n # 0 => Len(Filled(v, s)) = n
         /\ n # 0 => \A i \in 1..n :
              /\ Filled(v, s)[i].moved = s[i].moved
              /\ platform # "HPUX" => Filled(v, s)[i].name = s[i].name
              /\ s[i].name # NULL => Filled(v, s)[i].name # NULL
<1>1. CASE n = 0
  BY <1>1 DEF Filled
<1>2. CASE n # 0
  <2>1. Len(s) = n /\ DOMAIN s = 1..n /\ s # <<>>
    BY <1>2
  <2> DEFINE u == VectorResize(v, 1)
             w == VectorResize(u, n)
             f == [i \in 1..n |-> Update(w[i], s[i])]
  <2>2. Blank \in Item
    BY DEF Blank, Item
  <2>3. u \in [1..1 -> Item] /\ Len(u) = 1
    BY <2>2 DEF VectorResize
  <2> HIDE DEF u
  <2>4. w \in [1..n -> Item]
    BY <2>2, <2>3 DEF VectorResize
  <2>5. Filled(v, s) = f
    BY <2>1 DEF Filled, u
  <2> HIDE DEF w
  <2>6. ASSUME NEW i \in 1..n
        PROVE  /\ Update(w[i], s[i]) \in Item
               /\ Update(w[i], s[i]).moved = s[i].moved
               /\ platform # "HPUX" => Update(w[i], s[i]).name = s[i].name
               /\ s[i].name # NULL => Update(w[i], s[i]).name # NULL
    <3>1. w[i] \in Item /\ s[i] \in Item
      BY <2>4
    <3> QED
      BY <3>1 DEF Update, Item
  <2>7. f \in [1..n -> Item]
    BY <2>6
  <2>8. f \in Seq(Item) /\ Len(f) = n
    BY <2>7
  <2> QED
    BY <1>2, <2>5, <2>6, <2>8
<1> QED
  BY <1>1, <1>2

\* The item of a name that occurs once is found, wherever the search begins.
LEMMA MatchFinds ==
  ASSUME NEW n \in Nat, NEW new, Len(new) = n, NEW i \in Nat \ {0}, NEW name, NEW m \in 1..n,
         \A j \in 1..n : new[j].name = name <=> j = m
  PROVE  Match(name, i, new) = m
<1> DEFINE place(j) == ((i - 1 + j) % Len(new)) + 1
           J == {j \in 0..Len(new) - 1 : new[place(j)].name = name}
<1>0. Match(name, i, new) = IF J = {} THEN 0 ELSE place(CHOOSE h \in J : \A l \in J : h <= l)
  BY DEF Match
<1>1. n \in Nat \ {0}
  OBVIOUS
<1>2. \A j \in 0..(n - 1) : place(j) \in 1..n
  <2>1. \A j \in Int : j % n \in 0..(n - 1)
    BY <1>1
  <2>2. \A j \in 0..(n - 1) : i - 1 + j \in Int
    BY <1>1
  <2>3. \A j \in 0..(n - 1) : (i - 1 + j) % n \in 0..(n - 1)
    BY <2>1, <2>2
  <2> QED
    BY <1>1, <2>3
<1>3. PICK q \in Int, j \in 0..(n - 1) : m - i = n * q + j
  <2>1. (m - i) % n \in 0..(n - 1) /\ (m - i) \div n \in Int
        /\ m - i = n * ((m - i) \div n) + ((m - i) % n)
    BY <1>1
  <2> QED
    BY <2>1
<1>4. place(j) = m
  <2>1. PICK a \in Int, p \in Int, r \in 0..(n - 1) : a = i - 1 + j /\ p = 0 - q /\ r = m - 1
    BY <1>1
  <2>2. n * p = 0 - n * q
    BY <2>1
  <2>3. a = n * p + r
    BY <1>3, <2>1, <2>2
  <2>4. a % n = r
    BY <1>1, <2>3, RemainderIs
  <2> QED
    BY <2>1, <2>4
<1>5. j \in J
  BY <1>4
<1> HIDE DEF place
<1>6. J \subseteq Nat
  OBVIOUS
<1>7. \E h \in J : \A l \in J : h <= l
  <2> HIDE DEF J
  <2> QED
    BY <1>5, <1>6, LeastNumber
<1>8. (CHOOSE h \in J : \A l \in J : h <= l) \in J
  BY <1>7
<1>9. \A h \in J : place(h) = m
  BY <1>2
<1>10. J # {}
  BY <1>5
<1> HIDE DEF J
<1> QED
  BY <1>0, <1>8, <1>9, <1>10

-----------------------------------------------------------------------------
(* What the samples read *)

StaticsInv ==
  /\ table \in [Kinds -> Seq(Devices)]
  /\ moved \in [Kinds -> [Devices -> Nat]]
  /\ network_stats \in Seq(Item) /\ diskio_stats \in Seq(Item)

ShownAt(p, k, n) == IF k = "net" /\ p \in Narrow THEN n % MAXVAL ELSE n

\* Item i of vector v, and no other, is that of device d, and has the counter n.
TellsOf(v, d, i, n) ==
  /\ i \in 1..Len(v) /\ v[i].name = d /\ v[i].moved = n
  /\ \A j \in 1..Len(v) : v[j].name = d => j = i

\* Read o of the devices of kind k, and where the devices it knows are.
GoodRead(k, o) ==
  /\ o.ok \in BOOLEAN /\ o.vector \in Seq(Item) /\ o.entries \in Nat
  /\ o.ok =>
       \A d \in Known(o) :
         /\ d \in Devices /\ o.entries <= Len(o.vector)
         /\ \E i \in 1..o.entries : TellsOf(o.vector, d, i, Shown(k, d))

LEMMA ShownIs ==
  ASSUME StaticsInv, NEW k \in Kinds, NEW d \in Devices
  PROVE  moved[k][d] \in Nat /\ Shown(k, d) \in Nat /\ Shown(k, d) = ShownAt(platform, k, moved[k][d])
<1>1. moved[k][d] \in Nat
  BY DEF StaticsInv
<1>2. moved[k][d] % MAXVAL \in Nat
  BY <1>1, StatgrabAssumption
<1> QED
  BY <1>1, <1>2 DEF Shown, ShownAt

LEMMA ItemsAre ==
  ASSUME StaticsInv, NEW k \in Kinds, NEW n \in Nat, NEW s \in [1..n -> Devices]
  PROVE  /\ Items(k, s) \in [1..n -> Item]
         /\ \A i \in 1..n : Items(k, s)[i].name = s[i] /\ Items(k, s)[i].moved = Shown(k, s[i])
<1>1. \A i \in 1..n : Shown(k, s[i]) \in Nat
  BY ShownIs
<1> QED
  BY <1>1 DEF Items, Item

\* The items are written in order, those of the devices answered first; of the others,
\* and of those not read rightly, nothing is said.
Writes(k, v, n, s, m, items, o) ==
  /\ v \in Seq(Item) /\ s \in [1..n -> Devices] /\ items \in [1..m -> Item]
  /\ n <= m /\ m <= n + 1 /\ (platform = "HPUX" => m = n)
  /\ \A i \in 1..m : items[i].name # NULL
  /\ \A i \in 1..n : items[i].name = s[i]
  /\ \A i \in (n + 1)..m, j \in 1..n : items[i].name # s[j]
  /\ o.ok \in BOOLEAN /\ o.vector = Filled(v, items) /\ o.entries = n
  /\ o.devices \in [1..n -> Devices \cup {NULL}]
  /\ \A i \in 1..n : o.devices[i] # NULL =>
       o.devices[i] = s[i] /\ items[i].moved = Shown(k, s[i])

\* The same, when all devices were read rightly.
WritesAll(k, v, s, o) ==
  /\ o.ok /\ o.devices = s
  /\ \E n \in Nat, m \in Nat : \E items : n = Len(s) /\ Writes(k, v, n, s, m, items, o)

LEMMA WrittenRead ==
  ASSUME StaticsInv, NEW k \in Kinds, NEW v, NEW n \in Nat, NEW s, NEW m \in Nat, NEW items,
         NEW o, Writes(k, v, n, s, m, items, o)
  PROVE  GoodRead(k, o)
<1> USE DEF Writes
<1> DEFINE w == Filled(v, items)
<1>1. w \in Seq(Item)
  BY FilledIs
<1>2. ASSUME NEW d \in Known(o)
      PROVE  /\ d \in Devices /\ n <= Len(w)
             /\ \E i \in 1..n : TellsOf(w, d, i, Shown(k, d))
  <2> HIDE DEF w
  <2>1. PICK i \in 1..n : o.devices[i] = d /\ \A j \in 1..n : w[j].name = d <=> j = i
    BY <1>2 DEF Known, w
  <2>2. m # 0 /\ Len(w) = m
    BY <2>1, FilledIs DEF w
  <2>3. \A j \in 1..m : /\ w[j].moved = items[j].moved
                        /\ platform # "HPUX" => w[j].name = items[j].name
                        /\ items[j].name # NULL => w[j].name # NULL
    <3>1. \A j \in 1..m :
            /\ Filled(v, items)[j].moved = items[j].moved
            /\ platform # "HPUX" => Filled(v, items)[j].name = items[j].name
            /\ items[j].name # NULL => Filled(v, items)[j].name # NULL
      BY <2>2, FilledIs
    <3> QED
      BY <3>1 DEF w
  <2>4. i \in 1..m /\ items[i].name = s[i] /\ s[i] # NULL
    BY StatgrabAssumption
  <2>5. d # NULL
    BY <2>1, <2>3, <2>4
  <2>6. d = s[i] /\ d \in Devices /\ w[i].moved = Shown(k, d)
    BY <2>1, <2>3, <2>4, <2>5
  <2>7. ASSUME NEW j \in 1..m, w[j].name = d PROVE j = i
    <3>1. CASE j \in 1..n
      BY <2>1, <2>7, <3>1
    <3>2. CASE j \in (n + 1)..m
      <4>1. platform # "HPUX"
        BY <3>2
      <4>2. items[j].name = s[i]
        BY <2>3, <2>6, <2>7, <4>1
      <4> QED
        BY <3>2, <4>2
    <3> QED
      BY <3>1, <3>2
  <2>8. TellsOf(w, d, i, Shown(k, d))
    BY <2>1, <2>2, <2>4, <2>6, <2>7 DEF TellsOf
  <2> QED
    BY <2>2, <2>6, <2>8
<1> QED
  BY <1>1, <1>2 DEF GoodRead

\* A read that names no device.
LEMMA EmptyRead ==
  ASSUME NEW k, NEW o, o.ok \in BOOLEAN, o.vector \in Seq(Item), o.entries = 0, o.devices = <<>>
  PROVE  GoodRead(k, o)
BY DEF GoodRead, Known, ToSet

\* A read that went well.
LEMMA PlainWrites ==
  ASSUME StaticsInv, NEW k \in Kinds, NEW v \in Seq(Item), NEW s \in Seq(Devices)
  PROVE  WritesAll(k, v, s, Read(v, s, Items(k, s)))
<1>1. PICK n \in Nat : n = Len(s) /\ s \in [1..n -> Devices]
  OBVIOUS
<1> DEFINE items == Items(k, s)
           o == Read(v, s, items)
<1>2. /\ items \in [1..n -> Item]
      /\ \A i \in 1..n : items[i].name = s[i] /\ items[i].moved = Shown(k, s[i])
  BY <1>1, ItemsAre
<1>3. o.ok = TRUE /\ o.vector = Filled(v, items) /\ o.entries = n /\ o.devices = s
  BY <1>1 DEF Read
<1> HIDE DEF items, o
<1>4. /\ o.devices \in [1..n -> Devices \cup {NULL}]
      /\ \A i \in 1..n : o.devices[i] # NULL =>
           o.devices[i] = s[i] /\ items[i].moved = Shown(k, s[i])
  BY <1>1, <1>2, <1>3
<1>5. n <= n /\ n <= n + 1 /\ \A i \in (n + 1)..n, j \in 1..n : items[i].name # s[j]
  OBVIOUS
<1>6. Writes(k, v, n, s, n, items, o)
  <2>1. \A i \in 1..n : items[i].name = s[i] /\ items[i].name # NULL
    BY <1>1, <1>2, StatgrabAssumption
  <2>2. items \in [1..n -> Item] /\ s \in [1..n -> Devices]
    BY <1>1, <1>2
  <2> QED
    BY <1>3, <1>4, <1>5, <2>1, <2>2 DEF Writes
<1>7. WritesAll(k, v, s, o)
  BY <1>1, <1>3, <1>6 DEF WritesAll
<1> QED
  BY <1>7 DEF o, items

LEMMA PlainRead ==
  ASSUME StaticsInv, NEW k \in Kinds, NEW v \in Seq(Item), NEW s \in Seq(Devices)
  PROVE  GoodRead(k, Read(v, s, Items(k, s)))
<1> DEFINE o == Read(v, s, Items(k, s))
<1>1. WritesAll(k, v, s, o)
  BY PlainWrites
<1> HIDE DEF o
<1>2. GoodRead(k, o)
  BY <1>1, WrittenRead DEF WritesAll
<1> QED
  BY <1>2 DEF o

LEMMA CanFailIs == ASSUME NEW S PROVE CanFail(S) \subseteq S
BY DEF CanFail

LEMMA TableIs ==
  ASSUME StaticsInv, NEW k \in Kinds
  PROVE  /\ table[k] \in Seq(Devices)
         /\ Whole(table[k]) \in Seq(Devices) /\ Whole(table[k]) \in Seq(Devices \ Partial)
         /\ Used(table[k]) \in Seq(Devices)
<1>1. table[k] \in Seq(Devices)
  BY DEF StaticsInv
<1>2. Devices \cap (Devices \ Partial) = Devices \ Partial
  OBVIOUS
<1>3. Whole(table[k]) \in Seq(Devices \ Partial)
  BY <1>1, <1>2, KeepIs DEF Whole
<1>4. \A s \in Seq(Devices \ Partial) : s \in Seq(Devices)
  OBVIOUS
<1> DEFINE U == {d \in Devices : moved["disk"][d] > 0}
<1>5. Devices \cap U = U /\ Used(table[k]) = Keep(table[k], U)
  BY DEF Used
<1>6. \A s \in Seq(U) : s \in Seq(Devices)
  OBVIOUS
<1>7. Used(table[k]) \in Seq(U)
  <2> HIDE DEF U
  <2> QED
    BY <1>1, <1>5, KeepIs
<1> QED
  BY <1>1, <1>3, <1>4, <1>6, <1>7

\* A read of the interfaces gets all that have counters, or fails.
NothingRead(v, o) == o.ok = FALSE /\ o.vector = v /\ o.entries = 0 /\ o.devices = <<>>

LEMMA NetworkReadsAre ==
  ASSUME StaticsInv, NEW o \in NetworkReads
  PROVE  \/ NothingRead(network_stats, o)
         \/ WritesAll("net", network_stats, Whole(table["net"]), o)
<1> DEFINE t == table["net"]
           s == Whole(t)
<1>1. t \in Seq(Devices) /\ s \in Seq(Devices) /\ s \in Seq(Devices \ Partial) /\ "net" \in Kinds
  BY TableIs DEF Kinds
<1>2. network_stats \in Seq(Item)
  BY DEF StaticsInv
<1>3. NothingRead(network_stats, Failed(network_stats))
  BY DEF Failed, NothingRead
<1>4. WritesAll("net", network_stats, s, Read(network_stats, s, Items("net", s)))
  BY <1>1, <1>2, PlainWrites
<1>5. CASE platform = "HPUX"
  <2>1. o = [Failed(network_stats) EXCEPT !.read = TRUE]
    BY <1>5 DEF NetworkReads, ALLBSD
  <2> QED
    BY <2>1 DEF Failed, NothingRead
<1>6. CASE platform = "Solaris"
  <2> DEFINE rest == IF t # <<>> /\ Last(t) \in Partial THEN <<Last(t)>> ELSE <<>>
  <2>1. o = Read(network_stats, s, Items("net", s \o rest)) \/ o = Failed(network_stats)
    <3>1. NetworkReads = SolarisNetworkReads
      BY <1>6 DEF NetworkReads, ALLBSD
    <3>2. SolarisNetworkReads = {Read(network_stats, s, Items("net", s \o rest))}
                                  \cup CanFail({Failed(network_stats)})
      BY DEF SolarisNetworkReads
    <3> HIDE DEF s, rest
    <3> QED
      BY <3>1, <3>2, CanFailIs
  <2>2. PICK n \in Nat : n = Len(s) /\ s \in [1..n -> Devices \ Partial]
    BY <1>1
  <2>3. rest \in Seq(Partial) /\ rest \in Seq(Devices)
    <3>1. t # <<>> => Last(t) \in Devices
      BY <1>1 DEF Last
    <3> QED
      BY <3>1
  <2>4. PICK l \in Nat : l = Len(rest) /\ l <= 1
    <3>1. rest = <<>> \/ rest = <<Last(t)>>
      OBVIOUS
    <3> QED
      BY <3>1
  <2> HIDE DEF rest
  <2>5. PICK m \in Nat : m = n + l
    BY <2>2, <2>4
  <2> DEFINE u == s \o rest
             items == Items("net", u)
  <2>6. u \in [1..m -> Devices]
    <3>1. \A i \in 1..m : i \in 1..n \/ i - n \in 1..l
      BY <2>5
    <3>2. \A i \in 1..m : u[i] \in Devices
      BY <1>1, <2>2, <2>3, <2>4, <3>1
    <3>3. u \in Seq(Devices) /\ Len(u) = m
      BY <1>1, <2>2, <2>3, <2>4, <2>5
    <3> HIDE DEF u
    <3> QED
      BY <3>3
  <2>7. \A i \in 1..n : u[i] = s[i] /\ s[i] \in Devices \ Partial
    BY <1>1, <2>2, <2>3
  <2>8. \A i \in (n + 1)..m : u[i] \in Partial
    BY <1>1, <2>2, <2>3, <2>4, <2>5
  <2> HIDE DEF u
  <2>9. /\ items \in [1..m -> Item]
        /\ \A i \in 1..m : items[i].name = u[i] /\ items[i].moved = Shown("net", u[i])
    BY <1>1, <2>6, ItemsAre
  <2> HIDE DEF items
  <2>10. CASE o = Read(network_stats, s, items)
    <3>1. o.ok = TRUE /\ o.vector = Filled(network_stats, items) /\ o.entries = n
          /\ o.devices = s
      BY <2>2, <2>10 DEF Read
    <3>2. n <= m /\ m <= n + 1 /\ \A i \in 1..n : i \in 1..m
      BY <2>4, <2>5
    <3>3. platform = "HPUX" => m = n
      BY <1>6
    <3>8. \A i \in 1..m : items[i].name # NULL
      BY <2>6, <2>9, StatgrabAssumption
    <3>4. \A i \in 1..n : items[i].name = s[i]
      BY <2>7, <2>9, <3>2
    <3>5. \A i \in (n + 1)..m, j \in 1..n : items[i].name # s[j]
      <4>1. \A i \in (n + 1)..m : i \in 1..m
        OBVIOUS
      <4> QED
        BY <2>7, <2>8, <2>9, <4>1
    <3>6. o.devices \in [1..n -> Devices \cup {NULL}] /\ s \in [1..n -> Devices]
      BY <2>2, <3>1
    <3>7. \A i \in 1..n : o.devices[i] # NULL =>
            o.devices[i] = s[i] /\ items[i].moved = Shown("net", s[i])
      BY <2>7, <2>9, <3>1, <3>2
    <3> HIDE DEF s
    <3> QED
      <4>1. "net" \in Kinds /\ n <= m /\ m <= n + 1 /\ items \in [1..m -> Item]
        BY <1>1, <2>9, <3>2
      <4>2. Writes("net", network_stats, n, s, m, items, o)
        BY <1>2, <3>1, <3>3, <3>4, <3>5, <3>6, <3>7, <3>8, <4>1 DEF Writes
      <4>3. WritesAll("net", network_stats, s, o)
        BY <2>2, <2>5, <3>1, <4>2 DEF WritesAll
      <4> QED
        BY <4>3 DEF s
  <2> QED
    BY <1>3, <2>1, <2>10 DEF items, u
<1>7. CASE platform \notin {"HPUX", "Solaris"}
  <2>1. o = Read(network_stats, s, Items("net", s)) \/ o = Failed(network_stats)
    BY <1>7 DEF NetworkReads, BSDNetworkReads, LinuxNetworkReads, CanFail, ALLBSD
  <2> QED
    BY <1>3, <1>4, <2>1
<1> QED
  BY <1>5, <1>6, <1>7

LEMMA NetworkReadsGood ==
  ASSUME StaticsInv, NEW o \in NetworkReads
  PROVE  GoodRead("net", o)
<1>1. network_stats \in Seq(Item) /\ "net" \in Kinds
  BY DEF StaticsInv, Kinds
<1>2. CASE NothingRead(network_stats, o)
  <2>1. o.entries = 0 /\ o.devices = <<>>
    BY <1>2 DEF NothingRead
  <2>2. o.ok \in BOOLEAN /\ o.vector \in Seq(Item)
    BY <1>1, <1>2 DEF NothingRead
  <2> QED
    BY <2>1, <2>2, EmptyRead
<1>3. CASE WritesAll("net", network_stats, Whole(table["net"]), o)
  <2>1. PICK s, v : s = Whole(table["net"]) /\ v = network_stats
    OBVIOUS
  <2>2. PICK n \in Nat, m \in Nat : \E items : Writes("net", v, n, s, m, items, o)
    BY <1>3, <2>1 DEF WritesAll
  <2>3. PICK items : Writes("net", v, n, s, m, items, o)
    BY <2>2
  <2>4. "net" \in Kinds
    BY <1>1
  <2> QED
    BY <2>3, <2>4, WrittenRead
<1> QED
  BY <1>2, <1>3, NetworkReadsAre

\* A read of the disks s writes an item for each of them,
WritesEach(v, s, o) ==
  \E n \in Nat : \E items : n = Len(s) /\ Writes("disk", v, n, s, n, items, o)

\* or answers none, and leaves the vector alone or writes to it for some of them.
AnswersNone(v, s, o) ==
  /\ o.ok \in BOOLEAN /\ o.entries = 0 /\ o.devices = <<>>
  /\ \/ o.vector = v
     \/ \E n \in Nat : \E items :
          /\ n <= Len(s) /\ items \in [1..n -> Item] /\ o.vector = Filled(v, items)
          /\ \A i \in 1..n : items[i].name = s[i]

LEMMA DiskReadsAre ==
  ASSUME StaticsInv, NEW o \in DiskReads
  PROVE  \E s \in {Whole(table["disk"]), Used(table["disk"])} :
           WritesEach(diskio_stats, s, o) \/ AnswersNone(diskio_stats, s, o)
<1> DEFINE t == table["disk"]
           v == diskio_stats
<1>1. Whole(t) \in Seq(Devices) /\ Used(t) \in Seq(Devices) /\ "disk" \in Kinds
  BY TableIs DEF Kinds
<1>2. v \in Seq(Item)
  BY DEF StaticsInv
<1>3. \A s : AnswersNone(v, s, Failed(v))
  BY DEF Failed, AnswersNone
<1>4. ASSUME NEW s \in Seq(Devices)
      PROVE  WritesEach(v, s, Read(v, s, Items("disk", s)))
  <2>1. PICK n \in Nat : n = Len(s) /\ s \in [1..n -> Devices]
    OBVIOUS
  <2> DEFINE items == Items("disk", s)
             r == Read(v, s, items)
  <2>2. /\ items \in [1..n -> Item]
        /\ \A i \in 1..n : items[i].name = s[i] /\ items[i].moved = Shown("disk", s[i])
    BY <1>1, <2>1, ItemsAre
  <2>3. r.ok = TRUE /\ r.vector = Filled(v, items) /\ r.entries = n /\ r.devices = s
    BY <2>1 DEF Read
  <2> HIDE DEF items, r
  <2>4. /\ r.devices \in [1..n -> Devices \cup {NULL}]
        /\ \A i \in 1..n : r.devices[i] # NULL =>
             r.devices[i] = s[i] /\ items[i].moved = Shown("disk", s[i])
    BY <2>1, <2>2, <2>3
  <2>5. n <= n /\ n <= n + 1 /\ \A i \in (n + 1)..n, j \in 1..n : items[i].name # s[j]
    OBVIOUS
  <2>6. \A i \in 1..n : items[i].name = s[i] /\ items[i].name # NULL
    BY <2>1, <2>2, StatgrabAssumption
  <2>7. Writes("disk", v, n, s, n, items, r)
    <3>1. items \in [1..n -> Item] /\ s \in [1..n -> Devices] /\ r.ok \in BOOLEAN
      BY <2>1, <2>2, <2>3
    <3> QED
      BY <1>2, <2>3, <2>4, <2>5, <2>6, <3>1 DEF Writes
  <2>8. WritesEach(v, s, r)
    BY <2>1, <2>7 DEF WritesEach
  <2> QED
    BY <2>8 DEF r, items
<1>5. CASE platform \in {"Linux", "Linux24"}
  <2> DEFINE s == Whole(t)
             unopened == [Failed(v) EXCEPT !.ok = TRUE]
             zeroed == [i \in DOMAIN s |-> [name |-> s[i], moved |-> 0]]
  <2>1. \/ o = Read(v, s, Items("disk", s))
        \/ o = unopened
        \/ o = [unopened EXCEPT !.vector = Filled(@, zeroed)]
    BY <1>5 DEF DiskReads, LinuxDiskReads, CanFail
  <2>2. CASE o = unopened
    <3>1. o.ok = TRUE /\ o.vector = v /\ o.entries = 0 /\ o.devices = <<>>
      BY <2>2 DEF Failed
    <3>2. AnswersNone(v, s, o)
      BY <3>1 DEF AnswersNone
    <3> QED
      BY <3>2
  <2>3. CASE o = [unopened EXCEPT !.vector = Filled(@, zeroed)]
    <3>1. o.ok = TRUE /\ o.vector = Filled(v, zeroed) /\ o.entries = 0 /\ o.devices = <<>>
      <4> HIDE DEF zeroed
      <4> QED
        BY <2>3 DEF Failed
    <3>2. PICK n \in Nat : n = Len(s) /\ s \in [1..n -> Devices] /\ DOMAIN s = 1..n
      BY <1>1
    <3>3. zeroed \in [1..n -> Item] /\ \A i \in 1..n : zeroed[i].name = s[i]
      BY <3>2 DEF Item
    <3> HIDE DEF zeroed, s
    <3>4. AnswersNone(v, s, o)
      <4>1. n <= Len(s)
        BY <3>2
      <4>2. o.ok \in BOOLEAN
        BY <3>1
      <4> QED
        BY <3>1, <3>3, <4>1, <4>2 DEF AnswersNone
    <3> QED
      BY <3>4 DEF s
  <2> QED
    BY <1>1, <1>4, <2>1, <2>2, <2>3
<1>6. CASE platform = "HPUX"
  <2> DEFINE s == Used(t)
             items == Items("disk", s)
  <2>1. \/ o = Read(v, s, items)
        \/ \E n \in 0..Len(s) : o = [Failed(v) EXCEPT !.vector = Filled(@, SubSeq(items, 1, n))]
    BY <1>6 DEF DiskReads, HPUXDiskReads, CanFail
  <2>2. ASSUME NEW n \in 0..Len(s), o = [Failed(v) EXCEPT !.vector = Filled(@, SubSeq(items, 1, n))]
        PROVE  AnswersNone(v, s, o)
    <3> DEFINE z == SubSeq(items, 1, n)
    <3>1. o.ok = FALSE /\ o.vector = Filled(v, z) /\ o.entries = 0 /\ o.devices = <<>>
      <4> HIDE DEF z
      <4>1. o = [Failed(v) EXCEPT !.vector = Filled(@, z)]
        BY <2>2 DEF z
      <4> QED
        BY <4>1 DEF Failed
    <3>2. PICK l \in Nat : l = Len(s) /\ s \in [1..l -> Devices]
      BY <1>1
    <3>3. items \in [1..l -> Item] /\ \A i \in 1..l : items[i].name = s[i]
      BY <1>1, <3>2, ItemsAre
    <3> HIDE DEF items
    <3>4. n \in Nat /\ n <= l /\ items \in Seq(Item) /\ Len(items) = l
      BY <3>2, <3>3
    <3>5. z \in Seq(Item) /\ Len(z) = n /\ \A i \in 1..n : z[i] = items[i] /\ i \in 1..l
      BY <3>4
    <3> HIDE DEF z
    <3>6. z \in [1..n -> Item] /\ \A i \in 1..n : z[i].name = s[i]
      BY <3>3, <3>4, <3>5
    <3> HIDE DEF s
    <3> QED
      BY <3>1, <3>2, <3>4, <3>6 DEF AnswersNone
  <2> QED
    BY <1>1, <1>4, <2>1, <2>2
<1>7. CASE platform = "Solaris"
  <2> DEFINE s == Whole(t)
             items == Items("disk", s)
             wrong(i, junk) ==
               [items EXCEPT ![i].moved = IF i = 1 THEN junk ELSE items[i - 1].moved]
             unread(i, junk) ==
               [Read(v, s, wrong(i, junk)) EXCEPT !.read = FALSE, !.devices[i] = NULL]
  <2>1. \/ o = Read(v, s, items) \/ o = Failed(v)
        \/ \E i \in DOMAIN s, junk \in {0, 1} : o = unread(i, junk)
    <3> DEFINE U == {unread(i, junk) : i \in DOMAIN s, junk \in {0, 1}}
    <3>1. DiskReads = SolarisDiskReads
      BY <1>7 DEF DiskReads
    <3>2. SolarisDiskReads = {Read(v, s, items)} \cup CanFail({Failed(v)} \cup U)
      BY DEF SolarisDiskReads
    <3>3. o = Read(v, s, items) \/ o = Failed(v) \/ o \in U
      <4> HIDE DEF U
      <4> QED
        BY <3>1, <3>2, CanFailIs
    <3>4. ASSUME o \in U
          PROVE  \E i \in DOMAIN s, junk \in {0, 1} : o = unread(i, junk)
      <4> HIDE DEF unread
      <4> QED
        BY <3>4
    <3> HIDE DEF U, unread
    <3> QED
      BY <3>3, <3>4, Zenon
  <2>2. PICK n \in Nat : n = Len(s) /\ s \in [1..n -> Devices]
    BY <1>1
  <2>3. /\ items \in [1..n -> Item]
        /\ \A i \in 1..n : items[i].name = s[i] /\ items[i].moved = Shown("disk", s[i])
    BY <1>1, <2>2, ItemsAre
  <2> HIDE DEF items
  <2>4. ASSUME NEW i \in DOMAIN s, NEW junk \in {0, 1},
               o = unread(i, junk)
        PROVE  WritesEach(v, s, o)
    <3>1. i \in 1..n
      BY <2>2
    <3> DEFINE w == wrong(i, junk)
    <3>2. w \in [1..n -> Item] /\ \A j \in 1..n : w[j].name = s[j]
          /\ \A l \in 1..n : l # i => w[l] = items[l]
      <4>1. PICK x \in Nat : x = IF i = 1 THEN junk ELSE items[i - 1].moved
        <5>1. i # 1 => items[i - 1] \in Item
          BY <2>3, <3>1
        <5> QED
          BY <5>1 DEF Item
      <4>2. w = [items EXCEPT ![i].moved = x]
        BY <4>1
      <4>3. \A j \in 1..n : w[j] = IF j = i THEN [items[j] EXCEPT !.moved = x] ELSE items[j]
        BY <2>3, <3>1, <4>2
      <4>4. \A j \in 1..n : items[j] \in Item /\ [items[j] EXCEPT !.moved = x] \in Item
                            /\ [items[j] EXCEPT !.moved = x].name = items[j].name
        BY <2>3 DEF Item
      <4>5. w = [j \in 1..n |-> w[j]]
        BY <2>3, <4>2
      <4> HIDE DEF w
      <4> QED
        BY <2>3, <4>3, <4>4, <4>5
    <3>3. o.ok = TRUE /\ o.vector = Filled(v, w) /\ o.entries = n
          /\ o.devices = [s EXCEPT ![i] = NULL]
      BY <2>2, <2>4 DEF Read
    <3> HIDE DEF w
    <3>4. o.devices \in [1..n -> Devices \cup {NULL}] /\ o.devices[i] = NULL
          /\ \A j \in 1..n : j # i => o.devices[j] = s[j]
      BY <2>2, <3>1, <3>3
    <3>5. \A j \in 1..n : o.devices[j] # NULL =>
            o.devices[j] = s[j] /\ w[j].moved = Shown("disk", s[j])
      BY <2>3, <3>2, <3>4
    <3>6. n <= n /\ n <= n + 1 /\ \A j \in (n + 1)..n, l \in 1..n : w[j].name # s[l]
      OBVIOUS
    <3>8. \A j \in 1..n : w[j].name # NULL
      BY <2>2, <3>2, StatgrabAssumption
    <3>7. o.ok \in BOOLEAN
      BY <3>3
    <3> HIDE DEF s
    <3> QED
      <4>1. "disk" \in Kinds /\ w \in [1..n -> Item] /\ s \in [1..n -> Devices]
        BY <1>1, <2>2, <3>2
      <4>2. \A j \in 1..n : w[j].name = s[j]
        BY <3>2
      <4>3. o.vector = Filled(v, w) /\ o.entries = n
        BY <3>3
      <4>4. Writes("disk", v, n, s, n, w, o)
        <5>1. v \in Seq(Item) /\ s \in [1..n -> Devices] /\ w \in [1..n -> Item]
          BY <1>2, <4>1
        <5>2. /\ o.devices \in [1..n -> Devices \cup {NULL}]
              /\ \A j \in 1..n : o.devices[j] # NULL =>
                   o.devices[j] = s[j] /\ w[j].moved = Shown("disk", s[j])
          BY <3>4, <3>5
        <5> QED
          BY <3>6, <3>7, <3>8, <4>2, <4>3, <5>1, <5>2 DEF Writes
      <4> QED
        BY <2>2, <4>4 DEF WritesEach, s
  <2> QED
    BY <1>1, <1>3, <1>4, <2>1, <2>4 DEF items
<1>8. CASE platform \notin {"Linux", "Linux24", "HPUX", "Solaris"}
  <2>1. o = Read(v, Used(t), Items("disk", Used(t))) \/ o = Failed(v)
    BY <1>8 DEF DiskReads, BSDDiskReads, CanFail
  <2> QED
    BY <1>1, <1>3, <1>4, <2>1
<1> QED
  BY <1>5, <1>6, <1>7, <1>8

LEMMA DiskReadsGood ==
  ASSUME StaticsInv, NEW o \in DiskReads
  PROVE  GoodRead("disk", o)
<1>1. PICK s \in {Whole(table["disk"]), Used(table["disk"])} :
        WritesEach(diskio_stats, s, o) \/ AnswersNone(diskio_stats, s, o)
  BY DiskReadsAre
<1>2. PICK v : v = diskio_stats /\ v \in Seq(Item)
  BY DEF StaticsInv
<1>3. CASE WritesEach(diskio_stats, s, o)
  <2>1. PICK n \in Nat : \E items : Writes("disk", v, n, s, n, items, o)
    BY <1>2, <1>3 DEF WritesEach
  <2>2. PICK items : Writes("disk", v, n, s, n, items, o)
    BY <2>1
  <2>3. "disk" \in Kinds
    BY DEF Kinds
  <2> QED
    BY <2>2, <2>3, WrittenRead
<1>4. CASE AnswersNone(diskio_stats, s, o)
  <2>1. o.vector \in Seq(Item)
    BY <1>2, <1>4, FilledIs DEF AnswersNone
  <2> QED
    BY <1>4, <2>1, EmptyRead DEF AnswersNone
<1> QED
  BY <1>1, <1>3, <1>4

-----------------------------------------------------------------------------
(* The differences of devices *)

\* With the counters m of platform p: what is told of a device is what it moved, and
\* its last count is in vector v.
TellsGrowth(p, m, k, v, t, d) ==
  /\ d \in Devices
  /\ t[d].grown \in Int /\ t[d].sum = t[d].grown
  /\ t[d].at \in Nat /\ t[d].at <= m[d]
  /\ \E i \in 1..Len(v) : TellsOf(v, d, i, ShownAt(p, k, t[d].at))

Located(p, m, k, v, t) == \A d \in DOMAIN t : TellsGrowth(p, m, k, v, t, d)

DiffInv ==
  /\ StaticsInv
  /\ Kinds \subseteq DOMAIN told
  /\ Located(platform, moved["net"], "net", network_stats, told["net"])
  /\ Located(platform, moved["disk"], "disk", diskio_stats, told["disk"])

\* The difference of what is shown is what the counter grew, as far as it is shown.
LEMMA SubtractIsGrowth ==
  ASSUME NEW k \in Kinds, NEW x \in Nat, NEW y \in Nat, x <= y
  PROVE  /\ Growth(k, y - x) \in Int
         /\ Subtract(k, ShownAt(platform, k, y), ShownAt(platform, k, x)) = Growth(k, y - x)
<1>1. MAXVAL \in Nat \ {0}
  BY StatgrabAssumption
<1>2. CASE k = "net" /\ platform \in Narrow
  <2>1. PICK m \in Int : m = (y - x) % MAXVAL
    BY <1>1
  <2>2. PICK a \in Int, b \in Int : a = y % MAXVAL /\ b = x % MAXVAL
    BY <1>1
  <2>3. m = IF a >= b THEN a - b ELSE MAXVAL + a - b
    BY <1>1, <2>1, <2>2, TurnedDifference
  <2>4. Growth(k, y - x) = m
    BY <1>2, <2>1 DEF Growth
  <2>5. ShownAt(platform, k, y) = a /\ ShownAt(platform, k, x) = b
    BY <1>2, <2>2 DEF ShownAt
  <2>6. Subtract(k, a, b) = m
    BY <1>2, <2>3 DEF Subtract, transfer_diff
  <2> QED
    BY <2>4, <2>5, <2>6
<1>3. CASE ~ (k = "net" /\ platform \in Narrow)
  <2>1. Growth(k, y - x) = y - x /\ ShownAt(platform, k, y) = y /\ ShownAt(platform, k, x) = x
    BY <1>3 DEF Growth, ShownAt
  <2>2. Subtract(k, y, x) = y - x
    BY <1>3 DEF Subtract, transfer_diff
  <2> QED
    BY <2>1, <2>2
<1> QED
  BY <1>2, <1>3

\* What the differences a say of the first item named d.
AnswerFor(a, d) == a[CHOOSE h \in DOMAIN a : a[h].name = d].moved

\* The difference answered for a device that both samples show once.
LEMMA DifferenceIs ==
  ASSUME NEW k, NEW prev \in Seq(Item), NEW v \in Seq(Item),
         NEW e \in Nat, e <= Len(v), NEW d,
         NEW i \in 1..Len(prev), NEW x, TellsOf(prev, d, i, x),
         NEW m \in 1..e, NEW y, TellsOf(v, d, m, y)
  PROVE  AnswerFor(Differences(k, prev, SubSeq(v, 1, e)), d) = Subtract(k, y, x)
<1>1. PICK n \in Nat : n = Len(prev) /\ prev \in [1..n -> Item]
  OBVIOUS
<1> DEFINE new == SubSeq(v, 1, e)
           f(h) == LET q == Match(prev[h].name, h, new)
                   IN IF q = 0 THEN prev[h]
                      ELSE [prev[h] EXCEPT !.moved = Subtract(k, new[q].moved, @)]
           a == Differences(k, prev, new)
<1>2. Len(new) = e /\ \A h \in 1..e : new[h] = v[h] /\ h \in 1..Len(v)
  OBVIOUS
<1> HIDE DEF new
<1>3. \A h \in 1..e : new[h].name = d <=> h = m
  BY <1>2 DEF TellsOf
<1>4. i \in 1..n /\ i \in Nat \ {0}
  BY <1>1
<1>5. Match(d, i, new) = m
  BY <1>2, <1>3, <1>4, MatchFinds
<1>6. DOMAIN a = 1..n /\ \A h \in 1..n : a[h] = f(h)
  BY <1>1 DEF Differences
<1> HIDE DEF a
<1>7. \A h \in 1..n : prev[h] \in Item
  BY <1>1
<1>8. \A h \in 1..n : f(h).name = prev[h].name
  BY <1>7 DEF Item
<1>9. \A h \in 1..n : a[h].name = d <=> h = i
  BY <1>1, <1>6, <1>8 DEF TellsOf
<1>10. (CHOOSE h \in DOMAIN a : a[h].name = d) = i
  BY <1>4, <1>6, <1>9
<1>11. f(i).moved = Subtract(k, y, x)
  <2>1. prev[i].name = d /\ prev[i].moved = x
    BY DEF TellsOf
  <2>2. new[m].moved = y
    BY <1>2 DEF TellsOf
  <2>3. m # 0 /\ prev[i] \in Item
    BY <1>4, <1>7
  <2> QED
    BY <1>5, <2>1, <2>2, <2>3 DEF Item
<1>12. a[i].moved = Subtract(k, y, x)
  BY <1>4, <1>6, <1>11
<1>13. AnswerFor(a, d) = Subtract(k, y, x)
  BY <1>10, <1>12 DEF AnswerFor
<1> QED
  BY <1>13 DEF a, new

\* What an answer adds to what was told, or starts afresh, is again what was moved.
LEMMA ToldDevicesTell ==
  ASSUME StaticsInv, NEW k \in Kinds, NEW prev \in Seq(Item), NEW t, Located(platform, moved[k], k, prev, t),
         NEW o, GoodRead(k, o), NEW a,
         \A d \in DOMAIN t :
           o.ok => a = Differences(k, prev, SubSeq(o.vector, 1, o.entries))
  PROVE  Located(platform, moved[k], k, o.vector, ToldDevices(k, t, prev, o, a))
<1>1. o.ok \in BOOLEAN /\ o.vector \in Seq(Item) /\ o.entries \in Nat
  BY DEF GoodRead
<1>2. CASE ~ o.ok
  <2>1. CASE o.vector = prev
    BY <1>2, <2>1 DEF ToldDevices
  <2>2. CASE o.vector # prev
    <3>1. ToldDevices(k, t, prev, o, a) = <<>>
      BY <1>2, <2>2 DEF ToldDevices
    <3>2. DOMAIN <<>> = {}
      OBVIOUS
    <3> QED
      BY <3>1, <3>2 DEF Located
  <2> QED
    BY <2>1, <2>2
<1>3. CASE o.ok
  <2> DEFINE now(d) == moved[k][d]
             j(d) == CHOOSE h \in DOMAIN a : a[h].name = d
             more(d) == [sum |-> t[d].sum + a[j(d)].moved,
                         grown |-> t[d].grown + Growth(k, now(d) - t[d].at),
                         at |-> now(d)]
             u == [d \in Known(o) |->
                     IF d \in DOMAIN t THEN more(d)
                     ELSE [sum |-> 0, grown |-> 0, at |-> now(d)]]
  <2>1. ToldDevices(k, t, prev, o, a) = u
    BY <1>3 DEF ToldDevices
  <2>2. ASSUME NEW d \in Known(o)
        PROVE  TellsGrowth(platform, moved[k], k, o.vector, u, d)
    <3>1. d \in Devices /\ o.entries <= Len(o.vector)
      BY <1>3, <2>2 DEF GoodRead
    <3>2. PICK m \in 1..o.entries : TellsOf(o.vector, d, m, Shown(k, d))
      BY <1>3, <2>2 DEF GoodRead
    <3>3. now(d) \in Nat /\ Shown(k, d) = ShownAt(platform, k, now(d))
      BY <3>1, ShownIs
    <3>4. /\ u[d].at = now(d) /\ u[d].grown \in Int /\ u[d].sum = u[d].grown
      <4>1. CASE d \notin DOMAIN t
        <5>1. u[d] = [sum |-> 0, grown |-> 0, at |-> now(d)]
          BY <2>2, <4>1
        <5> HIDE DEF u
        <5> QED
          BY <5>1
      <4>2. CASE d \in DOMAIN t
        <5>1. TellsGrowth(platform, moved[k], k, prev, t, d)
          BY <4>2 DEF Located
        <5>2. t[d].grown \in Int /\ t[d].sum = t[d].grown /\ t[d].at \in Nat /\ t[d].at <= now(d)
          BY <5>1 DEF TellsGrowth
        <5>3. PICK h \in 1..Len(prev) : TellsOf(prev, d, h, ShownAt(platform, k, t[d].at))
          BY <5>1 DEF TellsGrowth
        <5>4. a = Differences(k, prev, SubSeq(o.vector, 1, o.entries))
          BY <1>3, <4>2
        <5>5. AnswerFor(a, d) = Subtract(k, Shown(k, d), ShownAt(platform, k, t[d].at))
          BY <1>1, <3>1, <3>2, <5>3, <5>4, DifferenceIs
        <5> HIDE DEF u
        <5>6. /\ Growth(k, now(d) - t[d].at) \in Int
              /\ AnswerFor(a, d) = Growth(k, now(d) - t[d].at)
          BY <3>3, <5>2, <5>5, SubtractIsGrowth
        <5>7. u[d] = more(d)
          BY <2>2, <4>2 DEF u
        <5>8. a[j(d)].moved = AnswerFor(a, d)
          BY DEF AnswerFor
        <5> HIDE DEF j
        <5> QED
          BY <5>2, <5>6, <5>7, <5>8
      <4> QED
        BY <4>1, <4>2
    <3> HIDE DEF u
    <3> QED
      BY <1>1, <3>1, <3>2, <3>3, <3>4 DEF TellsGrowth
  <2>3. DOMAIN u = Known(o)
    OBVIOUS
  <2> HIDE DEF u
  <2> QED
    BY <2>1, <2>2, <2>3 DEF Located
<1> QED
  BY <1>1, <1>2, <1>3

LEMMA SampledDevices ==
  ASSUME StaticsInv, NEW k \in Kinds, NEW prev \in Seq(Item), NEW o, GoodRead(k, o)
  PROVE  Located(platform, moved[k], k, o.vector, ToldDevices(k, <<>>, prev, o, <<>>))
<1>1. DOMAIN <<>> = {}
  OBVIOUS
<1>2. Located(platform, moved[k], k, prev, <<>>)
  BY <1>1 DEF Located
<1> QED
  BY <1>1, <1>2, ToldDevicesTell

LEMMA DifferencedDevices ==
  ASSUME StaticsInv, NEW k \in Kinds, NEW prev \in Seq(Item), NEW t, Located(platform, moved[k], k, prev, t),
         NEW o, GoodRead(k, o)
  PROVE  Located(platform, moved[k], k, o.vector, ToldDevices(k, t, prev, o, SampleDiff(k, prev, o).stats))
<1> DEFINE D == Differences(k, prev, SubSeq(o.vector, 1, o.entries))
<1>1. ASSUME NEW d \in DOMAIN t, o.ok
      PROVE  SampleDiff(k, prev, o).stats = D
  <2>1. prev # <<>>
    BY DEF Located, TellsGrowth
  <2>2. SampleDiff(k, prev, o) = Return(D)
    BY <1>1, <2>1 DEF SampleDiff
  <2> HIDE DEF D
  <2> QED
    BY <2>2 DEF Return
<1> QED
  BY <1>1, ToldDevicesTell

-----------------------------------------------------------------------------
(* The invariant of the devices *)

LEMMA DiffInit == Init => DiffInv
<1> SUFFICES ASSUME Init PROVE DiffInv
  OBVIOUS
<1>1. table \in [Kinds -> Seq(Devices)]
  BY StatgrabAssumption DEF Init
<1>2. moved \in [Kinds -> [Devices -> Nat]]
  BY DEF Init, Zero
<1>3. network_stats = <<>> /\ diskio_stats = <<>> /\ <<>> \in Seq(Item)
  BY DEF Init
<1>4. DOMAIN told = {"cpu", "page", "net", "disk"} /\ told["net"] = <<>> /\ told["disk"] = <<>>
  BY DEF Init
<1>5. DOMAIN <<>> = {}
  OBVIOUS
<1>6. StaticsInv
  BY <1>1, <1>2, <1>3 DEF StaticsInv
<1>7. Kinds \subseteq DOMAIN told
  BY <1>4 DEF Kinds
<1>8. Located(platform, moved["net"], "net", network_stats, told["net"]) /\ Located(platform, moved["disk"], "disk", diskio_stats, told["disk"])
  BY <1>4, <1>5 DEF Located
<1> QED
  BY <1>6, <1>7, <1>8 DEF DiffInv

\* Counts that did not go down, in a vector that stays, tell what they told.
LEMMA LocatedStays ==
  ASSUME NEW p, NEW k, NEW v, NEW m \in [Devices -> Nat], NEW t, Located(p, m, k, v, t),
         NEW n \in [Devices -> Nat], NEW u, DOMAIN u \subseteq DOMAIN t,
         \A d \in DOMAIN u : u[d] = t[d] /\ m[d] <= n[d]
  PROVE  Located(p, n, k, v, u)
<1>1. ASSUME NEW d \in DOMAIN u PROVE TellsGrowth(p, n, k, v, u, d)
  <2>1. TellsGrowth(p, m, k, v, t, d) /\ u[d] = t[d] /\ m[d] <= n[d]
    BY <1>1 DEF Located
  <2>2. d \in Devices /\ m[d] \in Nat /\ n[d] \in Nat /\ t[d].at <= m[d] /\ t[d].at \in Nat
    BY <2>1 DEF TellsGrowth
  <2>3. t[d].at <= n[d]
    BY <2>1, <2>2
  <2> QED
    BY <2>1, <2>3 DEF TellsGrowth
<1> QED
  BY <1>1 DEF Located

LEMMA LocatedInBoth ==
  ASSUME DiffInv, NEW k \in Kinds
  PROVE  /\ moved[k] \in [Devices -> Nat] /\ table[k] \in Seq(Devices)
         /\ \A d \in ToSet(table[k]) : d \in Devices
<1>1. moved[k] \in [Devices -> Nat] /\ table[k] \in Seq(Devices)
  BY DEF DiffInv, StaticsInv
<1> QED
  BY <1>1 DEF ToSet

\* The kernel's steps leave its tables what they are.
LEMMA KernelStatics ==
  ASSUME StaticsInv, Kernel
  PROVE  StaticsInv' /\ platform' = platform
<1> USE DEF StaticsInv
<1>1. ASSUME NEW f \in CpuFields, Tick(f) PROVE StaticsInv' /\ platform' = platform
  BY <1>1 DEF Tick, Change, statics
<1>2. ASSUME NEW f \in PageFields, Page(f) PROVE StaticsInv' /\ platform' = platform
  BY <1>2 DEF Page, Change, statics
<1>3. ASSUME NEW k \in Kinds, NEW d \in Devices, NEW n \in Bursts, Move(k, d, n)
      PROVE  StaticsInv' /\ platform' = platform
  <2>1. /\ moved' = [moved EXCEPT ![k][d] = moved[k][d] + n] /\ n \in Nat
        /\ UNCHANGED <<platform, table, network_stats, diskio_stats>>
    BY <1>3, StatgrabAssumption DEF Move, Change, statics
  <2>2. moved[k][d] + n \in Nat
    BY <2>1
  <2>3. moved' \in [Kinds -> [Devices -> Nat]]
    BY <2>1, <2>2
  <2> QED
    BY <2>1, <2>3
<1>4. ASSUME NEW k \in Kinds, NEW d \in Devices, Unplug(k, d)
      PROVE  StaticsInv' /\ platform' = platform
  <2>1. /\ table' = [table EXCEPT ![k] = Keep(table[k], Devices \ {d})]
        /\ UNCHANGED <<platform, moved, network_stats, diskio_stats>>
    BY <1>4 DEF Unplug, Change, statics
  <2>2. table[k] \in Seq(Devices) /\ Devices \cap (Devices \ {d}) = Devices \ {d}
    OBVIOUS
  <2>3. Keep(table[k], Devices \ {d}) \in Seq(Devices \ {d})
    BY <2>2, KeepIs
  <2>4. \A s \in Seq(Devices \ {d}) : s \in Seq(Devices)
    OBVIOUS
  <2>5. table' \in [Kinds -> Seq(Devices)]
    BY <2>1, <2>3, <2>4
  <2> QED
    BY <2>1, <2>5
<1>5. ASSUME NEW k \in Kinds, NEW d \in Devices, Plug(k, d)
      PROVE  StaticsInv' /\ platform' = platform
  <2>1. /\ table' = [table EXCEPT ![k] = Append(table[k], d)]
        /\ moved' = [moved EXCEPT ![k][d] = 0]
        /\ UNCHANGED <<platform, network_stats, diskio_stats>>
    BY <1>5 DEF Plug, Change, statics
  <2>2. table' \in [Kinds -> Seq(Devices)] /\ moved' \in [Kinds -> [Devices -> Nat]]
    BY <2>1
  <2> QED
    BY <2>1, <2>2
<1> QED
  BY <1>1, <1>2, <1>3, <1>4, <1>5 DEF Kernel, Ticking, Paging, DeviceChange

\* The kernel moves bytes, and takes and gives devices.
LEMMA DiffKernel ==
  ASSUME DiffInv, Kernel
  PROVE  DiffInv'
<1>1. ASSUME NEW f \in CpuFields, Tick(f) PROVE DiffInv'
  BY <1>1 DEF Tick, Change, DiffInv, StaticsInv, statics
<1>2. ASSUME NEW f \in PageFields, Page(f) PROVE DiffInv'
  BY <1>2 DEF Page, Change, DiffInv, StaticsInv, statics
<1>3. ASSUME NEW k \in Kinds, NEW d \in Devices, NEW n \in Bursts, Move(k, d, n)
      PROVE  DiffInv'
  <2>1. /\ moved' = [moved EXCEPT ![k][d] = moved[k][d] + n] /\ n \in Nat
        /\ UNCHANGED <<platform, table, network_stats, diskio_stats, told>>
    BY <1>3, StatgrabAssumption DEF Move, Change, statics
  <2>2. moved \in [Kinds -> [Devices -> Nat]] /\ moved[k][d] + n \in Nat
    BY <2>1 DEF DiffInv, StaticsInv
  <2>3. /\ moved' \in [Kinds -> [Devices -> Nat]]
        /\ \A h \in Kinds, x \in Devices : moved[h][x] <= moved'[h][x]
    <3>1. \A h \in Kinds, x \in Devices :
            moved'[h][x] = IF h = k /\ x = d THEN moved[k][d] + n ELSE moved[h][x]
      BY <2>1, <2>2
    <3>2. moved' \in [Kinds -> [Devices -> Nat]]
      BY <2>1, <2>2
    <3> QED
      BY <2>1, <2>2, <3>1, <3>2
  <2>4. StaticsInv' /\ Kinds \subseteq DOMAIN told'
    BY <2>1, <2>3 DEF DiffInv, StaticsInv
  <2>5. ASSUME NEW h \in Kinds, NEW v, NEW t, Located(platform, moved[h], h, v, t)
        PROVE  Located(platform, moved'[h], h, v, t)
    <3>1. \A x \in DOMAIN t : x \in Devices
      BY <2>5 DEF Located, TellsGrowth
    <3>2. moved[h] \in [Devices -> Nat] /\ moved'[h] \in [Devices -> Nat]
      BY <2>2, <2>3
    <3> QED
      BY <2>3, <2>5, <3>1, <3>2, LocatedStays
  <2> QED
    BY <2>1, <2>4, <2>5 DEF DiffInv, Kinds
<1>4. ASSUME NEW k \in Kinds, NEW d \in Devices, Unplug(k, d) PROVE DiffInv'
  <2>1. /\ table' = [table EXCEPT ![k] = Keep(table[k], Devices \ {d})]
        /\ UNCHANGED <<platform, moved, network_stats, diskio_stats, told>>
    BY <1>4 DEF Unplug, Change, statics
  <2>2. StaticsInv'
    BY <1>4, KernelStatics DEF DiffInv, Kernel, DeviceChange
  <2> QED
    BY <2>1, <2>2 DEF DiffInv
<1>5. ASSUME NEW k \in Kinds, NEW d \in Devices, Plug(k, d) PROVE DiffInv'
  <2>1. /\ table' = [table EXCEPT ![k] = Append(table[k], d)]
        /\ moved' = [moved EXCEPT ![k][d] = 0]
        /\ told' = [told EXCEPT ![k] = [x \in DOMAIN told[k] \ {d} |-> told[k][x]]]
        /\ UNCHANGED <<platform, network_stats, diskio_stats>>
    BY <1>5 DEF Plug, Change, statics
  <2>2. table \in [Kinds -> Seq(Devices)] /\ moved \in [Kinds -> [Devices -> Nat]]
        /\ Kinds \subseteq DOMAIN told
    BY DEF DiffInv, StaticsInv
  <2>3. table' \in [Kinds -> Seq(Devices)]
    BY <2>1, <2>2
  <2>4. moved' \in [Kinds -> [Devices -> Nat]]
    BY <2>1, <2>2
  <2>5. \A h \in Kinds : \A x \in Devices : h # k \/ x # d => moved'[h][x] = moved[h][x]
    BY <2>1, <2>2
  <2>6. /\ DOMAIN told' = DOMAIN told
        /\ \A h \in Kinds : h # k => told'[h] = told[h]
        /\ told'[k] = [x \in DOMAIN told[k] \ {d} |-> told[k][x]]
    BY <2>1, <2>2
  <2>7. ASSUME NEW h \in Kinds, NEW v, Located(platform, moved[h], h, v, told[h])
        PROVE  Located(platform, moved'[h], h, v, told'[h])
    <3>1. moved[h] \in [Devices -> Nat] /\ moved'[h] \in [Devices -> Nat]
      BY <2>2, <2>4
    <3>2. \A x \in DOMAIN told[h] : x \in Devices
      BY <2>7 DEF Located, TellsGrowth
    <3>3. DOMAIN told'[h] \subseteq DOMAIN told[h]
          /\ \A x \in DOMAIN told'[h] : told'[h][x] = told[h][x] /\ (h # k \/ x # d)
      <4>1. CASE h = k
        BY <2>6, <4>1
      <4>2. CASE h # k
        BY <2>6, <4>2
      <4> QED
        BY <4>1, <4>2
    <3>4. \A x \in DOMAIN told'[h] : moved[h][x] <= moved'[h][x]
      <4>1. \A x \in DOMAIN told'[h] : x \in Devices
        BY <3>2, <3>3
      <4>2. \A x \in DOMAIN told'[h] : moved'[h][x] = moved[h][x] /\ moved[h][x] \in Nat
        BY <2>5, <3>1, <3>3, <4>1
      <4> QED
        BY <4>2
    <3> QED
      BY <2>7, <3>1, <3>3, <3>4, LocatedStays
  <2>8. StaticsInv'
    BY <2>1, <2>3, <2>4 DEF DiffInv, StaticsInv
  <2> QED
    BY <2>1, <2>2, <2>6, <2>7, <2>8 DEF DiffInv, Kinds
<1> QED
  BY <1>1, <1>2, <1>3, <1>4, <1>5 DEF Kernel, Ticking, Paging, DeviceChange

LEMMA NetworkKeeps ==
  ASSUME DiffInv, NetworkCalls
  PROVE  DiffInv'
<1>1. /\ StaticsInv /\ Kinds \subseteq DOMAIN told /\ network_stats \in Seq(Item)
      /\ "net" \in Kinds /\ "disk" \in Kinds
      /\ Located(platform, moved["net"], "net", network_stats, told["net"])
      /\ Located(platform, moved["disk"], "disk", diskio_stats, told["disk"])
  BY DEF DiffInv, StaticsInv, Kinds
<1>2. ASSUME NEW o \in NetworkReads, NEW t, network_stats' = o.vector,
             told' = [told EXCEPT !["net"] = t],
             Located(platform, moved["net"], "net", o.vector, t),
             UNCHANGED <<kernel, diskio_stats>>
      PROVE  DiffInv'
  <2>1. o.vector \in Seq(Item)
    BY <1>1, <1>2, NetworkReadsGood DEF GoodRead
  <2>2. UNCHANGED <<platform, table, moved, diskio_stats>>
    BY <1>2 DEF kernel
  <2>3. StaticsInv'
    BY <1>1, <1>2, <2>1, <2>2 DEF StaticsInv
  <2>4. told'["net"] = t /\ told'["disk"] = told["disk"] /\ DOMAIN told' = DOMAIN told
    BY <1>1, <1>2
  <2> QED
    BY <1>1, <1>2, <2>2, <2>3, <2>4 DEF DiffInv
<1>3. CASE sg_get_network_io_stats
  <2>1. PICK o \in NetworkReads :
          /\ network_stats' = o.vector
          /\ told' = [told EXCEPT !["net"] = ToldDevices("net", <<>>, network_stats, o, <<>>)]
          /\ UNCHANGED <<kernel, diskio_stats>>
    BY <1>3 DEF sg_get_network_io_stats
  <2>2. Located(platform, moved["net"], "net", o.vector,
                ToldDevices("net", <<>>, network_stats, o, <<>>))
    BY <1>1, NetworkReadsGood, SampledDevices
  <2> QED
    BY <1>2, <2>1, <2>2
<1>4. CASE sg_get_network_io_stats_diff
  <2>1. PICK o \in NetworkReads :
          /\ network_stats' = o.vector
          /\ told' = [told EXCEPT !["net"] =
               ToldDevices("net", told["net"], network_stats, o,
                           SampleDiff("net", network_stats, o).stats)]
          /\ UNCHANGED <<kernel, diskio_stats>>
    BY <1>4 DEF sg_get_network_io_stats_diff
  <2>2. Located(platform, moved["net"], "net", o.vector,
                ToldDevices("net", told["net"], network_stats, o,
                            SampleDiff("net", network_stats, o).stats))
    BY <1>1, NetworkReadsGood, DifferencedDevices
  <2> QED
    BY <1>2, <2>1, <2>2
<1>5. CASE sg_get_network_iface_stats
  BY <1>5 DEF sg_get_network_iface_stats, kernel, statics, DiffInv, StaticsInv
<1> QED
  BY <1>3, <1>4, <1>5 DEF NetworkCalls

LEMMA DiskKeeps ==
  ASSUME DiffInv, DiskCalls
  PROVE  DiffInv'
<1>1. /\ StaticsInv /\ Kinds \subseteq DOMAIN told /\ diskio_stats \in Seq(Item)
      /\ "net" \in Kinds /\ "disk" \in Kinds
      /\ Located(platform, moved["net"], "net", network_stats, told["net"])
      /\ Located(platform, moved["disk"], "disk", diskio_stats, told["disk"])
  BY DEF DiffInv, StaticsInv, Kinds
<1>2. ASSUME NEW o \in DiskReads, NEW t, diskio_stats' = o.vector,
             told' = [told EXCEPT !["disk"] = t],
             Located(platform, moved["disk"], "disk", o.vector, t),
             UNCHANGED <<kernel, network_stats>>
      PROVE  DiffInv'
  <2>1. o.vector \in Seq(Item)
    BY <1>1, <1>2, DiskReadsGood DEF GoodRead
  <2>2. UNCHANGED <<platform, table, moved, network_stats>>
    BY <1>2 DEF kernel
  <2>3. StaticsInv'
    BY <1>1, <1>2, <2>1, <2>2 DEF StaticsInv
  <2>4. told'["disk"] = t /\ told'["net"] = told["net"] /\ DOMAIN told' = DOMAIN told
    BY <1>1, <1>2
  <2> QED
    BY <1>1, <1>2, <2>2, <2>3, <2>4 DEF DiffInv
<1>3. CASE sg_get_disk_io_stats
  <2>1. PICK o \in DiskReads :
          /\ diskio_stats' = o.vector
          /\ told' = [told EXCEPT !["disk"] = ToldDevices("disk", <<>>, diskio_stats, o, <<>>)]
          /\ UNCHANGED <<kernel, network_stats>>
    BY <1>3 DEF sg_get_disk_io_stats
  <2>2. Located(platform, moved["disk"], "disk", o.vector,
                ToldDevices("disk", <<>>, diskio_stats, o, <<>>))
    BY <1>1, DiskReadsGood, SampledDevices
  <2> QED
    BY <1>2, <2>1, <2>2
<1>4. CASE sg_get_disk_io_stats_diff
  <2>1. PICK o \in DiskReads :
          /\ diskio_stats' = o.vector
          /\ told' = [told EXCEPT !["disk"] =
               ToldDevices("disk", told["disk"], diskio_stats, o,
                           SampleDiff("disk", diskio_stats, o).stats)]
          /\ UNCHANGED <<kernel, network_stats>>
    BY <1>4 DEF sg_get_disk_io_stats_diff
  <2>2. Located(platform, moved["disk"], "disk", o.vector,
                ToldDevices("disk", told["disk"], diskio_stats, o,
                            SampleDiff("disk", diskio_stats, o).stats))
    BY <1>1, DiskReadsGood, DifferencedDevices
  <2> QED
    BY <1>2, <2>1, <2>2
<1> QED
  BY <1>3, <1>4 DEF DiskCalls

LEMMA DiffElsewhere ==
  ASSUME DiffInv, CpuCalls \/ PageCalls
  PROVE  DiffInv'
<1>1. ASSUME NEW c \in {"cpu", "page"}, NEW x, told' = [told EXCEPT ![c] = x],
             UNCHANGED <<kernel, network_stats, diskio_stats>>
      PROVE  DiffInv'
  <2>1. DOMAIN told' = DOMAIN told /\ told'["net"] = told["net"] /\ told'["disk"] = told["disk"]
    BY <1>1 DEF DiffInv, Kinds
  <2> QED
    BY <1>1, <2>1 DEF DiffInv, StaticsInv, kernel
<1>2. ASSUME NEW o, NEW a, NEW b, CpuCall(o, a, b) PROVE DiffInv'
  BY <1>1, <1>2 DEF CpuCall
<1>3. CASE CpuCalls
  BY <1>2, <1>3 DEF CpuCalls, sg_get_cpu_stats, sg_get_cpu_stats_diff, sg_get_cpu_percents
<1>4. CASE PageCalls
  BY <1>1, <1>4 DEF PageCalls, sg_get_page_stats, sg_get_page_stats_diff
<1> QED
  BY <1>3, <1>4

LEMMA DiffStep == DiffInv /\ [Next]_vars => DiffInv'
<1> SUFFICES ASSUME DiffInv, [Next]_vars PROVE DiffInv'
  OBVIOUS
<1>1. CASE UNCHANGED vars
  BY <1>1 DEF vars, kernel, statics, DiffInv, StaticsInv
<1> QED
  BY <1>1, DiffKernel, DiffElsewhere, NetworkKeeps, DiskKeeps DEF Next

\* The differences answered for an interface add up to the bytes it moved, as 32
\* bits tell them where the platform's counters are that wide, on every platform,
\* whatever the calls, their order, the reads that fail and the interfaces that come
\* and go (network_stats.c 434-508).
THEOREM InterfacesTold == Spec => []NetworkDiffsAddUp
<1>1. DiffInv => NetworkDiffsAddUp
  BY DEF DiffInv, Located, TellsGrowth, NetworkDiffsAddUp
<1> QED
  BY <1>1, DiffInit, DiffStep, PTL DEF Spec

\* The differences answered for a disk add up to the bytes it moved
\* (disk_stats.c 979-1053).
THEOREM DisksTold == Spec => []DiskDiffsAddUp
<1>1. DiffInv => DiskDiffsAddUp
  BY DEF DiffInv, Located, TellsGrowth, DiskDiffsAddUp
<1> QED
  BY <1>1, DiffInit, DiffStep, PTL DEF Spec

-----------------------------------------------------------------------------
(* What the log tells *)

LEMMA TotalIs ==
  ASSUME NEW n \in Nat, NEW s \in [1..n -> Int]
  PROVE  \E f \in [0..n -> Int] :
           /\ f[0] = 0 /\ \A i \in 1..n : f[i] = f[i - 1] + s[i]
           /\ Total(s) = f[n]
<1> DEFINE add == [x \in (1..n) \X Int |-> x[2] + s[x[1]]]
           IsTotal(g) == g = [i \in 0..Len(s) |-> IF i = 0 THEN 0 ELSE g[i - 1] + s[i]]
<1>1. Len(s) = n
  OBVIOUS
<1>2. PICK f \in [0..n -> Int] : IsRun(f, n, 0, add)
  <2>1. add \in [(1..n) \X Int -> Int] /\ 0 \in Int
    OBVIOUS
  <2> DEFINE V == Int
  <2>2. 0 \in V /\ add \in [(1..n) \X V -> V]
    BY <2>1
  <2> HIDE DEF add, V
  <2>3. \E f \in [0..n -> V] : IsRun(f, n, 0, add)
    BY <2>2, RunIsDefined
  <2> QED
    BY <2>3 DEF V
<1>3. f[0] = 0 /\ \A i \in 1..n : f[i] = f[i - 1] + s[i]
  <2>1. f[0] = 0 /\ \A i \in 1..n : f[i] = add[<<i, f[i - 1]>>]
    <3> HIDE DEF add
    <3> QED
      BY <1>2 DEF IsRun
  <2>2. \A i \in 1..n : <<i, f[i - 1]>> \in (1..n) \X Int
    <3>1. \A i \in 1..n : i - 1 \in 0..n
      OBVIOUS
    <3> QED
      BY <3>1
  <2> QED
    BY <2>1, <2>2
<1>4. IsTotal(f)
  <2>1. \A i \in 0..n : i = 0 \/ i \in 1..n
    OBVIOUS
  <2>2. \A i \in 0..n : f[i] = IF i = 0 THEN 0 ELSE f[i - 1] + s[i]
    BY <1>3, <2>1
  <2>3. f = [i \in 0..n |-> f[i]]
    OBVIOUS
  <2> QED
    BY <1>1, <2>2, <2>3
<1> DEFINE g == CHOOSE h : IsTotal(h)
<1>5. Total(s) = g[n]
  BY <1>1 DEF Total
<1>6. IsTotal(g)
  <2> HIDE DEF IsTotal
  <2> QED
    BY <1>4
<1>7. g[0] = 0 /\ \A i \in 1..n : g[i] = g[i - 1] + s[i]
  <2> HIDE DEF g
  <2>1. \A i \in 0..n : g[i] = IF i = 0 THEN 0 ELSE g[i - 1] + s[i]
    BY <1>1, <1>6
  <2>2. 0 \in 0..n /\ \A i \in 1..n : i \in 0..n /\ i # 0
    OBVIOUS
  <2> QED
    BY <2>1, <2>2
<1> DEFINE M == {m \in Nat : m <= n => f[m] = g[m]}
<1> HIDE DEF g
<1>8. 0 \in M
  BY <1>3, <1>7
<1>9. ASSUME NEW m \in Nat, m \in M PROVE m + 1 \in M
  <2> SUFFICES ASSUME m + 1 <= n PROVE f[m + 1] = g[m + 1]
    OBVIOUS
  <2>1. m + 1 \in 1..n /\ (m + 1) - 1 = m /\ f[m] = g[m]
    BY <1>9
  <2> QED
    BY <1>3, <1>7, <2>1
<1>10. n \in M
  <2> HIDE DEF M
  <2> QED
    BY <1>8, <1>9, InductionOverSet
<1>11. Total(s) = f[n]
  BY <1>5, <1>10
<1> QED
  BY <1>3, <1>11

\* The total of differences is the difference of the totals.
LEMMA TotalDifference ==
  ASSUME NEW n \in Nat, NEW s \in [1..n -> Int], NEW t \in [1..n -> Int], NEW u \in [1..n -> Int],
         \A i \in 1..n : u[i] = s[i] - t[i]
  PROVE  Total(s) \in Int /\ Total(t) \in Int /\ Total(u) = Total(s) - Total(t)
<1>1. PICK f \in [0..n -> Int] :
        f[0] = 0 /\ (\A i \in 1..n : f[i] = f[i - 1] + s[i]) /\ Total(s) = f[n]
  BY TotalIs
<1>2. PICK g \in [0..n -> Int] :
        g[0] = 0 /\ (\A i \in 1..n : g[i] = g[i - 1] + t[i]) /\ Total(t) = g[n]
  BY TotalIs
<1>3. PICK h \in [0..n -> Int] :
        h[0] = 0 /\ (\A i \in 1..n : h[i] = h[i - 1] + u[i]) /\ Total(u) = h[n]
  BY TotalIs
<1> DEFINE M == {m \in Nat : m <= n => h[m] = f[m] - g[m]}
<1>4. 0 \in M
  BY <1>1, <1>2, <1>3
<1>5. ASSUME NEW m \in Nat, m \in M PROVE m + 1 \in M
  <2> SUFFICES ASSUME m + 1 <= n PROVE h[m + 1] = f[m + 1] - g[m + 1]
    OBVIOUS
  <2>1. m + 1 \in 1..n /\ m \in 0..n /\ (m + 1) - 1 = m /\ h[m] = f[m] - g[m]
    BY <1>5
  <2>2. /\ f[m + 1] = f[m] + s[m + 1] /\ g[m + 1] = g[m] + t[m + 1]
        /\ h[m + 1] = h[m] + u[m + 1] /\ u[m + 1] = s[m + 1] - t[m + 1]
    BY <1>1, <1>2, <1>3, <2>1
  <2>3. f[m] \in Int /\ g[m] \in Int /\ s[m + 1] \in Int /\ t[m + 1] \in Int
    BY <2>1
  <2> QED
    BY <2>1, <2>2, <2>3
<1>6. n \in M
  <2> HIDE DEF M
  <2> QED
    BY <1>4, <1>5, InductionOverSet
<1> QED
  BY <1>1, <1>2, <1>3, <1>6

\* What the interfaces s show of the counts b, together.
AllShow(p, s, b) == Total([i \in 1..Len(s) |-> ShownAt(p, "net", b[s[i]])])

TrafficInv ==
  /\ StaticsInv
  /\ base \in [Devices -> Nat]
  /\ networkBytes \in Int /\ pnetworkBytes \in Int
  /\ steady =>
       (IF pc = "sleep" THEN networkBytes ELSE pnetworkBytes)
         = AllShow(platform, Whole(table["net"]), base)
  /\ line.logged /\ line.steady => line.kb = (line.grown % MAXUINT64) \div KB

LEMMA SameQuotient ==
  ASSUME NEW n \in Nat \ {0}, NEW a \in Nat, NEW b \in Nat, a \div n = b \div n
  PROVE  a % n \in Int /\ b % n \in Int /\ a - b = (a % n) - (b % n)
<1>1. PICK q \in Int : q = a \div n
  OBVIOUS
<1>2. PICK z \in Int : z = n * q
  OBVIOUS
<1>3. PICK r \in Int : r = a % n /\ a = z + r
  BY <1>1, <1>2
<1>4. PICK t \in Int : t = b % n /\ b = z + t
  BY <1>1, <1>2
<1> QED
  BY <1>3, <1>4

\* When no counter turned, the difference of two sums is what the interfaces moved.
LEMMA SumsDiffer ==
  ASSUME StaticsInv, base \in [Devices -> Nat],
         \A d \in Devices : moved["net"][d] \div MAXVAL = base[d] \div MAXVAL
  PROVE  AllShow(platform, Whole(table["net"]), moved["net"])
           - AllShow(platform, Whole(table["net"]), base) = Grown
<1> DEFINE s == Whole(table["net"])
           m == moved["net"]
           now == [i \in 1..Len(s) |-> ShownAt(platform, "net", m[s[i]])]
           then == [i \in 1..Len(s) |-> ShownAt(platform, "net", base[s[i]])]
           grown == [i \in 1..Len(s) |-> m[s[i]] - base[s[i]]]
<1>1. "net" \in Kinds /\ s \in Seq(Devices) /\ m \in [Devices -> Nat]
  BY TableIs DEF Kinds, StaticsInv
<1> HIDE DEF s
<1>2. PICK n \in Nat : n = Len(s)
  BY <1>1
<1>3. \A i \in 1..n : s[i] \in Devices
  BY <1>1, <1>2
<1>4. ASSUME NEW i \in 1..n
      PROVE  /\ now[i] \in Int /\ then[i] \in Int /\ grown[i] \in Int
             /\ grown[i] = now[i] - then[i]
  <2>1. PICK a \in Nat, b \in Nat : a = m[s[i]] /\ b = base[s[i]]
    BY <1>1, <1>3
  <2>2. a \div MAXVAL = b \div MAXVAL /\ MAXVAL \in Nat \ {0}
    BY <1>3, <2>1, StatgrabAssumption
  <2>3. a % MAXVAL \in Int /\ b % MAXVAL \in Int /\ a - b = (a % MAXVAL) - (b % MAXVAL)
    BY <2>2, SameQuotient
  <2>4. ShownAt(platform, "net", a) \in Int /\ ShownAt(platform, "net", b) \in Int
        /\ a - b = ShownAt(platform, "net", a) - ShownAt(platform, "net", b)
    BY <2>3 DEF ShownAt
  <2> QED
    BY <1>2, <2>1, <2>4
<1>5. now \in [1..n -> Int] /\ then \in [1..n -> Int] /\ grown \in [1..n -> Int]
  BY <1>2, <1>4
<1>6. /\ AllShow(platform, s, m) = Total(now) /\ AllShow(platform, s, base) = Total(then)
      /\ Grown = Total(grown)
  BY DEF AllShow, Grown, s
<1> HIDE DEF now, then, grown
<1>7. Total(now) \in Int /\ Total(then) \in Int /\ Total(grown) = Total(now) - Total(then)
  BY <1>4, <1>5, TotalDifference
<1> QED
  BY <1>6, <1>7 DEF s

\* What a call that answers adds up to.
LEMMA AnswersSum ==
  ASSUME StaticsInv, NEW o \in NetworkReads, ~ Sample(o).null
  PROVE  /\ Sum(Sample(o).stats) \in Int
         /\ Sum(Sample(o).stats) = AllShow(platform, Whole(table["net"]), moved["net"])
<1> DEFINE s == Whole(table["net"])
           m == moved["net"]
           v == network_stats
<1>1. "net" \in Kinds /\ s \in Seq(Devices) /\ m \in [Devices -> Nat] /\ v \in Seq(Item)
  BY TableIs DEF Kinds, StaticsInv
<1> HIDE DEF s
<1>2. WritesAll("net", v, s, o)
  <2>1. o.ok /\ o.vector # <<>>
    BY DEF Sample, Nothing, Return
  <2> QED
    BY <2>1, NetworkReadsAre DEF NothingRead, s
<1>3. PICK n \in Nat, k \in Nat : \E items : n = Len(s) /\ Writes("net", v, n, s, k, items, o)
  BY <1>2 DEF WritesAll
<1>4. PICK items : n = Len(s) /\ Writes("net", v, n, s, k, items, o)
  BY <1>3
<1> DEFINE r == SubSeq(o.vector, 1, n)
<1>5. Sample(o).stats = r
  BY <1>4 DEF Sample, Nothing, Return, Writes
<1>6. /\ o.vector = Filled(v, items) /\ o.vector \in Seq(Item)
      /\ n <= k /\ (k # 0 => Len(o.vector) = k)
      /\ \A i \in 1..n : o.vector[i].moved = items[i].moved
  <2>1. items \in [1..k -> Item] /\ n <= k /\ o.vector = Filled(v, items)
    BY <1>4 DEF Writes
  <2>2. \A i \in 1..n : i \in 1..k /\ k # 0
    BY <2>1
  <2> QED
    BY <1>1, <2>1, <2>2, FilledIs
<1>7. \A i \in 1..n : items[i].moved = Shown("net", s[i]) /\ s[i] \in Devices
  <2>1. \A i \in 1..n : s[i] \in Devices /\ o.devices[i] = s[i]
    BY <1>1, <1>2, <1>4 DEF WritesAll
  <2>2. \A i \in 1..n : o.devices[i] # NULL
    BY <2>1, StatgrabAssumption
  <2> QED
    BY <1>4, <2>1, <2>2 DEF Writes
<1>8. Len(r) = n /\ \A i \in 1..n : r[i] = o.vector[i]
  <2>1. CASE n = 0
    BY <1>6, <2>1
  <2>2. CASE n # 0
    <3>1. n <= Len(o.vector)
      BY <1>6, <2>2
    <3> QED
      BY <1>6, <3>1
  <2> QED
    BY <2>1, <2>2
<1> HIDE DEF r
<1> DEFINE now == [i \in 1..n |-> ShownAt(platform, "net", m[s[i]])]
<1>9. \A i \in 1..n : r[i].moved = now[i] /\ now[i] \in Int
  <2>1. \A i \in 1..n : Shown("net", s[i]) \in Nat /\ Shown("net", s[i]) = now[i]
    BY <1>1, <1>7, ShownIs
  <2> QED
    BY <1>6, <1>7, <1>8, <2>1
<1>10. now \in [1..n -> Int] /\ [i \in 1..Len(r) |-> r[i].moved] = now
  BY <1>8, <1>9
<1>11. Sum(r) = Total(now) /\ AllShow(platform, s, m) = Total(now)
  BY <1>4, <1>10 DEF Sum, AllShow
<1>12. Total(now) \in Int
  <2> HIDE DEF now
  <2>1. PICK f \in [0..n -> Int] : Total(now) = f[n]
    BY <1>10, TotalIs
  <2> QED
    BY <2>1
<1> QED
  BY <1>5, <1>11, <1>12 DEF s

LEMMA LogInit == Init /\ LogStatsInit => TrafficInv
<1> SUFFICES ASSUME Init, LogStatsInit PROVE TrafficInv
  OBVIOUS
<1>1. StaticsInv
  BY DiffInit DEF DiffInv
<1>2. base \in [Devices -> Nat] /\ steady = FALSE /\ networkBytes = 0 /\ pnetworkBytes = 0
      /\ line.logged = FALSE
  BY DEF LogStatsInit, Zero, NoLine
<1> QED
  BY <1>1, <1>2 DEF TrafficInv

\* The interfaces read are the kernel's; only the answers change.
LEMMA NetworkCallIs ==
  ASSUME StaticsInv, sg_get_network_io_stats
  PROVE  /\ StaticsInv' /\ UNCHANGED kernel
         /\ \E o \in NetworkReads : returned' = Sample(o)
<1>1. PICK o \in NetworkReads :
        network_stats' = o.vector /\ returned' = Sample(o) /\ UNCHANGED <<kernel, diskio_stats>>
  BY DEF sg_get_network_io_stats
<1>2. o.vector \in Seq(Item)
  BY <1>1, NetworkReadsGood DEF GoodRead
<1> QED
  BY <1>1, <1>2 DEF StaticsInv, kernel

LEMMA LineKeeps ==
  ASSUME TrafficInv, GetNetworkIoStats
  PROVE  TrafficInv'
<1> USE DEF TrafficInv
<1>1. /\ pc = "net" /\ sg_get_network_io_stats /\ pnetworkBytes' = pnetworkBytes
      /\ StaticsInv' /\ UNCHANGED kernel
  BY NetworkCallIs DEF GetNetworkIoStats
<1>2. CASE err'
  <2>1. pc' = "mem" /\ UNCHANGED <<networkBytes, line, base, steady>>
    BY <1>2 DEF GetNetworkIoStats
  <2>2. AllShow(platform, Whole(table["net"]), base)'
          = AllShow(platform, Whole(table["net"]), base)
    BY <1>1, <2>1 DEF kernel, AllShow, Whole
  <2> QED
    BY <1>1, <2>1, <2>2
<1>3. CASE ~ err'
  <2>1. /\ pc' = "sleep" /\ networkBytes' = Sum(returned'.stats)
        /\ line' = IF ~ready THEN line
                   ELSE [logged |-> TRUE,
                         kb |-> ((networkBytes' - pnetworkBytes) % MAXUINT64) \div KB,
                         grown |-> Grown, steady |-> Tellable]
        /\ base' = moved["net"] /\ steady' = TRUE /\ ~ returned'.null
    BY <1>3 DEF GetNetworkIoStats
  <2>2. /\ networkBytes' \in Int
        /\ networkBytes' = AllShow(platform, Whole(table["net"]), moved["net"])
    BY <1>1, <2>1, NetworkCallIs, AnswersSum
  <2>3. AllShow(platform, Whole(table["net"]), base)'
          = AllShow(platform, Whole(table["net"]), moved["net"])
    BY <1>1, <2>1 DEF kernel, AllShow, Whole
  <2>4. base' \in [Devices -> Nat]
    BY <2>1 DEF StaticsInv, Kinds
  <2>5. ASSUME ready, Tellable PROVE networkBytes' - pnetworkBytes = Grown
    <3>1. /\ pnetworkBytes = AllShow(platform, Whole(table["net"]), base)
          /\ \A d \in Devices : moved["net"][d] \div MAXVAL = base[d] \div MAXVAL
      BY <1>1, <2>5 DEF Tellable
    <3> QED
      BY <2>2, <3>1, SumsDiffer
  <2>6. line'.logged /\ line'.steady => line'.kb = (line'.grown % MAXUINT64) \div KB
    <3>1. CASE ~ ready
      BY <2>1, <3>1
    <3>2. CASE ready
      <4>1. /\ line'.steady = Tellable /\ line'.grown = Grown
            /\ line'.kb = ((networkBytes' - pnetworkBytes) % MAXUINT64) \div KB
        BY <2>1, <3>2
      <4> QED
        BY <2>5, <3>2, <4>1
    <3> QED
      BY <3>1, <3>2
  <2> QED
    BY <1>1, <2>1, <2>2, <2>3, <2>4, <2>6
<1> QED
  BY <1>2, <1>3

LEMMA LogKernelKeeps ==
  ASSUME TrafficInv, Kernel, FollowTable
  PROVE  TrafficInv'
<1> USE DEF TrafficInv
<1>1. /\ steady' = (steady /\ table' = table)
      /\ UNCHANGED <<pc, networkBytes, pnetworkBytes, line, base>>
  BY DEF FollowTable
<1>2. StaticsInv' /\ platform' = platform
  BY KernelStatics
<1>3. steady' => AllShow(platform, Whole(table["net"]), base)'
                   = AllShow(platform, Whole(table["net"]), base)
  BY <1>1, <1>2 DEF AllShow, Whole
<1> QED
  BY <1>1, <1>2, <1>3

LEMMA LogStep == TrafficInv /\ [LogStatsNext]_<<vars, logVars>> => TrafficInv'
<1> SUFFICES ASSUME TrafficInv, [LogStatsNext]_<<vars, logVars>> PROVE TrafficInv'
  OBVIOUS
<1>1. ASSUME UNCHANGED <<platform, table, moved, network_stats, diskio_stats,
                         networkBytes, line, base, steady>>,
             IF pc' = "sleep" THEN pc = "sleep" ELSE pnetworkBytes' =
               IF pc = "sleep" THEN networkBytes ELSE pnetworkBytes,
             pnetworkBytes' \in Int
      PROVE  TrafficInv'
  <2>1. AllShow(platform, Whole(table["net"]), base)'
          = AllShow(platform, Whole(table["net"]), base)
    BY <1>1 DEF AllShow, Whole
  <2> QED
    BY <1>1, <2>1 DEF TrafficInv, StaticsInv
<1>2. CASE GetMemStats
  BY <1>1, <1>2 DEF GetMemStats, TrafficInv, kernel, statics
<1>3. CASE GetCpuPercents
  <2>1. UNCHANGED <<kernel, network_stats, diskio_stats>>
    BY <1>3 DEF GetCpuPercents, sg_get_cpu_percents, CpuCall
  <2> QED
    BY <1>1, <1>3, <2>1 DEF GetCpuPercents, TrafficInv, kernel
<1>4. CASE Wake
  BY <1>1, <1>4 DEF Wake, TrafficInv, vars, kernel, statics
<1>5. CASE UNCHANGED <<vars, logVars>>
  BY <1>1, <1>5 DEF TrafficInv, vars, logVars, kernel, statics
<1> QED
  BY <1>2, <1>3, <1>4, <1>5, LineKeeps, LogKernelKeeps DEF LogStatsNext, LogStatsStep

\* A line of the log tells the bytes moved since the line before, modulo 2^64 and in
\* whole kilobytes, whatever failed meanwhile (logger.go LogStats).
THEOREM TrafficLogged == LogStatsSpec => []LoggedTrafficIsTraffic
<1>1. TrafficInv => LoggedTrafficIsTraffic
  BY DEF TrafficInv, LoggedTrafficIsTraffic
<1> QED
  BY <1>1, LogInit, LogStep, PTL DEF LogStatsSpec

-----------------------------------------------------------------------------
(* Processes in order *)

InOrderOf(P, n, s) ==
  s \in [1..n -> P] /\ \A i, j \in DOMAIN s : i < j => s[i] < s[j]

LEMMA OrderExists ==
  ASSUME NEW n \in Nat, NEW P, P \subseteq Nat, IsFiniteSet(P), Cardinality(P) = n
  PROVE  \E s : InOrderOf(P, n, s)
<1> DEFINE S == {m \in Nat : \A Q \in SUBSET Nat :
                   IsFiniteSet(Q) /\ Cardinality(Q) = m => \E s : InOrderOf(Q, m, s)}
<1>1. 0 \in S
  <2>1. ASSUME NEW Q, IsFiniteSet(Q), Cardinality(Q) = 0 PROVE InOrderOf(Q, 0, <<>>)
    BY DEF InOrderOf
  <2> QED
    BY <2>1
<1>2. ASSUME NEW m \in Nat, m \in S PROVE m + 1 \in S
  <2> SUFFICES ASSUME NEW Q \in SUBSET Nat, IsFiniteSet(Q), Cardinality(Q) = m + 1
               PROVE  \E s : InOrderOf(Q, m + 1, s)
    OBVIOUS
  <2>1. PICK q \in Q : \A x \in Q : q <= x
    <3>1. Q # {}
      BY FS_EmptySet
    <3> QED
      BY <3>1, LeastNumber
  <2>2. IsFiniteSet(Q \ {q}) /\ Cardinality(Q \ {q}) = m
    BY FS_RemoveElement
  <2>3. PICK r : InOrderOf(Q \ {q}, m, r)
    BY <1>2, <2>2
  <2> DEFINE s == [i \in 1..(m + 1) |-> IF i = 1 THEN q ELSE r[i - 1]]
  <2>4. \A i \in 1..(m + 1) : i # 1 => i - 1 \in 1..m /\ r[i - 1] \in Q /\ r[i - 1] # q
    BY <2>3 DEF InOrderOf
  <2>5. s \in [1..(m + 1) -> Q]
    BY <2>4
  <2>6. ASSUME NEW i \in 1..(m + 1), NEW j \in 1..(m + 1), i < j
        PROVE  s[i] < s[j]
    <3>1. j # 1 /\ s[j] = r[j - 1] /\ j - 1 \in 1..m /\ s[j] \in Q /\ s[j] # q
      BY <2>4, <2>6
    <3>2. CASE i = 1
      <4>1. s[i] = q
        BY <3>2
      <4>2. PICK x \in Q : x = s[j] /\ x # q
        BY <3>1
      <4>3. q <= x /\ q \in Nat /\ x \in Nat
        BY <2>1
      <4> QED
        BY <4>1, <4>2, <4>3
    <3>3. CASE i # 1
      <4>1. s[i] = r[i - 1] /\ i - 1 \in 1..m /\ i - 1 < j - 1
        BY <2>4, <2>6, <3>3
      <4> QED
        BY <2>3, <3>1, <4>1 DEF InOrderOf
    <3> QED
      BY <3>2, <3>3
  <2>7. InOrderOf(Q, m + 1, s)
    BY <2>5, <2>6 DEF InOrderOf
  <2> QED
    BY <2>7
<1>3. n \in S
  <2> HIDE DEF S
  <2> QED
    BY <1>1, <1>2, InductionOverSet
<1> QED
  BY <1>3

\* The kernel's order has each process once.
LEMMA InOrderIs ==
  ASSUME NEW P, P \subseteq Processes, IsFiniteSet(P)
  PROVE  /\ Cardinality(P) \in Nat
         /\ InOrder(P) \in [1..Cardinality(P) -> P]
         /\ \A i, j \in 1..Cardinality(P) : i < j => InOrder(P)[i] < InOrder(P)[j]
         /\ \A p \in P : \E i \in 1..Cardinality(P) : InOrder(P)[i] = p
<1>1. PICK n \in Nat : n = Cardinality(P)
  BY FS_CardinalityType
<1>2. P \subseteq Nat
  BY ScanAssumption
<1>3. \E s : InOrderOf(P, n, s)
  BY <1>1, <1>2, OrderExists
<1> DEFINE r == InOrder(P)
<1>4. InOrderOf(P, n, r)
  BY <1>1, <1>3 DEF InOrder, InOrderOf
<1> HIDE DEF r
<1>5. r \in [1..n -> P] /\ \A i, j \in 1..n : i < j => r[i] < r[j]
  BY <1>4 DEF InOrderOf
<1>6. \A i, j \in 1..n : r[i] = r[j] => i = j
  <2>1. \A i \in 1..n : r[i] \in Nat
    BY <1>2, <1>5
  <2> QED
    BY <1>5, <2>1
<1>7. r \in Injection(1..n, P)
  BY <1>5, <1>6 DEF Injection, IsInjective
<1>8. Cardinality(1..n) = Cardinality(P)
  BY <1>1, FS_Interval
<1>9. r \in Surjection(1..n, P)
  BY <1>7, <1>8, FS_Injection
<1>10. \A p \in P : \E i \in 1..n : r[i] = p
  BY <1>9 DEF Surjection
<1> QED
  BY <1>1, <1>5, <1>10 DEF r

-----------------------------------------------------------------------------
(* The invariant of a walk *)

Numbers == Processes \cup {NoProcess}
Slot == [pid : Numbers, title : Numbers, state : Counted \cup {"unknown"}]

\* What a slot says of a process is of that process, which there was during the walk;
\* the record of Solaris may not have been set yet.
Good ==
  {x \in Slot :
     /\ x.title \in {x.pid, NoProcess}
     /\ \/ x.pid \in seen /\ x.state \in ItemStates(x.pid)
        \/ system = "Solaris" /\ x.pid = NoProcess}

Pids(s) == {s[i].pid : i \in DOMAIN s}
EachOnce(s) == \A i, j \in DOMAIN s : s[i].pid = s[j].pid => i = j

\* The steps at which a process found in /proc is read.
Reading == {"fopen", "fscanf", "status", "open", "read", "fread"}

\* The processes that the rest of the walk may list.
Ahead ==
  {p \in Processes :
     /\ step \in {"readdir", "pstat_getproc"} => p > entry
     /\ step \in Reading => p >= entry
     /\ step = "args" => p \in ToSet(kp_stats)
     /\ step = "lwp" => p \in ToSet(kp_stats) \cup {entry}
     /\ step \notin {"count", "done"}}

ItemReady ==
  /\ item.pid = entry /\ item.title \in {entry, NoProcess}
  /\ item.state \in ItemStates(entry)

KernelInv ==
  /\ born \subseteq Processes /\ alive \subseteq born /\ seen \subseteq born
  /\ lived \subseteq alive
  /\ step # "idle" => alive \subseteq seen

WalkTypes ==
  /\ entry \in Nat /\ procs \in Nat /\ item \in Slot /\ process_info \in Slot
  /\ kp_stats \in Seq(Numbers)

StepsInv ==
  /\ step = "idle" => proc_state = <<>>
  /\ step \in {"readdir", "fopen"} => system \in {"Linux", "Solaris"}
  /\ step \in {"fscanf", "status", "open", "read"} => system = "Linux"
  /\ step = "fread" => system = "Solaris"
  /\ step \in {"size", "sysctl"} => proc_state = <<>>
  /\ step \in {"size", "sysctl", "args", "lwp", "pstat_getproc"} => system # "Solaris"

ListInv ==
  /\ proc_state \in Seq(Good)
  /\ system = "Solaris" => process_info \in Good
  /\ system # "Solaris" => EachOnce(proc_state)
  /\ step # "failed" =>
       /\ lived \subseteq Pids(proc_state) \cup Ahead
       /\ system # "Solaris" => Pids(proc_state) \cap Ahead = {}

ReadInv ==
  /\ step \in Reading \cup {"lwp"} => entry \in seen
  /\ step = "status" /\ entry \in alive => ItemReady
  /\ step \in {"open", "read", "lwp"} => ItemReady
  /\ step \in {"args", "lwp"} =>
       /\ \A i \in DOMAIN kp_stats : kp_stats[i] \in seen \cup {NoProcess}
       /\ \A i, j \in DOMAIN kp_stats :
            kp_stats[i] = kp_stats[j] /\ kp_stats[i] # NoProcess => i = j
  /\ step = "lwp" => entry \notin ToSet(kp_stats)

CountInv ==
  step = "done" =>
    /\ process_stat.total = Len(proc_state)
    /\ \A s \in Counted : process_stat[s] = Cardinality(InState(s))

ScanInv == KernelInv /\ WalkTypes /\ StepsInv /\ ListInv /\ ReadInv /\ CountInv

LEMMA ScanInvInit == ScanInit => ScanInv
<1> SUFFICES ASSUME ScanInit PROVE ScanInv
  OBVIOUS
<1> USE DEF ScanInit
<1>1. KernelInv
  BY DEF KernelInv
<1>2. NoItem \in Slot /\ NoItem.pid = NoProcess /\ NoItem.title = NoProcess
  BY DEF NoItem, Slot, Numbers
<1>3. WalkTypes
  BY <1>2 DEF WalkTypes
<1>4. StepsInv
  BY DEF StepsInv
<1>5. ListInv
  <2>1. system = "Solaris" => NoItem \in Good
    BY <1>2 DEF Good
  <2>2. <<>> \in Seq(Good) /\ EachOnce(<<>>) /\ Pids(<<>>) = {}
    BY DEF EachOnce, Pids
  <2> QED
    BY <2>1, <2>2 DEF ListInv
<1>6. ReadInv
  BY DEF ReadInv, Reading
<1>7. CountInv
  BY DEF CountInv
<1> QED
  BY <1>1, <1>3, <1>4, <1>5, <1>6, <1>7 DEF ScanInv

\* One more item.
LEMMA ItemAppended ==
  ASSUME NEW G, NEW s \in Seq(G), NEW x \in G
  PROVE  /\ Append(s, x) \in Seq(G)
         /\ Pids(Append(s, x)) = Pids(s) \cup {x.pid}
         /\ EachOnce(s) /\ x.pid \notin Pids(s) => EachOnce(Append(s, x))
<1>1. PICK n \in Nat : n = Len(s) /\ DOMAIN s = 1..n
  OBVIOUS
<1> DEFINE t == Append(s, x)
<1>2. /\ t \in Seq(G) /\ DOMAIN t = 1..(n + 1) /\ t[n + 1] = x
      /\ \A i \in 1..n : t[i] = s[i]
  BY <1>1
<1> HIDE DEF t
<1>3. \A i \in 1..(n + 1) : i = n + 1 \/ i \in 1..n
  OBVIOUS
<1>4. Pids(t) = Pids(s) \cup {x.pid}
  <2>1. ASSUME NEW p \in Pids(t) PROVE p \in Pids(s) \cup {x.pid}
    BY <1>1, <1>2, <1>3, <2>1 DEF Pids
  <2>2. ASSUME NEW p \in Pids(s) PROVE p \in Pids(t)
    <3>1. PICK i \in 1..n : p = s[i].pid
      BY <1>1 DEF Pids
    <3>2. i \in 1..(n + 1) /\ t[i].pid = p
      BY <1>2, <3>1
    <3> QED
      BY <1>2, <3>2 DEF Pids
  <2>3. x.pid \in Pids(t)
    <3>1. n + 1 \in 1..(n + 1)
      OBVIOUS
    <3> QED
      BY <1>2, <3>1 DEF Pids
  <2> QED
    BY <2>1, <2>2, <2>3
<1>5. ASSUME EachOnce(s), x.pid \notin Pids(s) PROVE EachOnce(t)
  <2>1. ASSUME NEW i \in 1..(n + 1), NEW j \in 1..(n + 1), t[i].pid = t[j].pid PROVE i = j
    <3>1. \A h \in 1..n : t[h].pid # x.pid
      BY <1>1, <1>2, <1>5 DEF Pids
    <3>2. CASE i \in 1..n /\ j \in 1..n
      BY <1>1, <1>2, <1>5, <2>1, <3>2 DEF EachOnce
    <3> QED
      BY <1>2, <1>3, <2>1, <3>1, <3>2
  <2> QED
    BY <1>2, <2>1 DEF EachOnce
<1> QED
  BY <1>2, <1>4, <1>5 DEF t

\* What a slot may say stays so.
LEMMA GoodStays ==
  ASSUME system' = system, seen \subseteq seen'
  PROVE  Good \subseteq Good' /\ \A s \in Seq(Good) : s \in Seq(Good')
<1>1. \A p : ItemStates(p)' = ItemStates(p)
  BY DEF ItemStates
<1>2. Good \subseteq Good'
  BY <1>1 DEF Good
<1> QED
  BY <1>2

LEMMA ForkKeeps ==
  ASSUME ScanInv, NEW p \in Processes, Fork(p)
  PROVE  ScanInv'
<1> USE DEF ScanInv
<1>1. /\ p \notin born /\ alive' = alive \cup {p} /\ born' = born \cup {p} /\ seen' = seen \cup {p}
      /\ UNCHANGED <<system, step, entry, kp_stats, procs, process_info, item, proc_state,
                     process_stat, lived>>
  BY DEF Fork, walk
<1>2. KernelInv'
  BY <1>1 DEF KernelInv
<1>3. WalkTypes' /\ StepsInv' /\ CountInv'
  BY <1>1 DEF WalkTypes, StepsInv, CountInv, InState
<1>4. Ahead' = Ahead /\ ItemReady' = ItemReady
  BY <1>1 DEF Ahead, ItemReady, ItemStates, Reading
<1>5. ListInv'
  BY <1>1, <1>4, GoodStays DEF ListInv
<1>6. ReadInv'
  <2>1. step \in Reading \cup {"lwp"} => entry # p
    BY <1>1 DEF ReadInv, KernelInv
  <2> QED
    BY <1>1, <1>4, <2>1 DEF ReadInv, Reading
<1> QED
  BY <1>2, <1>3, <1>5, <1>6

LEMMA ExitKeeps ==
  ASSUME ScanInv, NEW p \in Processes, Exit(p)
  PROVE  ScanInv'
<1> USE DEF ScanInv
<1>1. /\ alive' = alive \ {p} /\ lived' = lived \ {p}
      /\ UNCHANGED <<system, born, step, entry, kp_stats, procs, process_info, item,
                     proc_state, process_stat, seen>>
  BY DEF Exit, walk
<1>2. KernelInv'
  BY <1>1 DEF KernelInv
<1>3. WalkTypes' /\ StepsInv' /\ CountInv'
  BY <1>1 DEF WalkTypes, StepsInv, CountInv, InState
<1>4. Ahead' = Ahead /\ ItemReady' = ItemReady
  BY <1>1 DEF Ahead, ItemReady, ItemStates, Reading
<1>5. ListInv'
  BY <1>1, <1>4, GoodStays DEF ListInv
<1>6. ReadInv'
  BY <1>1, <1>4 DEF ReadInv, Reading
<1> QED
  BY <1>2, <1>3, <1>5, <1>6

LEMMA StartKeeps ==
  ASSUME ScanInv, Start
  PROVE  ScanInv'
<1> USE DEF ScanInv
<1>1. /\ entry' = 0 /\ proc_state' = <<>> /\ item' = NoItem
      /\ lived' = alive /\ seen' = alive
      /\ UNCHANGED <<system, alive, born, kp_stats, procs>>
  BY DEF Start
<1>2. PICK s \in Counted \cup {"unknown"} : process_info' = [NoItem EXCEPT !.state = s]
  BY DEF Start
<1>3. /\ system \in {"Linux", "Solaris"} => step' = "readdir"
      /\ system = "HPUX" => step' = "pstat_getproc"
      /\ system \notin {"Linux", "Solaris", "HPUX"} => step' = "size"
  BY DEF Start
<1>4. step' \in {"readdir", "pstat_getproc", "size"}
  BY <1>3
<1>5. KernelInv'
  BY <1>1, <1>4 DEF KernelInv
<1>6. /\ NoItem \in Slot /\ [NoItem EXCEPT !.state = s] \in Slot
      /\ [NoItem EXCEPT !.state = s].pid = NoProcess
      /\ [NoItem EXCEPT !.state = s].title = NoProcess
  BY DEF NoItem, Slot, Numbers
<1>7. WalkTypes'
  BY <1>1, <1>2, <1>6 DEF WalkTypes
<1>8. StepsInv'
  BY <1>1, <1>3, <1>4 DEF StepsInv
<1>9. ListInv'
  <2>1. system' = "Solaris" => process_info' \in Good'
    BY <1>2, <1>6 DEF Good
  <2>2. <<>> \in Seq(Good') /\ EachOnce(<<>>) /\ Pids(<<>>) = {}
    BY DEF EachOnce, Pids
  <2>3. Ahead' = {p \in Processes : step' \in {"readdir", "pstat_getproc"} => p > 0}
    BY <1>1, <1>4 DEF Ahead, Reading
  <2>4. \A p \in Processes : p > 0
    BY ScanAssumption
  <2>5. lived' \subseteq Ahead'
    BY <1>1, <2>3, <2>4 DEF KernelInv
  <2> QED
    BY <1>1, <2>1, <2>2, <2>5 DEF ListInv
<1>10. ReadInv' /\ CountInv'
  BY <1>4 DEF ReadInv, CountInv, Reading
<1> QED
  BY <1>5, <1>7, <1>8, <1>9, <1>10

LEMMA FailKeeps ==
  ASSUME ScanInv, Fail, step # "idle"
  PROVE  ScanInv'
<1> USE DEF ScanInv
<1>1. /\ step' = "failed"
      /\ UNCHANGED <<system, alive, born, entry, kp_stats, procs, process_info, item,
                     proc_state, process_stat, lived, seen>>
  BY DEF Fail
<1>2. KernelInv' /\ WalkTypes' /\ StepsInv' /\ CountInv' /\ ReadInv'
  BY <1>1 DEF KernelInv, WalkTypes, StepsInv, CountInv, ReadInv, Reading
<1>3. ListInv'
  BY <1>1, GoodStays DEF ListInv
<1> QED
  BY <1>2, <1>3

\* The list stays, and only processes that ended are passed over.
LEMMA ListStays ==
  ASSUME ScanInv, step # "failed",
         UNCHANGED <<system, lived, seen, process_info, proc_state>>,
         Ahead' \subseteq Ahead, \A p \in Ahead : p \in lived => p \in Ahead'
  PROVE  ListInv'
BY GoodStays DEF ScanInv, ListInv

\* The list gets an item, for the process it is about.
LEMMA ListGrows ==
  ASSUME ScanInv, step # "failed", UNCHANGED <<system, lived, seen>>,
         NEW x \in Good, proc_state' = Append(proc_state, x),
         process_info' = IF system = "Solaris" THEN x ELSE process_info,
         Ahead' \subseteq Ahead, \A p \in Ahead : p \in lived => p \in Ahead' \/ p = x.pid,
         system # "Solaris" => x.pid \in Ahead \ Ahead'
  PROVE  ListInv'
<1>1. proc_state \in Seq(Good)
  BY DEF ScanInv, ListInv
<1>2. /\ proc_state' \in Seq(Good) /\ Pids(proc_state)' = Pids(proc_state) \cup {x.pid}
      /\ EachOnce(proc_state) /\ x.pid \notin Pids(proc_state) => EachOnce(proc_state')
  BY <1>1, ItemAppended DEF Pids
<1>3. proc_state' \in Seq(Good') /\ x \in Good'
  BY <1>2, GoodStays
<1>4. system # "Solaris" => x.pid \notin Pids(proc_state)
  BY DEF ScanInv, ListInv
<1>5. /\ lived' \subseteq Pids(proc_state)' \cup Ahead'
      /\ system # "Solaris" => Pids(proc_state)' \cap Ahead' = {}
  BY <1>2 DEF ScanInv, ListInv
<1>6. system # "Solaris" => EachOnce(proc_state')
  BY <1>2, <1>4 DEF ScanInv, ListInv
<1>7. system = "Solaris" => process_info' \in Good'
  BY <1>3
<1> QED
  BY <1>3, <1>5, <1>6, <1>7 DEF ListInv, Pids

LEMMA SmallestIs ==
  ASSUME NEW P, P \subseteq Nat, P # {}
  PROVE  Min(P) \in P /\ \A p \in P : Min(P) <= p
<1>1. \E m \in P : \A n \in P : m <= n
  BY LeastNumber
<1> QED
  BY <1>1 DEF Min

LEMMA ReadDirKeeps ==
  ASSUME ScanInv, ReadDir
  PROVE  ScanInv'
<1> USE DEF ScanInv
<1> DEFINE rest == {p \in alive : p > entry}
<1>1. /\ step = "readdir"
      /\ UNCHANGED <<system, alive, born, kp_stats, procs, process_info, proc_state,
                     process_stat, lived, seen, item>>
      /\ \/ rest = {} /\ step' = "count" /\ entry' = entry
         \/ rest # {} /\ step' = "fopen" /\ entry' = Min(rest)
  BY DEF ReadDir, Goto
<1>2. alive \subseteq Processes /\ Processes \subseteq Nat /\ alive \subseteq seen
  BY <1>1, ScanAssumption DEF KernelInv
<1>3. rest # {} => Min(rest) \in rest /\ \A p \in rest : Min(rest) <= p
  BY <1>2, SmallestIs
<1>4. Ahead = {p \in Processes : p > entry}
  BY <1>1 DEF Ahead, Reading
<1>5. KernelInv' /\ WalkTypes' /\ StepsInv' /\ CountInv'
  BY <1>1, <1>2, <1>3 DEF KernelInv, WalkTypes, StepsInv, CountInv
<1>6. ReadInv'
  BY <1>1, <1>2, <1>3 DEF ReadInv, Reading
<1>7. Ahead' \subseteq Ahead /\ \A p \in Ahead : p \in lived => p \in Ahead'
  <2>1. \A p \in Ahead : p \in lived => p \in rest
    BY <1>4 DEF KernelInv
  <2>2. CASE rest = {}
    <3>1. Ahead' = {}
      BY <1>1, <2>2 DEF Ahead
    <3> QED
      BY <2>1, <2>2, <3>1
  <2>3. CASE rest # {}
    <3>1. PICK m \in Nat : m = Min(rest) /\ m > entry /\ \A p \in rest : m <= p
      BY <1>2, <1>3, <2>3
    <3>2. Ahead' = {p \in Processes : p >= m}
      BY <1>1, <2>3, <3>1 DEF Ahead, Reading
    <3> HIDE DEF rest
    <3>3. entry \in Nat
      BY DEF WalkTypes
    <3>4. \A p \in Processes : p >= m => p > entry
      BY <1>2, <3>1, <3>3
    <3>5. \A p \in Ahead : p \in lived => p \in Ahead'
      <4>1. ASSUME NEW p \in Ahead, p \in lived PROVE p \in Ahead'
        <5>1. p \in Processes /\ m <= p /\ p \in Nat
          BY <1>2, <1>4, <2>1, <3>1, <4>1
        <5>2. p >= m
          BY <3>1, <5>1
        <5> QED
          BY <3>2, <5>1, <5>2
      <4> QED
        BY <4>1
    <3> QED
      BY <1>4, <3>2, <3>4, <3>5
  <2> QED
    BY <2>2, <2>3
<1>8. ListInv'
  BY <1>1, <1>7, ListStays
<1> QED
  BY <1>5, <1>6, <1>8

\* Where the process found is looked at again; when it ended it is passed over.
LEMMA EntryKept ==
  ASSUME ScanInv, step \in Reading, step' \in Reading \cup {"readdir"}, entry' = entry,
         step' = "readdir" => entry \notin alive
  PROVE  Ahead' \subseteq Ahead /\ \A p \in Ahead : p \in lived => p \in Ahead'
<1>1. entry \in Nat /\ Processes \subseteq Nat /\ lived \subseteq alive
  BY ScanAssumption DEF ScanInv, WalkTypes, KernelInv
<1>2. Ahead = {p \in Processes : p >= entry}
  BY DEF Ahead, Reading
<1>3. CASE step' \in Reading
  <2>1. Ahead' = {p \in Processes : p >= entry}
    BY <1>3 DEF Ahead, Reading
  <2> QED
    BY <1>2, <2>1
<1>4. CASE step' = "readdir"
  <2>1. Ahead' = {p \in Processes : p > entry}
    BY <1>4 DEF Ahead, Reading
  <2>2. \A p \in Processes : p >= entry => p = entry \/ p > entry
    BY <1>1
  <2>3. \A p \in Processes : p > entry => p >= entry
    BY <1>1
  <2>4. Ahead' \subseteq Ahead
    BY <1>2, <2>1, <2>3
  <2>5. ASSUME NEW p \in Ahead, p \in lived PROVE p \in Ahead'
    <3>1. p \in Processes /\ p >= entry /\ p # entry
      BY <1>1, <1>2, <1>4, <2>5
    <3> QED
      BY <2>1, <2>2, <3>1
  <2> QED
    BY <2>4, <2>5
<1> QED
  BY <1>3, <1>4

LEMMA LookKeeps ==
  ASSUME ScanInv, Open \/ ReadStat \/ ReadStatus \/ OpenCmdline
  PROVE  ScanInv'
<1> USE DEF ScanInv
<1>1. /\ step \in {"fopen", "fscanf", "status", "open"}
      /\ step' \in {"readdir", "fscanf", "fread", "status", "open", "read"}
      /\ step' = "readdir" => entry \notin alive
      /\ UNCHANGED <<system, alive, born, kp_stats, procs, process_info, proc_state,
                     process_stat, lived, seen, entry>>
  BY DEF Open, ReadStat, ReadStatus, OpenCmdline, Goto
<1>2. ListInv'
  BY <1>1, EntryKept, ListStays DEF Reading
<1>3. KernelInv' /\ CountInv'
  BY <1>1 DEF KernelInv, CountInv
<1>4. entry \in seen /\ seen \subseteq Processes /\ alive \subseteq seen
  BY <1>1 DEF ReadInv, Reading, KernelInv
<1>5. CASE Open
  <2>1. /\ step = "fopen" /\ item' = item /\ step' \in {"readdir", "fscanf", "fread"}
        /\ step' = "fscanf" => system = "Linux"
        /\ step' = "fread" => system # "Linux"
    BY <1>5 DEF Open, Goto
  <2>2. WalkTypes' /\ StepsInv'
    BY <1>1, <2>1 DEF WalkTypes, StepsInv
  <2>3. ReadInv'
    BY <1>1, <1>4, <2>1 DEF ReadInv, Reading
  <2> QED
    BY <1>2, <1>3, <2>2, <2>3
<1>6. CASE ReadStat
  <2>1. PICK s \in IF entry \in alive THEN ItemStates(entry) ELSE Counted \cup {"unknown"} :
          /\ item' = [pid |-> IF entry \in alive THEN entry ELSE NoProcess,
                      title |-> NoProcess, state |-> s]
          /\ step = "fscanf" /\ step' = "status"
    BY <1>6 DEF ReadStat, Goto
  <2>2. s \in Counted \cup {"unknown"}
    BY <1>4, <2>1, ScanAssumption DEF ItemStates
  <2>3. WalkTypes' /\ StepsInv'
    BY <1>1, <1>4, <2>1, <2>2 DEF WalkTypes, StepsInv, Slot, Numbers
  <2>4. entry \in alive => ItemReady'
    BY <1>1, <2>1 DEF ItemReady, ItemStates
  <2>5. ReadInv'
    BY <1>1, <1>4, <2>1, <2>4 DEF ReadInv, Reading
  <2> QED
    BY <1>2, <1>3, <2>3, <2>5
<1>7. CASE ReadStatus \/ OpenCmdline
  <2>1. /\ item' = item
        /\ \/ step = "status" /\ step' = IF entry \in alive THEN "open" ELSE "readdir"
           \/ step = "open" /\ step' = IF entry \in alive THEN "read" ELSE "readdir"
    BY <1>7 DEF ReadStatus, OpenCmdline, Goto
  <2>2. WalkTypes' /\ StepsInv'
    BY <1>1, <2>1 DEF WalkTypes, StepsInv
  <2>3. ItemReady' = ItemReady
    BY <1>1, <2>1 DEF ItemReady, ItemStates
  <2>4. ReadInv'
    BY <1>1, <1>4, <2>1, <2>3 DEF ReadInv, Reading
  <2> QED
    BY <1>2, <1>3, <2>2, <2>4
<1> QED
  BY <1>5, <1>6, <1>7

LEMMA ReadCmdlineKeeps ==
  ASSUME ScanInv, ReadCmdline
  PROVE  ScanInv'
<1> USE DEF ScanInv
<1>1. /\ step = "read" /\ step' = "readdir" /\ step \in Reading
      /\ UNCHANGED <<system, alive, born, entry, kp_stats, procs, process_info, item,
                     process_stat, lived, seen>>
  BY DEF ReadCmdline, Reading
<1>2. system = "Linux" /\ ItemReady /\ entry \in seen /\ entry \in Processes /\ item \in Slot
  BY <1>1 DEF StepsInv, ReadInv, Reading, KernelInv, WalkTypes
<1>3. KernelInv' /\ WalkTypes' /\ CountInv' /\ ReadInv'
  BY <1>1 DEF KernelInv, WalkTypes, CountInv, ReadInv, Reading
<1>4. StepsInv'
  BY <1>1, <1>2 DEF StepsInv
<1>5. entry \in Nat /\ Processes \subseteq Nat /\ lived \subseteq alive
  BY ScanAssumption DEF WalkTypes, KernelInv
<1>6. Ahead = {p \in Processes : p >= entry} /\ Ahead' = {p \in Processes : p > entry}
  BY <1>1 DEF Ahead, Reading
<1>7. /\ Ahead' \subseteq Ahead /\ entry \in Ahead \ Ahead'
      /\ \A p \in Ahead : p \in Ahead' \/ p = entry
  <2>1. \A p \in Processes : p > entry => p >= entry
    BY <1>5
  <2>2. \A p \in Processes : p >= entry => p > entry \/ p = entry
    BY <1>5
  <2>3. entry >= entry /\ ~ (entry > entry)
    BY <1>5
  <2> QED
    BY <1>2, <1>6, <2>1, <2>2, <2>3
<1>8. ASSUME NEW x \in Good, x.pid = entry, proc_state' = Append(proc_state, x)
      PROVE  ListInv'
  BY <1>1, <1>2, <1>7, <1>8, ListGrows
<1>9. CASE entry \in alive /\ proc_state' = Append(proc_state, [item EXCEPT !.title = entry])
  <2> DEFINE x == [item EXCEPT !.title = entry]
  <2>1. x \in Slot /\ x.pid = item.pid /\ x.state = item.state /\ x.title = entry
    BY <1>2 DEF Slot, Numbers
  <2> HIDE DEF x
  <2>2. x \in Good
    BY <1>2, <2>1 DEF Good, ItemReady
  <2>3. x.pid = entry
    BY <1>2, <2>1 DEF ItemReady
  <2>4. proc_state' = Append(proc_state, x)
    BY <1>9 DEF x
  <2> QED
    BY <1>3, <1>4, <1>8, <2>2, <2>3, <2>4
<1>10. CASE entry \notin alive /\ proc_state' = Append(proc_state, item)
  <2>1. item \in Good /\ item.pid = entry
    BY <1>2 DEF Good, ItemReady
  <2> QED
    BY <1>3, <1>4, <1>8, <1>10, <2>1
<1>11. CASE entry \notin alive /\ proc_state' = proc_state
  <2>1. ListInv'
    BY <1>1, <1>5, <1>7, <1>11, ListStays
  <2> QED
    BY <1>3, <1>4, <2>1
<1> QED
  BY <1>9, <1>10, <1>11 DEF ReadCmdline

LEMMA ReadPsinfoKeeps ==
  ASSUME ScanInv, ReadPsinfo
  PROVE  ScanInv'
<1> USE DEF ScanInv
<1>1. /\ step = "fread" /\ step' = "readdir" /\ step \in Reading
      /\ UNCHANGED <<system, alive, born, entry, kp_stats, procs, item,
                     process_stat, lived, seen>>
      /\ proc_state' = Append(proc_state, process_info')
  BY DEF ReadPsinfo, Reading
<1>2. system = "Solaris" /\ entry \in seen /\ entry \in Processes /\ process_info \in Good
  BY <1>1 DEF StepsInv, ReadInv, Reading, KernelInv, ListInv
<1>3. process_info' \in Good /\ (entry \in alive => process_info'.pid = entry)
  <2>1. CASE entry \in alive
    <3>1. PICK s \in ItemStates(entry) :
            process_info' = [pid |-> entry, title |-> entry, state |-> s]
      BY <2>1 DEF ReadPsinfo
    <3>2. s \in Counted \cup {"unknown"}
      BY <1>2, ScanAssumption DEF ItemStates
    <3>3. process_info' \in Slot
      BY <1>2, <3>1, <3>2 DEF Slot, Numbers
    <3> QED
      BY <1>2, <3>1, <3>3 DEF Good
  <2>2. CASE entry \notin alive
    BY <1>2, <2>2 DEF ReadPsinfo
  <2> QED
    BY <2>1, <2>2
<1>4. process_info' \in Slot
  BY <1>3 DEF Good
<1>5. KernelInv' /\ WalkTypes' /\ CountInv' /\ ReadInv' /\ StepsInv'
  BY <1>1, <1>2, <1>4 DEF KernelInv, WalkTypes, CountInv, ReadInv, Reading, StepsInv
<1>6. entry \in Nat /\ Processes \subseteq Nat /\ lived \subseteq alive
  BY ScanAssumption DEF WalkTypes, KernelInv
<1>7. Ahead = {p \in Processes : p >= entry} /\ Ahead' = {p \in Processes : p > entry}
  BY <1>1 DEF Ahead, Reading
<1>8. Ahead' \subseteq Ahead /\ \A p \in Ahead : p \in Ahead' \/ p = entry
  <2>1. \A p \in Processes : p > entry => p >= entry
    BY <1>6
  <2>2. \A p \in Processes : p >= entry => p > entry \/ p = entry
    BY <1>6
  <2> QED
    BY <1>7, <2>1, <2>2
<1>9. PICK x \in Good : x = process_info'
  BY <1>3
<1>10. \A p \in Ahead : p \in lived => p \in Ahead' \/ p = x.pid
  BY <1>3, <1>6, <1>8, <1>9
<1>11. ListInv'
  BY <1>1, <1>2, <1>8, <1>9, <1>10, ListGrows
<1> QED
  BY <1>5, <1>11

\* The copy has every process there is, each once; what is left of it is zero.
Copy(P, n) == InOrder(P) \o [i \in 1..n - Cardinality(P) |-> NoProcess]

LEMMA CopyIs ==
  ASSUME NEW P, P \subseteq Processes, IsFiniteSet(P), NEW n \in Nat, Cardinality(P) <= n
  PROVE  /\ Copy(P, n) \in Seq(Numbers)
         /\ P \subseteq ToSet(Copy(P, n))
         /\ \A i \in DOMAIN Copy(P, n) : Copy(P, n)[i] \in P \cup {NoProcess}
         /\ \A i, j \in DOMAIN Copy(P, n) :
              Copy(P, n)[i] = Copy(P, n)[j] /\ Copy(P, n)[i] # NoProcess => i = j
<1>1. PICK c \in Nat : c = Cardinality(P)
  BY InOrderIs
<1>2. PICK d \in Nat : d = n - c
  BY <1>1
<1>3. PICK r \in [1..c -> P] :
        /\ r = InOrder(P)
        /\ \A i, j \in 1..c : i < j => r[i] < r[j]
        /\ \A p \in P : \E i \in 1..c : r[i] = p
  BY <1>1, InOrderIs
<1> DEFINE z == [i \in 1..d |-> NoProcess]
           kp == r \o z
<1>4. /\ r \in Seq(P) /\ Len(r) = c /\ z \in Seq({NoProcess}) /\ Len(z) = d
      /\ P \subseteq Numbers /\ NoProcess \in Numbers
  BY DEF Numbers
<1>5. r \in Seq(Numbers) /\ z \in Seq(Numbers)
  BY <1>4
<1>6. /\ kp \in Seq(Numbers) /\ Len(kp) = c + d
      /\ \A i \in 1..c : kp[i] = r[i]
      /\ \A i \in 1..(c + d) : i > c => kp[i] = z[i - c]
  <2> HIDE DEF z
  <2> QED
    BY <1>4, <1>5
<1>7. \A i \in 1..(c + d) : i > c => kp[i] = NoProcess
  <2>1. \A i \in 1..(c + d) : i > c => i - c \in 1..d
    OBVIOUS
  <2>2. \A i \in 1..d : z[i] = NoProcess
    OBVIOUS
  <2> HIDE DEF z, kp
  <2> QED
    BY <1>6, <2>1, <2>2
<1> HIDE DEF kp
<1>8. \A i \in 1..(c + d) : i > c \/ i \in 1..c
  OBVIOUS
<1>9. DOMAIN kp = 1..(c + d)
  BY <1>6
<1>10. \A i \in DOMAIN kp : kp[i] \in P \cup {NoProcess}
  BY <1>3, <1>6, <1>7, <1>8, <1>9
<1>11. \A i, j \in 1..c : r[i] = r[j] => i = j
  <2>1. \A i \in 1..c : r[i] \in Nat
    BY ScanAssumption
  <2> QED
    BY <1>3, <2>1
<1>12. \A i, j \in DOMAIN kp : kp[i] = kp[j] /\ kp[i] # NoProcess => i = j
  BY <1>6, <1>7, <1>8, <1>9, <1>11
<1>13. \A i \in 1..c : i \in DOMAIN kp
  BY <1>9
<1>14. P \subseteq ToSet(kp)
  BY <1>3, <1>6, <1>13 DEF ToSet
<1>15. kp = Copy(P, n)
  BY <1>1, <1>2, <1>3 DEF kp, Copy
<1> QED
  BY <1>6, <1>10, <1>12, <1>14, <1>15

LEMMA AliveIsFinite == ScanInv => IsFiniteSet(alive) /\ Cardinality(alive) \in Nat
BY ScanAssumption, FS_Subset, FS_CardinalityType DEF ScanInv, KernelInv

LEMMA TableSizeKeeps ==
  ASSUME ScanInv, TableSize
  PROVE  ScanInv'
<1> USE DEF ScanInv
<1>1. /\ step = "size" /\ step' = "sysctl" /\ procs' = Cardinality(alive) + Spare
      /\ UNCHANGED <<system, alive, born, entry, kp_stats, process_info, item, proc_state,
                     process_stat, lived, seen>>
  BY DEF TableSize
<1>2. procs' \in Nat
  BY <1>1, AliveIsFinite, ScanAssumption
<1>3. KernelInv' /\ WalkTypes' /\ StepsInv' /\ ReadInv' /\ CountInv'
  BY <1>1, <1>2 DEF KernelInv, WalkTypes, StepsInv, ReadInv, CountInv, Reading
<1>4. Ahead = Processes /\ Ahead' = Processes
  BY <1>1 DEF Ahead, Reading
<1>5. ListInv'
  BY <1>1, <1>4, ListStays
<1> QED
  BY <1>3, <1>5

LEMMA CopyTableKeeps ==
  ASSUME ScanInv, CopyTable
  PROVE  ScanInv'
<1> USE DEF ScanInv
<1>1. CASE Cardinality(alive) > procs
  BY <1>1, FailKeeps DEF CopyTable
<1>2. CASE ~ (Cardinality(alive) > procs)
  <2>1. /\ step = "sysctl" /\ step' = "args"
        /\ kp_stats' = InOrder(alive) \o [i \in 1..procs - Cardinality(alive) |-> NoProcess]
        /\ UNCHANGED <<system, alive, born, entry, procs, process_info, item, proc_state,
                       process_stat, lived, seen>>
    BY <1>2 DEF CopyTable
  <2>2. /\ alive \subseteq Processes /\ alive \subseteq seen /\ lived \subseteq alive
        /\ procs \in Nat /\ Cardinality(alive) <= procs
    BY <1>2, <2>1, AliveIsFinite DEF KernelInv, WalkTypes
  <2>3. /\ kp_stats' \in Seq(Numbers) /\ alive \subseteq ToSet(kp_stats')
        /\ \A i \in DOMAIN kp_stats' : kp_stats'[i] \in alive \cup {NoProcess}
        /\ \A i, j \in DOMAIN kp_stats' :
             kp_stats'[i] = kp_stats'[j] /\ kp_stats'[i] # NoProcess => i = j
    <3>1. kp_stats' = Copy(alive, procs)
      BY <2>1 DEF Copy
    <3> QED
      BY <2>2, <3>1, AliveIsFinite, CopyIs
  <2>4. KernelInv' /\ WalkTypes' /\ StepsInv' /\ CountInv'
    BY <2>1, <2>3 DEF KernelInv, WalkTypes, StepsInv, CountInv
  <2>5. ReadInv'
    BY <2>1, <2>2, <2>3 DEF ReadInv, Reading
  <2>6. Ahead = Processes /\ Ahead' = {p \in Processes : p \in ToSet(kp_stats')}
    BY <2>1 DEF Ahead, Reading
  <2>7. ListInv'
    BY <2>1, <2>2, <2>3, <2>6, ListStays
  <2> QED
    BY <2>4, <2>5, <2>7
<1> QED
  BY <1>1, <1>2

\* What is left of a copy after its first record.
LEMMA TailIs ==
  ASSUME NEW T, NEW s \in Seq(T), s # <<>>
  PROVE  /\ Tail(s) \in Seq(T) /\ Head(s) \in T /\ 1 \in DOMAIN s /\ Head(s) = s[1]
         /\ \A i \in DOMAIN Tail(s) : i + 1 \in DOMAIN s /\ i + 1 # 1 /\ Tail(s)[i] = s[i + 1]
         /\ ToSet(s) = ToSet(Tail(s)) \cup {Head(s)}
<1>1. PICK n \in Nat : Len(s) = n + 1 /\ DOMAIN s = 1..(n + 1)
  <2>1. Len(s) \in Nat \ {0}
    OBVIOUS
  <2> QED
    BY <2>1
<1> DEFINE t == Tail(s)
<1>2. t \in Seq(T) /\ DOMAIN t = 1..n /\ \A i \in 1..n : t[i] = s[i + 1]
  BY <1>1
<1>3. Head(s) = s[1] /\ 1 \in 1..(n + 1) /\ s[1] \in T
  BY <1>1
<1> HIDE DEF t
<1>4. \A i \in 1..n : i + 1 \in 1..(n + 1) /\ i + 1 # 1
  OBVIOUS
<1>5. ToSet(s) = ToSet(t) \cup {s[1]}
  <2>1. ASSUME NEW x \in ToSet(s) PROVE x \in ToSet(t) \cup {s[1]}
    <3>1. PICK i \in 1..(n + 1) : x = s[i]
      BY <1>1 DEF ToSet
    <3>2. i = 1 \/ (i - 1 \in 1..n /\ (i - 1) + 1 = i)
      OBVIOUS
    <3> QED
      BY <1>2, <3>1, <3>2 DEF ToSet
  <2>2. ASSUME NEW x \in ToSet(t) PROVE x \in ToSet(s)
    <3>1. PICK i \in 1..n : x = t[i]
      BY <1>2 DEF ToSet
    <3> QED
      BY <1>1, <1>2, <1>4, <3>1 DEF ToSet
  <2>3. s[1] \in ToSet(s)
    BY <1>1, <1>3 DEF ToSet
  <2> QED
    BY <2>1, <2>2, <2>3
<1> QED
  BY <1>1, <1>2, <1>3, <1>4, <1>5 DEF t

\* The next record of the copy is taken: it is free, or a process not listed before.
LEMMA RecordTaken ==
  ASSUME ScanInv, step = "args", kp_stats # <<>>, UNCHANGED <<seen, alive>>,
         kp_stats' = Tail(kp_stats)
  PROVE  /\ kp_stats' \in Seq(Numbers)
         /\ \A i \in DOMAIN kp_stats' : kp_stats'[i] \in seen \cup {NoProcess}
         /\ \A i, j \in DOMAIN kp_stats' :
              kp_stats'[i] = kp_stats'[j] /\ kp_stats'[i] # NoProcess => i = j
         /\ ToSet(kp_stats) = ToSet(kp_stats') \cup {Head(kp_stats)}
         /\ Head(kp_stats) # NoProcess =>
              /\ Head(kp_stats) \in seen
              /\ Head(kp_stats) \in Processes
              /\ Head(kp_stats) \notin ToSet(kp_stats')
<1> DEFINE s == kp_stats
           t == Tail(kp_stats)
<1>1. /\ s \in Seq(Numbers)
      /\ \A i \in DOMAIN s : s[i] \in seen \cup {NoProcess}
      /\ \A i, j \in DOMAIN s : s[i] = s[j] /\ s[i] # NoProcess => i = j
  BY DEF ScanInv, WalkTypes, ReadInv
<1>2. /\ t \in Seq(Numbers) /\ Head(s) \in Numbers /\ 1 \in DOMAIN s /\ Head(s) = s[1]
      /\ \A i \in DOMAIN t : i + 1 \in DOMAIN s /\ i + 1 # 1 /\ t[i] = s[i + 1]
      /\ ToSet(s) = ToSet(t) \cup {Head(s)}
  BY <1>1, TailIs
<1>3. DOMAIN t = 1..Len(t) /\ Len(t) \in Nat
  BY <1>2
<1>4. kp_stats' = t
  OBVIOUS
<1> HIDE DEF s, t
<1>5. \A i \in DOMAIN t : t[i] \in seen \cup {NoProcess}
  BY <1>1, <1>2
<1>6. \A i, j \in DOMAIN t : t[i] = t[j] /\ t[i] # NoProcess => i = j
  <2>1. ASSUME NEW i \in DOMAIN t, NEW j \in DOMAIN t, t[i] = t[j], t[i] # NoProcess
        PROVE  i = j
    <3>1. i + 1 = j + 1
      BY <1>1, <1>2, <2>1
    <3>2. i \in Nat /\ j \in Nat
      BY <1>3
    <3> QED
      BY <3>1, <3>2
  <2> QED
    BY <2>1
<1>7. Head(s) # NoProcess => Head(s) \in seen /\ Head(s) \in Processes
  BY <1>1, <1>2 DEF Numbers
<1>8. ASSUME Head(s) # NoProcess, Head(s) \in ToSet(t) PROVE FALSE
  <2>1. PICK i \in DOMAIN t : t[i] = Head(s)
    BY <1>8 DEF ToSet
  <2> QED
    BY <1>1, <1>2, <1>8, <2>1
<1> QED
  BY <1>2, <1>4, <1>5, <1>6, <1>7, <1>8 DEF s

LEMMA ArgsKeeps ==
  ASSUME ScanInv, Args
  PROVE  ScanInv'
<1> USE DEF ScanInv
<1>1. /\ step = "args"
      /\ UNCHANGED <<system, alive, born, procs, process_info, process_stat, lived, seen>>
  BY DEF Args
<1>2. system # "Solaris" /\ seen \subseteq Processes /\ NoProcess \notin Processes
  BY <1>1, ScanAssumption DEF StepsInv, KernelInv
<1>3. Ahead = {q \in Processes : q \in ToSet(kp_stats)}
  BY <1>1 DEF Ahead, Reading
<1>4. CASE kp_stats = <<>>
  <2>1. step' = "count" /\ UNCHANGED <<entry, kp_stats, item, proc_state>>
    BY <1>4 DEF Args
  <2>2. KernelInv' /\ WalkTypes' /\ StepsInv' /\ CountInv' /\ ReadInv'
    BY <1>1, <2>1 DEF KernelInv, WalkTypes, StepsInv, CountInv, ReadInv, Reading
  <2>3. Ahead = {} /\ Ahead' = {}
    <3>1. ToSet(kp_stats) = {}
      BY <1>4 DEF ToSet
    <3> QED
      BY <1>3, <2>1, <3>1 DEF Ahead
  <2>4. ListInv'
    BY <1>1, <2>1, <2>3, ListStays
  <2> QED
    BY <2>2, <2>4
<1>5. CASE kp_stats # <<>>
  <2> DEFINE p == Head(kp_stats)
  <2>1. /\ kp_stats' = Tail(kp_stats)
        /\ \/ p = NoProcess /\ UNCHANGED <<step, entry, item, proc_state>>
           \/ /\ p # NoProcess
              /\ \E s \in ItemStates(p) :
                   /\ entry' = p
                   /\ item' = ItemOf(p, s)
                   /\ \/ system = "NetBSD" /\ step' = "lwp" /\ UNCHANGED proc_state
                      \/ proc_state' = Append(proc_state, item') /\ step' = step
    BY <1>5 DEF Args
  <2>2. /\ kp_stats' \in Seq(Numbers)
        /\ \A i \in DOMAIN kp_stats' : kp_stats'[i] \in seen \cup {NoProcess}
        /\ \A i, j \in DOMAIN kp_stats' :
             kp_stats'[i] = kp_stats'[j] /\ kp_stats'[i] # NoProcess => i = j
        /\ ToSet(kp_stats) = ToSet(kp_stats') \cup {p}
        /\ p # NoProcess => p \in seen /\ p \in Processes /\ p \notin ToSet(kp_stats')
    BY <1>1, <1>5, <2>1, RecordTaken
  <2> HIDE DEF p
  <2>3. CASE p = NoProcess
    <3>1. UNCHANGED <<step, entry, item, proc_state>>
      BY <2>1, <2>3
    <3>2. KernelInv' /\ WalkTypes' /\ StepsInv' /\ CountInv'
      BY <1>1, <2>2, <3>1 DEF KernelInv, WalkTypes, StepsInv, CountInv
    <3>3. ReadInv'
      BY <1>1, <2>2, <3>1 DEF ReadInv, Reading
    <3>4. Ahead' = {q \in Processes : q \in ToSet(kp_stats')}
      BY <1>1, <3>1 DEF Ahead, Reading
    <3>5. Ahead' = Ahead
      BY <1>2, <1>3, <2>2, <2>3, <3>4
    <3>6. ListInv'
      BY <1>1, <3>1, <3>5, ListStays
    <3> QED
      BY <3>2, <3>3, <3>6
  <2>4. ASSUME p # NoProcess, NEW s \in ItemStates(p), entry' = p, item' = ItemOf(p, s)
        PROVE  /\ entry' \in Nat /\ item' \in Good /\ item'.pid = p /\ ItemReady'
               /\ WalkTypes'
    <3>1. p \in Processes /\ p \in seen /\ p \in Nat /\ s \in Counted \cup {"unknown"}
      BY <2>2, <2>4, ScanAssumption DEF ItemStates
    <3>2. /\ item'.pid = p /\ item'.title \in {p, NoProcess} /\ item'.state = s
          /\ item' \in Slot
      BY <2>4, <3>1 DEF ItemOf, TitleOf, Slot, Numbers
    <3>3. item' \in Good
      BY <2>4, <3>1, <3>2 DEF Good
    <3>4. ItemReady'
      BY <1>1, <2>4, <3>2 DEF ItemReady, ItemStates
    <3>5. WalkTypes'
      BY <1>1, <2>2, <2>4, <3>1, <3>2 DEF WalkTypes
    <3> QED
      BY <2>4, <3>1, <3>2, <3>3, <3>4, <3>5
  <2>5. CASE p # NoProcess
    <3>1. PICK s \in ItemStates(p) :
                   /\ entry' = p
                   /\ item' = ItemOf(p, s)
                   /\ \/ system = "NetBSD" /\ step' = "lwp" /\ UNCHANGED proc_state
                      \/ proc_state' = Append(proc_state, item') /\ step' = step
      BY <2>1, <2>5
    <3>2. /\ item' \in Good /\ item'.pid = p /\ ItemReady' /\ WalkTypes'
          /\ p \in seen /\ p \in Processes /\ p \notin ToSet(kp_stats')
      BY <2>2, <2>4, <2>5, <3>1
    <3>3. KernelInv' /\ StepsInv' /\ CountInv'
      BY <1>1, <1>2, <3>1 DEF KernelInv, StepsInv, CountInv
    <3>4. ReadInv'
      BY <1>1, <2>2, <3>1, <3>2 DEF ReadInv, Reading
    <3>5. CASE step' = "lwp" /\ UNCHANGED proc_state
      <4>1. Ahead' = {q \in Processes : q \in ToSet(kp_stats') \cup {p}}
        BY <3>1, <3>5 DEF Ahead, Reading
      <4>2. Ahead' = Ahead
        BY <1>3, <2>2, <4>1
      <4>3. ListInv'
        BY <1>1, <3>5, <4>2, ListStays
      <4> QED
        BY <3>2, <3>3, <3>4, <4>3
    <3>6. CASE proc_state' = Append(proc_state, item') /\ step' = step
      <4>1. Ahead' = {q \in Processes : q \in ToSet(kp_stats')}
        BY <1>1, <3>6 DEF Ahead, Reading
      <4>2. Ahead' \subseteq Ahead /\ p \in Ahead \ Ahead'
            /\ \A q \in Ahead : q \in Ahead' \/ q = p
        BY <1>3, <2>2, <3>2, <4>1
      <4>3. PICK x \in Good : x = item'
        BY <3>2
      <4>4. ListInv'
        BY <1>1, <1>2, <3>2, <3>6, <4>2, <4>3, ListGrows
      <4> QED
        BY <3>2, <3>3, <3>4, <4>4
    <3> QED
      BY <3>1, <3>5, <3>6
  <2> QED
    BY <2>3, <2>5
<1> QED
  BY <1>4, <1>5

LEMMA LwpsKeeps ==
  ASSUME ScanInv, Lwps
  PROVE  ScanInv'
<1> USE DEF ScanInv
<1>1. CASE entry \notin alive
  BY <1>1, FailKeeps DEF Lwps
<1>2. CASE entry \in alive
  <2>1. /\ step = "lwp" /\ step' = "args" /\ proc_state' = Append(proc_state, item)
        /\ UNCHANGED <<system, alive, born, entry, kp_stats, procs, process_info, item,
                       process_stat, lived, seen>>
    BY <1>2 DEF Lwps
  <2>2. /\ system # "Solaris" /\ ItemReady /\ entry \in seen /\ entry \in Processes
        /\ entry \notin ToSet(kp_stats) /\ item \in Slot
    BY <2>1 DEF StepsInv, ReadInv, KernelInv, WalkTypes
  <2>3. item \in Good /\ item.pid = entry
    BY <2>2 DEF Good, ItemReady
  <2>4. KernelInv' /\ WalkTypes' /\ StepsInv' /\ CountInv'
    BY <2>1, <2>2 DEF KernelInv, WalkTypes, StepsInv, CountInv
  <2>5. ReadInv'
    BY <2>1 DEF ReadInv, Reading
  <2>6. /\ Ahead = {q \in Processes : q \in ToSet(kp_stats) \cup {entry}}
        /\ Ahead' = {q \in Processes : q \in ToSet(kp_stats)}
    BY <2>1 DEF Ahead, Reading
  <2>7. Ahead' \subseteq Ahead /\ entry \in Ahead \ Ahead'
        /\ \A q \in Ahead : q \in Ahead' \/ q = entry
    BY <2>2, <2>6
  <2>8. ListInv'
    BY <2>1, <2>2, <2>3, <2>7, ListGrows
  <2> QED
    BY <2>4, <2>5, <2>8
<1> QED
  BY <1>1, <1>2

\* A batch of items.
LEMMA ItemsAppended ==
  ASSUME NEW G, NEW s \in Seq(G), NEW t \in Seq(G), EachOnce(s), EachOnce(t),
         Pids(s) \cap Pids(t) = {}
  PROVE  s \o t \in Seq(G) /\ Pids(s \o t) = Pids(s) \cup Pids(t) /\ EachOnce(s \o t)
<1>1. PICK n \in Nat, m \in Nat : Len(s) = n /\ Len(t) = m
  OBVIOUS
<1> DEFINE u == s \o t
<1>2. /\ u \in Seq(G) /\ DOMAIN u = 1..(n + m) /\ DOMAIN s = 1..n /\ DOMAIN t = 1..m
      /\ \A i \in 1..n : u[i] = s[i]
      /\ \A i \in 1..m : u[n + i] = t[i]
  BY <1>1
<1> HIDE DEF u
<1>3. /\ \A i \in 1..(n + m) : i \in 1..n \/ (i - n \in 1..m /\ n + (i - n) = i)
      /\ \A i \in 1..n : i \in 1..(n + m)
      /\ \A i \in 1..m : n + i \in 1..(n + m)
  OBVIOUS
<1>4. Pids(u) = Pids(s) \cup Pids(t)
  <2>1. ASSUME NEW p \in Pids(u) PROVE p \in Pids(s) \cup Pids(t)
    <3>1. PICK i \in 1..(n + m) : p = u[i].pid
      BY <1>2 DEF Pids
    <3>2. CASE i \in 1..n
      BY <1>2, <3>1, <3>2 DEF Pids
    <3>3. CASE i - n \in 1..m /\ n + (i - n) = i
      <4>1. u[i] = t[i - n]
        BY <1>2, <3>3
      <4> QED
        BY <1>2, <3>1, <3>3, <4>1 DEF Pids
    <3> QED
      BY <1>3, <3>2, <3>3
  <2>2. ASSUME NEW p \in Pids(s) PROVE p \in Pids(u)
    BY <1>2, <1>3, <2>2 DEF Pids
  <2>3. ASSUME NEW p \in Pids(t) PROVE p \in Pids(u)
    <3>1. PICK i \in 1..m : p = t[i].pid
      BY <1>2, <2>3 DEF Pids
    <3>2. n + i \in DOMAIN u /\ u[n + i].pid = p
      BY <1>2, <1>3, <3>1
    <3> QED
      BY <3>2 DEF Pids
  <2> QED
    BY <2>1, <2>2, <2>3
<1>5. EachOnce(u)
  <2>1. ASSUME NEW i \in 1..(n + m), NEW j \in 1..(n + m), u[i].pid = u[j].pid PROVE i = j
    <3>1. CASE i \in 1..n /\ j \in 1..n
      BY <1>2, <2>1, <3>1 DEF EachOnce
    <3>2. CASE i \notin 1..n /\ j \notin 1..n
      <4>1. i - n \in 1..m /\ j - n \in 1..m /\ t[i - n].pid = t[j - n].pid
        BY <1>2, <1>3, <2>1, <3>2
      <4>2. i - n = j - n
        BY <1>2, <4>1 DEF EachOnce
      <4> QED
        BY <4>2
    <3>3. \A h \in 1..n, l \in 1..(n + m) : l \notin 1..n => u[h].pid # u[l].pid
      <4>1. ASSUME NEW h \in 1..n, NEW l \in 1..(n + m), l \notin 1..n
            PROVE  u[h].pid # u[l].pid
        <5>1. u[h].pid \in Pids(s)
          BY <1>2 DEF Pids
        <5>2. u[l].pid \in Pids(t)
          <6>1. l - n \in 1..m /\ u[l] = t[l - n]
            BY <1>2, <1>3, <4>1
          <6> QED
            BY <1>2, <6>1 DEF Pids
        <5> QED
          BY <5>1, <5>2
      <4> QED
        BY <4>1
    <3> QED
      BY <2>1, <3>1, <3>2, <3>3
  <2> QED
    BY <1>2, <2>1 DEF EachOnce
<1> QED
  BY <1>2, <1>4, <1>5 DEF u

LEMMA NextBatchKeeps ==
  ASSUME ScanInv, NextBatch
  PROVE  ScanInv'
<1> USE DEF ScanInv
<1> DEFINE P == {p \in alive : p > entry}
           rest == InOrder(P)
           num == Min({Batch, Len(rest)})
           more(s) == [i \in 1..num |-> [pid |-> rest[i], title |-> rest[i], state |-> s[i]]]
<1>8. PICK s \in [1..num -> Counted \cup {"unknown"}] :
        /\ \A i \in 1..num : s[i] \in ItemStates(rest[i])
        /\ proc_state' = proc_state \o more(s)
        /\ IF num = 0 THEN step' = "count" /\ entry' = entry
           ELSE entry' = rest[num] /\ step' = step
  BY DEF NextBatch
<1>1. /\ step = "pstat_getproc"
      /\ UNCHANGED <<system, alive, born, kp_stats, procs, process_info, item,
                     process_stat, lived, seen>>
  BY DEF NextBatch
<1>2. /\ system # "Solaris" /\ alive \subseteq seen /\ seen \subseteq Processes
      /\ Processes \subseteq Nat /\ lived \subseteq alive /\ entry \in Nat
  BY <1>1, ScanAssumption DEF StepsInv, KernelInv, WalkTypes
<1>3. P \subseteq alive /\ P \subseteq Processes /\ IsFiniteSet(P)
  BY <1>2, AliveIsFinite, FS_Subset
<1> HIDE DEF P
<1>4. PICK n \in Nat : n = Cardinality(P)
  BY <1>3, InOrderIs
<1>5. /\ rest \in [1..n -> P]
      /\ \A i, j \in 1..n : i < j => rest[i] < rest[j]
      /\ \A p \in P : \E i \in 1..n : rest[i] = p
  BY <1>3, <1>4, InOrderIs
<1> HIDE DEF rest
<1>6. Len(rest) = n
  BY <1>5
<1>7. num \in 0..n /\ (num = 0 => n = 0)
  <2>1. {Batch, n} \subseteq Nat /\ Batch # 0
    BY ScanAssumption
  <2>2. Min({Batch, n}) \in {Batch, n} /\ \A x \in {Batch, n} : Min({Batch, n}) <= x
    BY <2>1, SmallestIs
  <2>3. Min({Batch, n}) <= n /\ Min({Batch, n}) \in Nat
    BY <2>1, <2>2
  <2>4. num = Min({Batch, n})
    BY <1>6
  <2> QED
    BY <2>1, <2>2, <2>3, <2>4
<1> HIDE DEF num
<1> DEFINE t == more(s)
<1>9. \A i \in 1..num : i \in 1..n /\ rest[i] \in P
  BY <1>5, <1>7
<1>10. /\ t \in [1..num -> Good] /\ \A i \in 1..num : t[i].pid = rest[i]
  <2>1. ASSUME NEW i \in 1..num
        PROVE  [pid |-> rest[i], title |-> rest[i], state |-> s[i]] \in Good
    <3>1. rest[i] \in Processes /\ rest[i] \in seen
      BY <1>2, <1>3, <1>9
    <3>2. s[i] \in Counted \cup {"unknown"} /\ s[i] \in ItemStates(rest[i])
      BY <1>8
    <3> QED
      BY <3>1, <3>2 DEF Good, Slot, Numbers
  <2> QED
    BY <2>1
<1>11. t \in Seq(Good) /\ DOMAIN t = 1..num
  BY <1>7, <1>10
<1> HIDE DEF t
<1>12. \A i, j \in 1..n : rest[i] = rest[j] => i = j
  <2>1. \A i \in 1..n : rest[i] \in Nat
    BY <1>2, <1>3, <1>5
  <2> QED
    BY <1>5, <2>1
<1>13. EachOnce(t)
  BY <1>9, <1>10, <1>11, <1>12 DEF EachOnce
<1>14. Pids(t) = {rest[i] : i \in 1..num}
  BY <1>10, <1>11 DEF Pids
<1>15. Ahead = {p \in Processes : p > entry}
  BY <1>1 DEF Ahead, Reading
<1>16. Pids(t) \subseteq Ahead
  BY <1>2, <1>9, <1>14, <1>15 DEF P
<1>17. /\ proc_state \in Seq(Good) /\ EachOnce(proc_state)
       /\ lived \subseteq Pids(proc_state) \cup Ahead /\ Pids(proc_state) \cap Ahead = {}
  BY <1>1, <1>2 DEF ListInv
<1>18. /\ proc_state' \in Seq(Good)
       /\ Pids(proc_state)' = Pids(proc_state) \cup Pids(t)
       /\ EachOnce(proc_state')
  <2>1. proc_state' = proc_state \o t
    BY <1>8 DEF t
  <2>2. Pids(proc_state) \cap Pids(t) = {}
    BY <1>16, <1>17
  <2>3. /\ proc_state \o t \in Seq(Good) /\ EachOnce(proc_state \o t)
        /\ Pids(proc_state \o t) = Pids(proc_state) \cup Pids(t)
    BY <1>11, <1>13, <1>17, <2>2, ItemsAppended
  <2>4. Pids(proc_state)' = Pids(proc_state')
    BY DEF Pids
  <2> QED
    BY <2>1, <2>3, <2>4
<1>19. /\ entry' \in Nat /\ step' \in {"count", "pstat_getproc"}
       /\ Ahead' \subseteq Ahead /\ Pids(t) \cap Ahead' = {}
       /\ \A p \in Ahead : p \in lived => p \in Ahead' \/ p \in Pids(t)
  <2>1. CASE num = 0
    <3>1. step' = "count" /\ entry' = entry
      BY <1>8, <2>1
    <3>2. Ahead' = {}
      BY <3>1 DEF Ahead
    <3>3. \A p \in Ahead : p \in lived => p \in P
      BY <1>2, <1>15 DEF P
    <3>4. P = {}
      BY <1>5, <1>7, <2>1
    <3> QED
      BY <1>2, <3>1, <3>2, <3>3, <3>4
  <2>2. CASE num # 0
    <3>1. num \in 1..num /\ num \in 1..n
      BY <1>7, <2>2
    <3>2. entry' = rest[num] /\ step' = "pstat_getproc"
      BY <1>1, <1>8, <2>2
    <3>3. PICK e \in Processes : e = rest[num] /\ e \in Nat /\ e > entry
      BY <1>2, <1>3, <1>9, <3>1 DEF P
    <3>4. Ahead' = {p \in Processes : p > e}
      BY <3>2, <3>3 DEF Ahead, Reading
    <3>5. \A p \in Processes : p > e => p > entry
      BY <1>2, <3>3
    <3>6. ASSUME NEW i \in 1..num PROVE ~ (rest[i] > e)
      <4>1. rest[i] \in Nat /\ i \in 1..n
        BY <1>2, <1>3, <1>5, <1>9
      <4>2. CASE i = num
        BY <3>3, <4>1, <4>2
      <4>3. CASE i < num
        <5>1. rest[i] < rest[num]
          BY <1>5, <3>1, <4>1, <4>3
        <5> QED
          BY <3>3, <4>1, <5>1
      <4>4. i = num \/ i < num
        BY <1>7
      <4> QED
        BY <4>2, <4>3, <4>4
    <3>7. ASSUME NEW p \in Ahead, p \in lived PROVE p \in Ahead' \/ p \in Pids(t)
      <4>1. p \in P /\ p \in Processes
        BY <1>2, <1>15, <3>7 DEF P
      <4>2. PICK i \in 1..n : rest[i] = p
        BY <1>5, <4>1
      <4>3. CASE i \in 1..num
        BY <1>14, <4>2, <4>3
      <4>4. CASE i \notin 1..num
        <5>1. num < i
          BY <3>1, <4>4
        <5>2. e < p /\ p \in Nat
          BY <1>2, <1>5, <3>1, <3>3, <4>1, <4>2, <5>1
        <5> QED
          BY <3>3, <3>4, <4>1, <5>2
      <4> QED
        BY <4>3, <4>4
    <3>8. Pids(t) \cap Ahead' = {}
      BY <1>14, <3>4, <3>6
    <3> QED
      BY <1>15, <3>2, <3>3, <3>4, <3>5, <3>7, <3>8
  <2> QED
    BY <2>1, <2>2
<1>20. ListInv'
  <2>1. proc_state' \in Seq(Good')
    BY <1>1, <1>18, GoodStays
  <2>2. /\ lived' \subseteq Pids(proc_state)' \cup Ahead'
        /\ Pids(proc_state)' \cap Ahead' = {}
    BY <1>1, <1>17, <1>18, <1>19
  <2> QED
    BY <1>1, <1>2, <1>18, <2>1, <2>2 DEF ListInv, Pids
<1>21. KernelInv' /\ WalkTypes' /\ StepsInv' /\ ReadInv' /\ CountInv'
  BY <1>1, <1>2, <1>19 DEF KernelInv, WalkTypes, StepsInv, ReadInv, CountInv, Reading
<1> QED
  BY <1>20, <1>21

LEMMA CountKeeps ==
  ASSUME ScanInv, Count
  PROVE  ScanInv'
<1> USE DEF ScanInv
<1>1. /\ step = "count" /\ step' = "done"
      /\ process_stat' = [s \in Counted \cup {"total"} |->
                           IF s = "total" THEN Len(proc_state) ELSE Cardinality(InState(s))]
      /\ UNCHANGED <<system, alive, born, entry, kp_stats, procs, process_info, item,
                     proc_state, lived, seen>>
  BY DEF Count
<1>2. /\ process_stat'.total = Len(proc_state)
      /\ \A s \in Counted : process_stat'[s] = Cardinality(InState(s))
  BY <1>1 DEF Counted
<1>3. \A s : InState(s)' = InState(s)
  BY <1>1 DEF InState
<1>4. CountInv'
  BY <1>1, <1>2, <1>3 DEF CountInv
<1>5. KernelInv' /\ WalkTypes' /\ StepsInv' /\ ReadInv'
  BY <1>1 DEF KernelInv, WalkTypes, StepsInv, ReadInv, Reading
<1>6. Ahead = {} /\ Ahead' = {}
  BY <1>1 DEF Ahead
<1>7. ListInv'
  BY <1>1, <1>6, ListStays
<1> QED
  BY <1>4, <1>5, <1>7

LEMMA ScanInvStep == ScanInv /\ [ScanNext]_scanVars => ScanInv'
<1> SUFFICES ASSUME ScanInv, [ScanNext]_scanVars PROVE ScanInv'
  OBVIOUS
<1>1. CASE UNCHANGED scanVars
  <2> USE DEF ScanInv
  <2>1. UNCHANGED <<system, alive, born, step, entry, kp_stats, procs, process_info, item,
                    proc_state, process_stat, lived, seen>>
    BY <1>1 DEF scanVars, walk
  <2>2. KernelInv' /\ WalkTypes' /\ StepsInv' /\ CountInv'
    BY <2>1 DEF KernelInv, WalkTypes, StepsInv, CountInv, InState
  <2>3. Ahead' = Ahead /\ ItemReady' = ItemReady
    BY <2>1 DEF Ahead, ItemReady, ItemStates, Reading
  <2>4. ListInv'
    BY <2>1, <2>3, GoodStays DEF ListInv
  <2>5. ReadInv'
    BY <2>1, <2>3 DEF ReadInv, Reading
  <2> QED
    BY <2>2, <2>4, <2>5
<1> QED
  BY <1>1, ForkKeeps, ExitKeeps, StartKeeps, ReadDirKeeps, LookKeeps, ReadCmdlineKeeps,
     ReadPsinfoKeeps, TableSizeKeeps, CopyTableKeeps, ArgsKeeps, LwpsKeeps, NextBatchKeeps,
     CountKeeps
  DEF ScanNext, Walk

-----------------------------------------------------------------------------
(* What a walk says *)

LEMMA ListIsRight == ScanInv => ProcessesAreListedOnce
<1> SUFFICES ASSUME ScanInv, step \in {"count", "done"} PROVE
      /\ lived \subseteq Listed
      /\ \A i \in DOMAIN proc_state :
           LET x == proc_state[i] IN
             /\ x.title \in {x.pid, NoProcess}
             /\ system # "Solaris" =>
                  /\ x.pid \in seen
                  /\ \A j \in DOMAIN proc_state : proc_state[j].pid = x.pid => i = j
  BY DEF ProcessesAreListedOnce
<1>1. lived \subseteq Listed
  <2>1. Ahead = {} /\ Listed = Pids(proc_state)
    BY DEF Ahead, Listed, Pids
  <2> QED
    BY <2>1 DEF ScanInv, ListInv
<1>2. \A i \in DOMAIN proc_state : proc_state[i] \in Good
  BY DEF ScanInv, ListInv
<1> QED
  BY <1>1, <1>2 DEF Good, EachOnce, ScanInv, ListInv

\* A set every member of which an item of its own shows is not larger than the items.
LEMMA ShownByItems ==
  ASSUME NEW s, NEW I, I \subseteq DOMAIN s, IsFiniteSet(I), NEW P,
         \A p \in P : \E i \in I : s[i].pid = p
  PROVE  IsFiniteSet(P) /\ Cardinality(P) <= Cardinality(I)
<1> DEFINE f == [p \in P |-> CHOOSE i \in I : s[i].pid = p]
<1>1. \A p \in P : f[p] \in I /\ s[f[p]].pid = p
  OBVIOUS
<1> HIDE DEF f
<1>2. f \in [P -> I]
  BY <1>1 DEF f
<1>3. f \in Injection(P, I)
  BY <1>1, <1>2 DEF Injection, IsInjective
<1> QED
  BY <1>3, FS_Injection

\* Items that show each process once are not more than the processes they show.
LEMMA ItemsShow ==
  ASSUME NEW s, EachOnce(s), NEW I, I \subseteq DOMAIN s, NEW P, IsFiniteSet(P),
         \A i \in I : s[i].pid \in P
  PROVE  Cardinality(I) <= Cardinality(P)
<1> DEFINE f == [i \in I |-> s[i].pid]
<1>1. f \in Injection(I, P)
  BY DEF Injection, IsInjective, EachOnce
<1> HIDE DEF f
<1> QED
  BY <1>1, FS_Injection

LEMMA CountIsRight == ScanInv => ProcessesAreCounted
<1> SUFFICES ASSUME ScanInv, step = "done" PROVE ProcessesAreCounted
  BY DEF ProcessesAreCounted
<1>1. /\ process_stat.total = Len(proc_state)
      /\ \A s \in Counted : process_stat[s] = Cardinality(InState(s))
      /\ proc_state \in Seq(Good)
      /\ lived \subseteq Processes /\ seen \subseteq Processes /\ lived \subseteq Listed
      /\ system # "Solaris" => EachOnce(proc_state)
  BY ListIsRight DEF ScanInv, CountInv, ListInv, KernelInv, ProcessesAreListedOnce
<1>2. PICK n \in Nat : n = Len(proc_state) /\ DOMAIN proc_state = 1..n
  BY <1>1
<1>3. IsFiniteSet(1..n) /\ Cardinality(1..n) = n
  BY FS_Interval
<1>4. \A i \in 1..n : proc_state[i] \in Good
  BY <1>1, <1>2
<1>5. \A p \in lived : \E i \in 1..n : proc_state[i].pid = p
  BY <1>1, <1>2 DEF Listed
<1>6. process_stat.total >= Cardinality(lived)
  <2>1. Cardinality(lived) <= n
    BY <1>2, <1>3, <1>5, ShownByItems
  <2>2. Cardinality(lived) \in Nat
    BY <1>2, <1>3, <1>5, ShownByItems, FS_CardinalityType
  <2> QED
    BY <1>1, <1>2, <2>1, <2>2
<1>7. ASSUME NEW s \in Counted
      PROVE  /\ process_stat[s] >= Cardinality(Those(lived, s))
             /\ process_stat[s] \in Nat /\ process_stat[s] <= n
             /\ system = "Linux" =>
                  process_stat[s] <= Cardinality(Those(seen, s) \cup Those(seen, "other"))
             /\ system \notin {"Linux", "Solaris"} =>
                  process_stat[s] <= Cardinality(Those(seen, s))
  <2> DEFINE I == InState(s)
  <2>1. I \subseteq 1..n /\ I = {i \in 1..n : proc_state[i].state = s}
    BY <1>2 DEF InState
  <2>2. IsFiniteSet(I) /\ Cardinality(I) \in Nat /\ Cardinality(I) <= n
    BY <1>3, <2>1, FS_Subset, FS_CardinalityType
  <2>3. process_stat[s] = Cardinality(I)
    BY <1>1
  <2> HIDE DEF I
  <2>4. s # "other" /\ s # "unknown"
    BY DEF Counted
  <2>5. ASSUME NEW i \in 1..n, proc_state[i].pid \in Processes, State[proc_state[i].pid] = s
        PROVE  i \in I
    <3>1. proc_state[i].state \in ItemStates(proc_state[i].pid)
      BY <1>4, <2>5, ScanAssumption DEF Good
    <3> QED
      BY <2>1, <2>4, <2>5, <3>1 DEF ItemStates
  <2>6. \A p \in Those(lived, s) : \E i \in I : proc_state[i].pid = p
    <3>1. ASSUME NEW p \in Those(lived, s) PROVE \E i \in I : proc_state[i].pid = p
      <4>1. p \in lived /\ p \in Processes /\ State[p] = s
        BY <1>1 DEF Those
      <4>2. PICK i \in 1..n : proc_state[i].pid = p
        BY <1>5, <4>1
      <4> QED
        BY <2>5, <4>1, <4>2
    <3> QED
      BY <3>1
  <2>7. Cardinality(Those(lived, s)) <= Cardinality(I) /\ Cardinality(Those(lived, s)) \in Nat
    BY <1>2, <2>1, <2>2, <2>6, ShownByItems, FS_CardinalityType
  <2>8. IsFiniteSet(Those(seen, s)) /\ IsFiniteSet(Those(seen, s) \cup Those(seen, "other"))
    <3>1. \A P \in SUBSET Processes : IsFiniteSet(P)
      BY ScanAssumption, FS_Subset
    <3>2. Those(seen, s) \in SUBSET Processes
          /\ Those(seen, s) \cup Those(seen, "other") \in SUBSET Processes
      BY <1>1 DEF Those
    <3> QED
      BY <3>1, <3>2
  <2>9. ASSUME system # "Solaris", NEW i \in I
        PROVE  /\ proc_state[i].pid \in Those(seen, s) \cup Those(seen, "other")
               /\ system # "Linux" => proc_state[i].pid \in Those(seen, s)
    <3>1. /\ i \in 1..n /\ proc_state[i].pid \in seen
          /\ s \in ItemStates(proc_state[i].pid)
      BY <1>4, <2>1, <2>9 DEF Good
    <3> QED
      BY <2>4, <2>9, <3>1 DEF ItemStates, Those
  <2>10. system # "Solaris" => EachOnce(proc_state) /\ I \subseteq DOMAIN proc_state
    BY <1>1, <1>2, <2>1
  <2>11. system = "Linux" =>
           Cardinality(I) <= Cardinality(Those(seen, s) \cup Those(seen, "other"))
    BY <2>8, <2>9, <2>10, ItemsShow
  <2>12. system \notin {"Linux", "Solaris"} => Cardinality(I) <= Cardinality(Those(seen, s))
    BY <2>8, <2>9, <2>10, ItemsShow
  <2> QED
    BY <2>2, <2>3, <2>7, <2>11, <2>12
<1> QED
  BY <1>1, <1>2, <1>6, <1>7 DEF ProcessesAreCounted

\* A list of sg_get_process_stats has every process there was all along, and each once
\* (process_stats.c 226-1045), however many there are and whenever they start and end.
THEOREM ProcessesListed == ScanSpec => []ProcessesAreListedOnce
BY ListIsRight, ScanInvInit, ScanInvStep, PTL DEF ScanSpec

\* The counts of sg_get_process_count lie between the processes in a state all along
\* the walk and those there at any time of it (process_stats.c 1158-1213).
THEOREM ProcessesCounted == ScanSpec => []ProcessesAreCounted
BY CountIsRight, ScanInvInit, ScanInvStep, PTL DEF ScanSpec

-----------------------------------------------------------------------------
(* The display *)

\* last_update is set at every key, also when nothing is read: the time since it
\* is never more than the time since the last reading.
SpacingInv ==
  /\ elapsed \in 0..1 /\ gap \in 0..1
  /\ elapsed <= gap

LEMMA SpacingStep ==
  ASSUME SpacingInv, [SaidarNext \/ (Kernel /\ UNCHANGED saidarVars)]_<<vars, saidarVars>>
  PROVE  SpacingInv' /\ (at = "getch" /\ at' = "cpu" => gap >= 1)
<1>1. CASE get_stats
  BY <1>1 DEF get_stats, Take, SpacingInv
<1>2. CASE Second
  BY <1>2 DEF Second, SpacingInv
<1>3. CASE Timeout \/ Key
  BY <1>3 DEF Timeout, Key, Returned, SpacingInv
<1>4. CASE Redraw \/ ResetFlag
  BY <1>4 DEF Redraw, ResetFlag, SpacingInv
<1>5. CASE Quit
  BY <1>5 DEF Quit, SpacingInv
<1>6. CASE sig_winch_handler
  BY <1>6 DEF sig_winch_handler, SpacingInv
<1>7. CASE UNCHANGED saidarVars
  BY <1>7 DEF saidarVars, SpacingInv
<1> QED
  BY <1>1, <1>2, <1>3, <1>4, <1>5, <1>6, <1>7 DEF SaidarNext, SaidarStep

\* A reading in the loop begins a second or more after the one before
\* (saidar.c 671-678).
THEOREM UpdatesSpaced == SaidarSpec => UpdatesAreSpaced
<1>1. Init /\ SaidarInit => SpacingInv
  BY DEF SaidarInit, SpacingInv
<1>2. SpacingInv /\ [SaidarNext \/ (Kernel /\ UNCHANGED saidarVars)]_<<vars, saidarVars>>
        => SpacingInv' /\ [at = "getch" /\ at' = "cpu" => gap >= 1]_<<at, gap>>
  BY SpacingStep
<1> QED
  BY <1>1, <1>2, PTL DEF SaidarSpec, UpdatesAreSpaced

-----------------------------------------------------------------------------
(* The order of the names that statgrab prints *)

Parts == DOMAIN Rank

\* Up to place i - 1 the names a and b are the same.
Alike(a, b, i) == \A j \in 1..(i - 1) : j <= Len(a) /\ j <= Len(b) /\ a[j] = b[j]

\* Two names that differ do so in a first place, or there one of them has ended.
LEMMA FirstDifference ==
  ASSUME NEW a \in Seq(Parts), NEW b \in Seq(Parts), a # b
  PROVE  \E i \in Nat \ {0} :
           /\ Alike(a, b, i)
           /\ \/ i \in 1..Len(a) /\ i \in 1..Len(b) /\ a[i] # b[i]
              \/ i = Len(a) + 1 /\ i \in 1..Len(b)
              \/ i = Len(b) + 1 /\ i \in 1..Len(a)
<1>1. PICK m \in Nat, n \in Nat : m = Len(a) /\ n = Len(b)
  OBVIOUS
<1> DEFINE T == {i \in Nat \ {0} : ~ (i <= m /\ i <= n /\ a[i] = b[i])}
<1>2. T # {}
  <2>1. m + 1 \in T
    OBVIOUS
  <2> QED
    BY <2>1
<1>3. PICK i \in T : \A j \in T : i <= j
  <2> HIDE DEF T
  <2>1. T \subseteq Nat
    BY DEF T
  <2> QED
    BY <1>2, <2>1, LeastNumber
<1>4. \A j \in 1..(i - 1) : j <= m /\ j <= n /\ a[j] = b[j]
  <2> SUFFICES ASSUME NEW j \in 1..(i - 1), j \in T PROVE FALSE
    OBVIOUS
  <2> QED
    BY <1>3
<1>5. Alike(a, b, i)
  BY <1>1, <1>4 DEF Alike
<1>6. \/ i \in 1..m /\ i \in 1..n /\ a[i] # b[i]
      \/ i = m + 1 /\ i \in 1..n
      \/ i = n + 1 /\ i \in 1..m
      \/ i = m + 1 /\ i = n + 1
  <2>1. i = 1 \/ i - 1 \in 1..(i - 1)
    OBVIOUS
  <2>2. i <= m + 1 /\ i <= n + 1
    BY <1>4, <2>1
  <2> QED
    BY <2>2
<1>7. ~ (i = m + 1 /\ i = n + 1)
  <2> SUFFICES ASSUME i = m + 1, i = n + 1 PROVE FALSE
    OBVIOUS
  <2>1. a \in [1..m -> Parts] /\ b \in [1..m -> Parts]
    BY <1>1
  <2>2. \A j \in 1..m : a[j] = b[j]
    BY <1>4
  <2> QED
    BY <2>1, <2>2
<1> QED
  BY <1>1, <1>5, <1>6, <1>7

LEMMA BeforeIs ==
  ASSUME NEW a \in Seq(Parts), NEW b \in Seq(Parts)
  PROVE  Before(a, b) <=> \E i \in Nat \ {0} :
           /\ Alike(a, b, i) /\ i <= Len(b)
           /\ i = Len(a) + 1 \/ (i <= Len(a) /\ Rank[a[i]] < Rank[b[i]])
<1>1. PICK m \in Nat, n \in Nat : m = Len(a) /\ n = Len(b)
  OBVIOUS
<1>2. ASSUME NEW i \in 1..(m + 1),
             \A j \in 1..(i - 1) : j <= n /\ a[j] = b[j],
             i <= n, i > m \/ Rank[a[i]] < Rank[b[i]]
      PROVE  /\ i \in Nat \ {0} /\ Alike(a, b, i) /\ i <= n
             /\ i = m + 1 \/ (i <= m /\ Rank[a[i]] < Rank[b[i]])
  <2>1. \A j \in 1..(i - 1) : j <= m
    OBVIOUS
  <2> QED
    BY <1>1, <1>2, <2>1 DEF Alike
<1>3. ASSUME NEW i \in Nat \ {0}, Alike(a, b, i), i <= n,
             i = m + 1 \/ (i <= m /\ Rank[a[i]] < Rank[b[i]])
      PROVE  /\ i \in 1..(m + 1) /\ \A j \in 1..(i - 1) : j <= n /\ a[j] = b[j]
             /\ i <= n
             /\ i > m \/ Rank[a[i]] < Rank[b[i]]
  BY <1>1, <1>3 DEF Alike
<1> QED
  BY <1>1, <1>2, <1>3 DEF Before

LEMMA RanksAre ==
  ASSUME NEW a \in Seq(Parts), NEW i \in 1..Len(a)
  PROVE  a[i] \in Parts /\ Rank[a[i]] \in Nat
BY ToolAssumption DEF Parts

\* strcmp orders the names, strictly and all of them.
LEMMA BeforeIsStrict ==
  ASSUME NEW a \in Seq(Parts)
  PROVE  ~ Before(a, a)
<1> SUFFICES ASSUME Before(a, a) PROVE FALSE
  OBVIOUS
<1>1. PICK i \in Nat \ {0} : i <= Len(a) /\ (i = Len(a) + 1 \/ Rank[a[i]] < Rank[a[i]])
  BY BeforeIs
<1> QED
  BY <1>1, RanksAre

LEMMA BeforeIsTotal ==
  ASSUME NEW a \in Seq(Parts), NEW b \in Seq(Parts), a # b
  PROVE  Before(a, b) \/ Before(b, a)
<1>1. PICK i \in Nat \ {0} :
           /\ Alike(a, b, i)
           /\ \/ i \in 1..Len(a) /\ i \in 1..Len(b) /\ a[i] # b[i]
              \/ i = Len(a) + 1 /\ i \in 1..Len(b)
              \/ i = Len(b) + 1 /\ i \in 1..Len(a)
  BY FirstDifference
<1>2. Alike(b, a, i)
  BY <1>1 DEF Alike
<1>3. CASE i = Len(a) + 1 \/ i = Len(b) + 1
  BY <1>1, <1>2, <1>3, BeforeIs
<1>4. CASE i \in 1..Len(a) /\ i \in 1..Len(b) /\ a[i] # b[i]
  <2>1. a[i] \in Parts /\ b[i] \in Parts /\ Rank[a[i]] \in Nat /\ Rank[b[i]] \in Nat
    BY <1>4, RanksAre
  <2>2. Rank[a[i]] # Rank[b[i]]
    BY <1>4, <2>1, ToolAssumption DEF Parts
  <2>3. Rank[a[i]] < Rank[b[i]] \/ Rank[b[i]] < Rank[a[i]]
    BY <2>1, <2>2
  <2> QED
    BY <1>1, <1>2, <1>4, <2>3, BeforeIs
<1> QED
  BY <1>1, <1>3, <1>4

LEMMA BeforeIsTransitive ==
  ASSUME NEW a \in Seq(Parts), NEW b \in Seq(Parts), NEW c \in Seq(Parts),
         Before(a, b), Before(b, c)
  PROVE  Before(a, c)
<1>1. PICK i \in Nat \ {0} :
           /\ Alike(a, b, i) /\ i <= Len(b)
           /\ i = Len(a) + 1 \/ (i <= Len(a) /\ Rank[a[i]] < Rank[b[i]])
  BY BeforeIs
<1>2. PICK h \in Nat \ {0} :
           /\ Alike(b, c, h) /\ h <= Len(c)
           /\ h = Len(b) + 1 \/ (h <= Len(b) /\ Rank[b[h]] < Rank[c[h]])
  BY BeforeIs
<1>3. PICK l \in Nat \ {0}, m \in Nat, n \in Nat : l = Len(b) /\ m = Len(a) /\ n = Len(c)
  BY <1>1
<1>4. PICK g \in Nat \ {0} : g = IF i <= h THEN i ELSE h
  OBVIOUS
<1>5. Alike(a, c, g)
  BY <1>1, <1>2, <1>3, <1>4 DEF Alike
<1>6. CASE i < h
  <2>1. b[i] = c[i] /\ i <= n /\ g = i
    BY <1>2, <1>3, <1>4, <1>6 DEF Alike
  <2> QED
    BY <1>1, <1>3, <1>5, <2>1, BeforeIs
<1>7. CASE i = h
  <2>1. h <= l /\ h <= n /\ g = i
    BY <1>1, <1>2, <1>3, <1>4, <1>7
  <2>2. CASE i = m + 1
    BY <1>3, <1>5, <2>1, <2>2, <1>7, BeforeIs
  <2>3. CASE i <= m
    <3>1. Rank[a[i]] < Rank[b[i]] /\ Rank[b[i]] < Rank[c[i]]
      BY <1>1, <1>2, <1>3, <1>7, <2>1, <2>3
    <3>2. Rank[a[i]] \in Nat /\ Rank[b[i]] \in Nat /\ Rank[c[i]] \in Nat
      BY <1>3, <1>7, <2>1, <2>3, RanksAre
    <3>3. Rank[a[i]] < Rank[c[i]]
      BY <3>1, <3>2
    <3> QED
      BY <1>3, <1>5, <1>7, <2>1, <2>3, <3>3, BeforeIs
  <2> QED
    BY <1>1, <1>3, <2>2, <2>3
<1>8. CASE i > h
  <2>1. a[h] = b[h] /\ h <= m /\ g = h
    BY <1>1, <1>3, <1>4, <1>8 DEF Alike
  <2>2. h # l + 1
    BY <1>1, <1>3, <1>8
  <2> QED
    BY <1>2, <1>3, <1>5, <2>1, <2>2, BeforeIs
<1> QED
  BY <1>6, <1>7, <1>8

-----------------------------------------------------------------------------
(* The sort *)

\* No name comes before one to its left.
InOrderOfNames(t) == \A i, j \in DOMAIN t : i < j => ~ Before(t[j], t[i])

\* The places of the names that come up to the place of name i.
UpTo(s, i) == {j \in DOMAIN s : Before(s[j], s[i]) \/ (s[j] = s[i] /\ j <= i)}

LEMMA PlacesIncrease ==
  ASSUME NEW n \in Nat, NEW s \in [1..n -> Seq(Parts)], NEW i \in 1..n, NEW j \in 1..n,
         Before(s[i], s[j]) \/ (s[i] = s[j] /\ i < j)
  PROVE  Place(s, i) < Place(s, j)
<1>1. IsFiniteSet(1..n)
  BY FS_Interval
<1>2. UpTo(s, j) \subseteq 1..n
  BY DEF UpTo
<1>3. IsFiniteSet(UpTo(s, j)) /\ Cardinality(UpTo(s, j)) \in Nat
  BY <1>1, <1>2, FS_Subset, FS_CardinalityType
<1>4. \A h \in UpTo(s, i) : h \in UpTo(s, j)
  <2> SUFFICES ASSUME NEW h \in 1..n, Before(s[h], s[i]) \/ (s[h] = s[i] /\ h <= i)
               PROVE  Before(s[h], s[j]) \/ (s[h] = s[j] /\ h <= j)
    BY DEF UpTo
  <2>1. s[h] \in Seq(Parts) /\ s[i] \in Seq(Parts) /\ s[j] \in Seq(Parts)
    OBVIOUS
  <2>2. CASE Before(s[h], s[i]) /\ Before(s[i], s[j])
    BY <2>1, <2>2, BeforeIsTransitive
  <2>3. CASE s[h] = s[i] /\ h <= i /\ s[i] = s[j] /\ i < j
    BY <2>3
  <2> QED
    BY <2>2, <2>3
<1>5. j \in UpTo(s, j)
  BY DEF UpTo
<1>6. j \notin UpTo(s, i)
  <2> SUFFICES ASSUME Before(s[j], s[i]) \/ (s[j] = s[i] /\ j <= i)
               PROVE  FALSE
    BY DEF UpTo
  <2>1. s[i] \in Seq(Parts) /\ s[j] \in Seq(Parts)
    OBVIOUS
  <2>2. ~ Before(s[i], s[i]) /\ ~ Before(s[j], s[j])
    BY <2>1, BeforeIsStrict
  <2>3. ~ (Before(s[i], s[j]) /\ Before(s[j], s[i]))
    BY <2>1, <2>2, BeforeIsTransitive
  <2> QED
    BY <2>2, <2>3
<1>7. Cardinality(UpTo(s, i)) \in Nat /\ Cardinality(UpTo(s, i)) <= Cardinality(UpTo(s, j))
      /\ Cardinality(UpTo(s, i)) # Cardinality(UpTo(s, j))
  BY <1>3, <1>4, <1>5, <1>6, FS_Subset, FS_CardinalityType
<1>8. Place(s, i) = Cardinality(UpTo(s, i)) /\ Place(s, j) = Cardinality(UpTo(s, j))
  BY DEF Place, UpTo
<1> QED
  BY <1>3, <1>7, <1>8

\* Every place is that of one name.
LEMMA PlacesAre ==
  ASSUME NEW n \in Nat, NEW s \in [1..n -> Seq(Parts)]
  PROVE  /\ \A i \in 1..n : Place(s, i) \in 1..n
         /\ \A i, j \in 1..n : Place(s, i) = Place(s, j) => i = j
         /\ \A k \in 1..n : \E i \in 1..n : Place(s, i) = k
<1>1. IsFiniteSet(1..n) /\ Cardinality(1..n) = n
  BY FS_Interval
<1>2. ASSUME NEW i \in 1..n PROVE Place(s, i) \in 1..n
  <2>1. UpTo(s, i) \subseteq 1..n /\ i \in UpTo(s, i)
    BY DEF UpTo
  <2>2. IsFiniteSet(UpTo(s, i)) /\ Cardinality(UpTo(s, i)) <= n /\ Cardinality(UpTo(s, i)) \in Nat
    BY <1>1, <2>1, FS_Subset, FS_CardinalityType
  <2>3. Cardinality(UpTo(s, i)) # 0
    BY <2>1, <2>2, FS_EmptySet
  <2>4. Place(s, i) = Cardinality(UpTo(s, i))
    BY DEF Place, UpTo
  <2> QED
    BY <2>2, <2>3, <2>4
<1>3. ASSUME NEW i \in 1..n, NEW j \in 1..n, Place(s, i) = Place(s, j) PROVE i = j
  <2> SUFFICES ASSUME i # j PROVE FALSE
    OBVIOUS
  <2>1. s[i] \in Seq(Parts) /\ s[j] \in Seq(Parts)
    OBVIOUS
  <2>2. \/ Before(s[i], s[j]) \/ (s[i] = s[j] /\ i < j)
        \/ Before(s[j], s[i]) \/ (s[j] = s[i] /\ j < i)
    BY <2>1, BeforeIsTotal
  <2>3. Place(s, i) < Place(s, j) \/ Place(s, j) < Place(s, i)
    BY <2>2, PlacesIncrease
  <2>4. Place(s, i) \in Int /\ Place(s, j) \in Int
    BY <1>2
  <2> QED
    BY <1>3, <2>3, <2>4
<1> DEFINE f == [i \in 1..n |-> Place(s, i)]
<1>4. f \in [1..n -> 1..n] /\ \A i \in 1..n : f[i] = Place(s, i)
  BY <1>2
<1> HIDE DEF f
<1>5. f \in Injection(1..n, 1..n)
  BY <1>3, <1>4 DEF Injection, IsInjective
<1>6. f \in Surjection(1..n, 1..n)
  BY <1>1, <1>5, FS_Injection
<1>7. \A k \in 1..n : \E i \in 1..n : f[i] = k
  BY <1>6 DEF Surjection
<1> QED
  BY <1>2, <1>3, <1>4, <1>7

\* The sort puts the names in order, and loses and adds none.
LEMMA SortIs ==
  ASSUME NEW s \in Seq(Seq(Parts)), NEW t \in Sorted(s)
  PROVE  /\ t \in Seq(Seq(Parts)) /\ Len(t) = Len(s)
         /\ ToSet(t) = ToSet(s)
         /\ InOrderOfNames(t)
         /\ IsInjective(s) => IsInjective(t)
<1>1. PICK n \in Nat : n = Len(s) /\ s \in [1..n -> Seq(Parts)] /\ DOMAIN s = 1..n
  OBVIOUS
<1> DEFINE places == {<<Place(s, i), i>> : i \in 1..n}
           spot(k) == (CHOOSE p \in places : p[1] = k)[2]
<1>2. t = [k \in 1..n |-> s[spot(k)]]
  <2> DEFINE arranged(q) == [k \in 1..n |-> s[(CHOOSE p \in q : p[1] = k)[2]]]
  <2>1. Sorted(s) = {arranged(q) : q \in {places}}
    BY <1>1 DEF Sorted
  <2>2. t = arranged(places)
    <3> HIDE DEF arranged, places
    <3> QED
      BY <2>1
  <2> QED
    BY <2>2
<1>3. ASSUME NEW k \in 1..n PROVE spot(k) \in 1..n /\ Place(s, spot(k)) = k
  <2>1. PICK i \in 1..n : Place(s, i) = k
    BY <1>1, PlacesAre
  <2>2. <<k, i>> \in places /\ <<k, i>>[1] = k
    BY <2>1
  <2> DEFINE p == CHOOSE q \in places : q[1] = k
  <2>3. p \in places /\ p[1] = k
    <3> HIDE DEF places
    <3> QED
      BY <2>2
  <2>4. spot(k) = p[2]
    OBVIOUS
  <2> HIDE DEF p, spot
  <2>5. PICK h \in 1..n : p = <<Place(s, h), h>>
    BY <2>3
  <2> QED
    BY <2>3, <2>4, <2>5
<1> HIDE DEF places, spot
<1>4. ASSUME NEW i \in 1..n PROVE Place(s, i) \in 1..n /\ spot(Place(s, i)) = i
  <2>1. Place(s, i) \in 1..n
    BY <1>1, PlacesAre
  <2>2. spot(Place(s, i)) \in 1..n /\ Place(s, spot(Place(s, i))) = Place(s, i)
    BY <1>3, <2>1
  <2> QED
    BY <1>1, <2>1, <2>2, PlacesAre
<1>5. t \in [1..n -> Seq(Parts)] /\ \A k \in 1..n : t[k] = s[spot(k)]
  BY <1>1, <1>2, <1>3
<1>6. t \in Seq(Seq(Parts)) /\ Len(t) = n /\ DOMAIN t = 1..n
  BY <1>5
<1>7. ToSet(t) = ToSet(s)
  <2>1. \A k \in 1..n : t[k] \in ToSet(s)
    BY <1>1, <1>3, <1>5 DEF ToSet
  <2>2. \A i \in 1..n : s[i] \in ToSet(t)
    <3>1. \A i \in 1..n : s[i] = t[Place(s, i)] /\ Place(s, i) \in DOMAIN t
      BY <1>4, <1>5, <1>6
    <3> QED
      BY <3>1 DEF ToSet
  <2> QED
    BY <1>1, <1>6, <2>1, <2>2 DEF ToSet
<1>8. ASSUME NEW i \in 1..n, NEW j \in 1..n, i < j, Before(t[j], t[i]) PROVE FALSE
  <2>1. Place(s, spot(j)) < Place(s, spot(i))
    BY <1>1, <1>3, <1>5, <1>8, PlacesIncrease
  <2> QED
    BY <1>3, <1>8, <2>1
<1>9. ASSUME IsInjective(s), NEW i \in 1..n, NEW j \in 1..n, t[i] = t[j] PROVE i = j
  <2>1. spot(i) = spot(j)
    BY <1>1, <1>3, <1>5, <1>9 DEF IsInjective
  <2> QED
    BY <1>3, <2>1
<1> QED
  BY <1>1, <1>6, <1>7, <1>8, <1>9 DEF InOrderOfNames, IsInjective

-----------------------------------------------------------------------------
(* The names that an argument asks for *)

Argument == [name : Seq(Parts), dot : BOOLEAN]

LEMMA StrictPrefixIs ==
  ASSUME NEW p \in Seq(Parts), NEW a \in Seq(Parts)
  PROVE  IsStrictPrefix(p, a) <=> Len(p) < Len(a) /\ Alike(p, a, Len(p) + 1)
<1>1. PICK m \in Nat, n \in Nat : m = Len(p) /\ n = Len(a)
  OBVIOUS
<1>2. ASSUME IsStrictPrefix(p, a) PROVE m < n /\ Alike(p, a, m + 1)
  <2>1. m <= n /\ SubSeq(p, 1, m) = SubSeq(a, 1, m) /\ p # a
    BY <1>1, <1>2 DEF IsStrictPrefix, IsPrefix
  <2>2. \A j \in 1..m : SubSeq(p, 1, m)[j] = p[j] /\ SubSeq(a, 1, m)[j] = a[j]
    BY <1>1, <2>1
  <2>3. \A j \in 1..m : p[j] = a[j]
    BY <2>1, <2>2
  <2>4. m # n
    <3> SUFFICES ASSUME m = n PROVE FALSE
      OBVIOUS
    <3>1. p \in [1..Len(p) -> Parts] /\ a \in [1..Len(a) -> Parts]
      OBVIOUS
    <3>2. p \in [1..m -> Parts] /\ a \in [1..m -> Parts]
      BY <1>1, <3>1
    <3> QED
      BY <2>1, <2>3, <3>2
  <2> QED
    BY <1>1, <2>1, <2>3, <2>4 DEF Alike
<1>3. ASSUME m < n, Alike(p, a, m + 1) PROVE IsStrictPrefix(p, a)
  <2>1. \A j \in 1..m : p[j] = a[j]
    BY <1>1, <1>3 DEF Alike
  <2>2. SubSeq(p, 1, m) = [j \in 1..m |-> p[j]] /\ SubSeq(a, 1, m) = [j \in 1..m |-> a[j]]
    BY <1>1, <1>3
  <2>3. SubSeq(p, 1, m) = SubSeq(a, 1, m)
    BY <2>1, <2>2
  <2>4. p # a
    BY <1>1, <1>3
  <2> QED
    BY <1>1, <1>3, <2>3, <2>4 DEF IsStrictPrefix, IsPrefix
<1> QED
  BY <1>1, <1>2, <1>3

\* What lies between two names asked for is asked for: bisection can end anywhere
\* among them.
LEMMA AskedIsConvex ==
  ASSUME NEW q \in Argument, NEW a \in Seq(Parts), NEW b \in Seq(Parts), NEW c \in Seq(Parts),
         Compare(q, a), Compare(q, c), ~ Before(b, a), ~ Before(c, b)
  PROVE  Compare(q, b)
<1>1. CASE ~ q.dot
  <2>1. q.name = a /\ q.name = c
    BY <1>1 DEF Compare
  <2>2. a = b
    BY <2>1, BeforeIsTotal
  <2> QED
    BY <1>1, <2>1, <2>2 DEF Compare
<1>2. CASE q.dot
  <2>1. PICK p \in Seq(Parts) : p = q.name
    BY DEF Argument
  <2>2. PICK m \in Nat : m = Len(p)
    OBVIOUS
  <2>3. m < Len(a) /\ Alike(p, a, m + 1) /\ m < Len(c) /\ Alike(p, c, m + 1)
    BY <1>2, <2>1, <2>2, StrictPrefixIs DEF Compare
  <2>4. p # b
    <3> SUFFICES ASSUME p = b PROVE FALSE
      OBVIOUS
    <3>1. Alike(b, a, m + 1) /\ m + 1 = Len(b) + 1 /\ m + 1 <= Len(a) /\ m + 1 \in Nat \ {0}
      BY <2>2, <2>3
    <3>2. Before(b, a)
      BY <3>1, BeforeIs
    <3> QED
      BY <3>2
  <2>5. PICK i \in Nat \ {0} :
           /\ Alike(p, b, i)
           /\ \/ i \in 1..Len(p) /\ i \in 1..Len(b) /\ p[i] # b[i]
              \/ i = Len(p) + 1 /\ i \in 1..Len(b)
              \/ i = Len(b) + 1 /\ i \in 1..Len(p)
    BY <2>4, FirstDifference
  <2>6. CASE i = Len(p) + 1 /\ i \in 1..Len(b)
    <3>1. IsStrictPrefix(p, b)
      BY <2>5, <2>6, StrictPrefixIs
    <3> QED
      BY <1>2, <2>1, <3>1 DEF Compare
  <2>7. ASSUME i \in 1..m
        PROVE  /\ Alike(b, a, i) /\ i <= Len(a) /\ a[i] = p[i]
               /\ Alike(b, c, i) /\ Alike(c, b, i) /\ i <= Len(c) /\ c[i] = p[i]
    <3>1. PICK k \in Nat, l \in Nat : k = Len(a) /\ l = Len(c)
      OBVIOUS
    <3>2. /\ \A j \in 1..m : j <= k /\ p[j] = a[j] /\ j <= l /\ p[j] = c[j]
          /\ i <= m
      BY <2>2, <2>3, <2>7, <3>1 DEF Alike
    <3>3. \A j \in 1..(i - 1) : j <= Len(b) /\ p[j] = b[j] /\ j \in 1..m
      BY <2>5, <2>7 DEF Alike
    <3>4. \A j \in 1..(i - 1) : j <= Len(b) /\ j <= k /\ j <= l /\ b[j] = a[j] /\ b[j] = c[j]
      BY <3>2, <3>3
    <3> QED
      BY <2>7, <3>1, <3>2, <3>4 DEF Alike
  <2>8. CASE i = Len(b) + 1 /\ i \in 1..Len(p)
    <3>1. Before(b, a)
      BY <2>2, <2>7, <2>8, BeforeIs
    <3> QED
      BY <3>1
  <2>9. CASE i \in 1..Len(p) /\ i \in 1..Len(b) /\ p[i] # b[i]
    <3>1. p[i] \in Parts /\ b[i] \in Parts /\ Rank[p[i]] \in Nat /\ Rank[b[i]] \in Nat
      BY <2>9, RanksAre
    <3>2. Rank[p[i]] # Rank[b[i]]
      BY <2>9, <3>1, ToolAssumption DEF Parts
    <3>3. Rank[b[i]] < Rank[a[i]] \/ Rank[c[i]] < Rank[b[i]]
      BY <2>2, <2>7, <2>9, <3>1, <3>2
    <3>4. Before(b, a) \/ Before(c, b)
      BY <2>2, <2>7, <2>9, <3>3, BeforeIs
    <3> QED
      BY <3>4
  <2> QED
    BY <2>5, <2>6, <2>8, <2>9
<1> QED
  BY <1>1, <1>2 DEF Argument

LEMMA GreatestBelow ==
  ASSUME NEW n \in Nat, NEW T, T \subseteq 0..n, T # {}
  PROVE  Max(T) \in T /\ \A x \in T : x <= Max(T)
<1> DEFINE U == {n - x : x \in T}
<1>0. \A x \in T : x \in Nat /\ x <= n /\ n - x \in Nat /\ n - x \in U
  OBVIOUS
<1>1. U \subseteq Nat /\ U # {}
  BY <1>0
<1>2. PICK u \in U : \A v \in U : u <= v
  <2> HIDE DEF U
  <2> QED
    BY <1>1, LeastNumber
<1>3. \E x \in T : \A y \in T : x >= y
  <2>1. PICK x \in T : u = n - x
    OBVIOUS
  <2> HIDE DEF U
  <2>2. \A y \in T : n - x <= n - y /\ y \in Nat /\ x \in Nat
    BY <1>0, <1>2, <2>1
  <2>3. \A y \in T : x >= y
    BY <2>2
  <2> QED
    BY <2>3
<1> QED
  BY <1>3 DEF Max

LEMMA LeastAbove ==
  ASSUME NEW T, T \subseteq Nat, T # {}
  PROVE  Min(T) \in T /\ \A x \in T : Min(T) <= x
<1>1. \E x \in T : \A y \in T : x <= y
  BY LeastNumber
<1> QED
  BY <1>1 DEF Min

\* Around the place that bisection ends at are exactly the names asked for.
LEMMA RangeIsAsked ==
  ASSUME NEW q \in Argument, stats_list \in Seq(Seq(Parts)), InOrderOfNames(stats_list),
         NEW s \in bsearch(q)
  PROVE  /\ ToSet(PrintRange(q, s)) = {name \in ToSet(stats_list) : Compare(q, name)}
         /\ IsInjective(stats_list) => IsInjective(PrintRange(q, s))
<1>1. PICK n \in Nat : /\ n = Len(stats_list) /\ stats_list \in [1..n -> Seq(Parts)]
                       /\ DOMAIN stats_list = 1..n
  OBVIOUS
<1> DEFINE Hit(i) == Compare(q, stats_list[i])
           hits == {i \in 1..n : Hit(i)}
<1>2. bsearch(q) = IF hits = {} THEN {0} ELSE hits
  BY <1>1 DEF bsearch
<1>3. CASE hits = {}
  <2>1. s = 0
    BY <1>2, <1>3
  <2>2. PrintRange(q, s) = <<>>
    BY <2>1 DEF PrintRange
  <2>3. \A name \in ToSet(stats_list) : ~ Compare(q, name)
    BY <1>1, <1>3 DEF ToSet
  <2>4. ToSet(<<>>) = {} /\ IsInjective(<<>>)
    BY DEF ToSet, IsInjective
  <2> QED
    BY <2>2, <2>3, <2>4
<1>4. CASE hits # {}
  <2>1. s \in 1..n /\ Hit(s) /\ s # 0
    BY <1>2, <1>4
  <2> DEFINE differs == {i \in 1..n : ~ Hit(i)}
             D == {0} \cup {i \in differs : i < s}
             E == {n + 1} \cup {i \in differs : i > s}
             first == Max(D) + 1
             end == Min(E)
  <2>2. PrintRange(q, s) = SubSeq(stats_list, first, end - 1)
    BY <1>1, <2>1 DEF PrintRange
  <2>3. Max(D) \in D /\ \A x \in D : x <= Max(D)
    <3>1. D \subseteq 0..n /\ D # {}
      OBVIOUS
    <3> HIDE DEF D
    <3> QED
      BY <3>1, GreatestBelow
  <2>4. end \in E /\ \A x \in E : end <= x
    <3>1. E \subseteq Nat /\ E # {}
      OBVIOUS
    <3> HIDE DEF E
    <3> QED
      BY <3>1, LeastAbove
  <2>5. PICK d \in Nat, e \in Nat : d = Max(D) /\ e = end
    <3>1. D \subseteq Nat /\ E \subseteq Nat
      OBVIOUS
    <3> HIDE DEF D, E
    <3> QED
      BY <2>3, <2>4, <3>1
  <2>6. d < s /\ s < e /\ e <= n + 1
    BY <2>1, <2>3, <2>4, <2>5
  <2>7. ASSUME NEW i \in 1..n, ~ Hit(i) PROVE i <= d \/ e <= i
    BY <2>1, <2>3, <2>4, <2>5, <2>7
  <2>8. ASSUME NEW i \in 1..n, NEW j \in 1..n, NEW k \in 1..n, i <= j, j <= k, Hit(i), Hit(k)
        PROVE  Hit(j)
    <3>1. ASSUME NEW x \in 1..n, NEW y \in 1..n, x <= y
          PROVE  ~ Before(stats_list[y], stats_list[x])
      <4>1. stats_list[x] \in Seq(Parts)
        BY <1>1
      <4> QED
        BY <1>1, <3>1, <4>1, BeforeIsStrict DEF InOrderOfNames
    <3>2. ~ Before(stats_list[j], stats_list[i]) /\ ~ Before(stats_list[k], stats_list[j])
      BY <2>8, <3>1
    <3>3. stats_list[i] \in Seq(Parts) /\ stats_list[j] \in Seq(Parts) /\ stats_list[k] \in Seq(Parts)
      BY <1>1
    <3> QED
      BY <2>8, <3>2, <3>3, AskedIsConvex
  <2>9. d = 0 \/ (d \in 1..n /\ ~ Hit(d))
    BY <2>3, <2>5
  <2>10. e = n + 1 \/ (e \in 1..n /\ ~ Hit(e))
    BY <2>4, <2>5
  <2>11. \A i \in 1..n : Hit(i) <=> d < i /\ i < e
    <3> HIDE DEF Hit
    <3>1. ASSUME NEW i \in 1..n, Hit(i) PROVE d < i /\ i < e
      BY <2>1, <2>6, <2>8, <2>9, <2>10, <3>1
    <3>2. ASSUME NEW i \in 1..n, d < i, i < e PROVE Hit(i)
      BY <2>7, <3>2
    <3> QED
      BY <3>1, <3>2
  <2> DEFINE r == PrintRange(q, s)
  <2> HIDE DEF differs, D, E, hits, Hit
  <2>12. r = SubSeq(stats_list, d + 1, e - 1)
    BY <2>2, <2>5
  <2> HIDE DEF r
  <2>13. PICK l \in Nat : l = e - d - 1
    BY <2>1, <2>6
  <2>14. Len(r) = l /\ DOMAIN r = 1..l
         /\ \A h \in 1..l : r[h] = stats_list[h + d] /\ h + d \in 1..n
    BY <1>1, <2>6, <2>12, <2>13
  <2>15. ToSet(r) = {name \in ToSet(stats_list) : Compare(q, name)}
    <3>1. \A h \in 1..l : d < h + d /\ h + d < e
      BY <2>13
    <3>2. \A h \in 1..l : r[h] \in ToSet(stats_list) /\ Compare(q, r[h])
      BY <1>1, <2>11, <2>14, <3>1 DEF ToSet, Hit
    <3>3. ASSUME NEW i \in 1..n, Compare(q, stats_list[i]) PROVE stats_list[i] \in ToSet(r)
      <4>1. d < i /\ i < e
        BY <2>11, <3>3 DEF Hit
      <4>2. i - d \in 1..l /\ (i - d) + d = i
        BY <2>13, <4>1
      <4>3. stats_list[i] = r[i - d] /\ i - d \in DOMAIN r
        BY <2>14, <4>2
      <4> QED
        BY <4>3 DEF ToSet
    <3>4. \A name \in ToSet(r) : \E h \in 1..l : name = r[h]
      BY <2>14 DEF ToSet
    <3>5. \A name \in ToSet(stats_list) : \E i \in 1..n : name = stats_list[i]
      BY <1>1 DEF ToSet
    <3> QED
      BY <3>2, <3>3, <3>4, <3>5
  <2>16. IsInjective(stats_list) => IsInjective(r)
    BY <1>1, <2>14 DEF IsInjective
  <2> QED
    BY <2>15, <2>16 DEF r
<1> QED
  BY <1>3, <1>4

-----------------------------------------------------------------------------
(* The names in the answers about devices *)

Named == [name : Devices, moved : Nat]

\* The items of a vector have names, but on HP-UX each of them once.
WellNamed(v) ==
  /\ v \in Seq(Named)
  /\ platform # "HPUX" => \A i, j \in 1..Len(v) : v[i].name = v[j].name => i = j

NamesInv ==
  /\ StaticsInv
  /\ \A k \in Kinds : IsInjective(table[k])
  /\ WellNamed(network_stats) /\ WellNamed(diskio_stats)

LEMMA NamedIsItem ==
  ASSUME NEW v, WellNamed(v)
  PROVE  v \in Seq(Item)
<1>1. \A x \in Named : x \in Item
  BY DEF Named, Item
<1> QED
  BY <1>1 DEF WellNamed

LEMMA FilledIsNamed ==
  ASSUME NEW v, WellNamed(v), NEW n \in Nat, NEW items \in [1..n -> Item],
         \A i \in 1..n : items[i].name # NULL,
         \A i, j \in 1..n : items[i].name = items[j].name => i = j
  PROVE  WellNamed(Filled(v, items)) /\ n <= Len(Filled(v, items))
<1>1. v \in Seq(Item)
  BY NamedIsItem
<1> DEFINE w == Filled(v, items)
<1>2. CASE n = 0
  <2>1. w = v
    BY <1>2 DEF Filled
  <2> HIDE DEF w
  <2> QED
    BY <1>2, <2>1 DEF WellNamed, w
<1>3. CASE n # 0
  <2>1. /\ w \in Seq(Item) /\ Len(w) = n
        /\ \A i \in 1..n : /\ platform # "HPUX" => w[i].name = items[i].name
                           /\ items[i].name # NULL => w[i].name # NULL
    BY <1>1, <1>3, FilledIs
  <2> HIDE DEF w
  <2>2. \A i \in 1..n : w[i] \in Item /\ w[i].name # NULL
    BY <2>1
  <2>3. \A i \in 1..n : w[i] \in Named
    BY <2>2 DEF Named, Item
  <2>4. w \in Seq(Named)
    BY <2>1, <2>3
  <2>5. platform # "HPUX" => \A i, j \in 1..Len(w) : w[i].name = w[j].name => i = j
    BY <2>1
  <2> QED
    BY <2>1, <2>4, <2>5 DEF WellNamed, w
<1> QED
  BY <1>2, <1>3

\* What a read leaves in the vector, and how much of that it answers.
LeavesNamed(o) ==
  o.ok \in BOOLEAN /\ o.entries \in Nat /\ WellNamed(o.vector) /\ o.entries <= Len(o.vector)

\* The devices that are read are named once.
LEMMA WritesNamed ==
  ASSUME NEW k, NEW v, WellNamed(v), NEW n \in Nat, NEW s, IsInjective(s),
         NEW m \in Nat, NEW items, NEW o, Writes(k, v, n, s, m, items, o)
  PROVE  LeavesNamed(o)
<1>1. /\ s \in [1..n -> Devices] /\ items \in [1..m -> Item] /\ n <= m /\ m <= n + 1
      /\ \A i \in 1..m : items[i].name # NULL
      /\ \A i \in 1..n : items[i].name = s[i]
      /\ \A i \in (n + 1)..m, j \in 1..n : items[i].name # s[j]
      /\ o.ok \in BOOLEAN /\ o.vector = Filled(v, items) /\ o.entries = n
  BY DEF Writes
<1>2. ASSUME NEW i \in 1..m, NEW j \in 1..m, items[i].name = items[j].name PROVE i = j
  <2>1. (i \in 1..n \/ i = n + 1) /\ (j \in 1..n \/ j = n + 1)
    BY <1>1
  <2>2. CASE i \in 1..n /\ j \in 1..n
    BY <1>1, <1>2, <2>2 DEF IsInjective
  <2>3. CASE i \in 1..n /\ j = n + 1
    <3>1. j \in (n + 1)..m
      BY <2>3
    <3> QED
      BY <1>1, <1>2, <2>3, <3>1
  <2>4. CASE j \in 1..n /\ i = n + 1
    <3>1. i \in (n + 1)..m
      BY <2>4
    <3> QED
      BY <1>1, <1>2, <2>4, <3>1
  <2> QED
    BY <2>1, <2>2, <2>3, <2>4
<1>3. WellNamed(Filled(v, items)) /\ m <= Len(Filled(v, items))
  BY <1>1, <1>2, FilledIsNamed
<1>4. Len(Filled(v, items)) \in Nat
  BY <1>3 DEF WellNamed
<1>5. n <= Len(Filled(v, items))
  BY <1>1, <1>3, <1>4
<1> QED
  BY <1>1, <1>3, <1>5 DEF LeavesNamed

LEMMA ListsAreInjective ==
  ASSUME NamesInv, NEW k \in Kinds
  PROVE  IsInjective(table[k]) /\ IsInjective(Whole(table[k])) /\ IsInjective(Used(table[k]))
<1>1. table[k] \in Seq(Devices) /\ IsInjective(table[k])
  BY DEF NamesInv, StaticsInv
<1> QED
  BY <1>1, KeepIsInjective DEF Whole, Used

LEMMA NetworkLeavesNamed ==
  ASSUME NamesInv, NEW o \in NetworkReads
  PROVE  LeavesNamed(o)
<1>1. PICK s, v : s = Whole(table["net"]) /\ v = network_stats
  OBVIOUS
<1>2. StaticsInv /\ WellNamed(v) /\ IsInjective(s)
  BY <1>1, ListsAreInjective DEF NamesInv, Kinds
<1>3. CASE NothingRead(v, o)
  <2>1. Len(v) \in Nat
    BY <1>2 DEF WellNamed
  <2>2. o.ok \in BOOLEAN
    BY <1>3 DEF NothingRead
  <2> QED
    BY <1>2, <1>3, <2>1, <2>2 DEF NothingRead, LeavesNamed
<1>4. CASE WritesAll("net", v, s, o)
  <2>1. PICK n \in Nat, m \in Nat : \E items : Writes("net", v, n, s, m, items, o)
    BY <1>4 DEF WritesAll
  <2>2. PICK items : Writes("net", v, n, s, m, items, o)
    BY <2>1
  <2> QED
    BY <1>2, <2>2, WritesNamed
<1> QED
  BY <1>1, <1>2, <1>3, <1>4, NetworkReadsAre

LEMMA DiskLeavesNamed ==
  ASSUME NamesInv, NEW o \in DiskReads
  PROVE  LeavesNamed(o)
<1>1. PICK v : v = diskio_stats /\ WellNamed(v)
  BY DEF NamesInv
<1>2. PICK s \in {Whole(table["disk"]), Used(table["disk"])} : WritesEach(v, s, o) \/ AnswersNone(v, s, o)
  BY <1>1, DiskReadsAre DEF NamesInv
<1>3. IsInjective(s) /\ s \in Seq(Devices)
  BY ListsAreInjective, TableIs DEF Kinds, NamesInv
<1>4. CASE WritesEach(v, s, o)
  <2>1. PICK n \in Nat : \E items : Writes("disk", v, n, s, n, items, o)
    BY <1>4 DEF WritesEach
  <2>2. PICK items : Writes("disk", v, n, s, n, items, o)
    BY <2>1
  <2> QED
    BY <1>1, <1>3, <2>2, WritesNamed
<1>5. CASE AnswersNone(v, s, o)
  <2>1. WellNamed(o.vector)
    <3>1. ASSUME NEW n \in Nat, NEW items \in [1..n -> Item], n <= Len(s),
                 \A i \in 1..n : items[i].name = s[i]
          PROVE  WellNamed(Filled(v, items))
      <4>1. PICK l \in Nat : l = Len(s) /\ s \in [1..l -> Devices] /\ DOMAIN s = 1..l
        BY <1>3
      <4>2. \A i \in 1..n : i \in 1..l /\ items[i].name # NULL
        BY <3>1, <4>1, StatgrabAssumption
      <4>3. \A i, j \in 1..n : items[i].name = items[j].name => i = j
        BY <1>3, <3>1, <4>1, <4>2 DEF IsInjective
      <4> QED
        BY <1>1, <4>2, <4>3, FilledIsNamed
    <3> QED
      BY <1>1, <1>5, <3>1 DEF AnswersNone
  <2>2. Len(o.vector) \in Nat
    BY <2>1 DEF WellNamed
  <2> QED
    BY <1>5, <2>1, <2>2 DEF AnswersNone, LeavesNamed
<1> QED
  BY <1>2, <1>4, <1>5

\* The names that a call answers.
AnswersOnce(r) ==
  /\ Names(r.stats) \in Seq(Devices)
  /\ platform # "HPUX" => IsInjective(Names(r.stats))

LEMMA NamesOf ==
  ASSUME NEW n \in Nat, NEW a, DOMAIN a = 1..n, NEW r, r.stats = a,
         \A i \in 1..n : a[i].name \in Devices,
         platform # "HPUX" => \A i, j \in 1..n : a[i].name = a[j].name => i = j
  PROVE  AnswersOnce(r)
<1> DEFINE x == Names(r.stats)
<1>1. x = [i \in 1..n |-> a[i].name]
  BY DEF Names
<1>2. x \in [1..n -> Devices] /\ \A i \in 1..n : x[i] = a[i].name
  BY <1>1
<1> HIDE DEF x
<1>3. x \in Seq(Devices) /\ DOMAIN x = 1..n
  BY <1>2
<1>4. platform # "HPUX" => IsInjective(x)
  BY <1>2, <1>3 DEF IsInjective
<1> QED
  BY <1>3, <1>4 DEF AnswersOnce, x

LEMMA SampleNames ==
  ASSUME NEW o, LeavesNamed(o)
  PROVE  AnswersOnce(Sample(o))
<1>1. PICK e, v : e = o.entries /\ v = o.vector /\ e \in Nat /\ WellNamed(v) /\ e <= Len(v)
  BY DEF LeavesNamed
<1>2. v \in Seq(Named) /\ \A i \in 1..Len(v) : v[i] \in Named /\ v[i].name \in Devices
  <2>1. v \in Seq(Named)
    BY <1>1 DEF WellNamed
  <2>2. \A i \in 1..Len(v) : v[i] \in Named
    BY <2>1
  <2>3. \A x \in Named : x.name \in Devices
    BY DEF Named
  <2> QED
    BY <2>1, <2>2, <2>3
<1> DEFINE r == Sample(o)
<1>3. CASE r = Nothing
  <2>1. r.stats = <<>> /\ DOMAIN <<>> = 1..0
    BY <1>3 DEF Nothing
  <2> HIDE DEF r
  <2> QED
    BY <2>1, NamesOf DEF r
<1>4. CASE r = Return(SubSeq(v, 1, e))
  <2> DEFINE a == SubSeq(v, 1, e)
  <2>1. r.stats = a
    <3> HIDE DEF a, r
    <3>1. r = Return(a)
      BY <1>4 DEF a
    <3> QED
      BY <3>1 DEF Return
  <2>2. DOMAIN a = 1..e /\ \A i \in 1..e : a[i] = v[i] /\ i \in 1..Len(v)
    BY <1>1, <1>2
  <2> HIDE DEF a, r
  <2>3. \A i \in 1..e : a[i].name \in Devices
    BY <1>2, <2>2
  <2>4. platform # "HPUX" => \A i, j \in 1..e : a[i].name = a[j].name => i = j
    BY <1>1, <2>2 DEF WellNamed
  <2> QED
    BY <1>1, <2>1, <2>2, <2>3, <2>4, NamesOf DEF r
<1> QED
  BY <1>1, <1>3, <1>4 DEF Sample

\* The differences have the names of the sample before.
LEMMA DifferenceNames ==
  ASSUME NEW k, NEW prev, WellNamed(prev), NEW o, LeavesNamed(o)
  PROVE  AnswersOnce(SampleDiff(k, prev, o))
<1> DEFINE r == SampleDiff(k, prev, o)
           new == SubSeq(o.vector, 1, o.entries)
           d == Differences(k, prev, new)
<1>1. CASE r = Sample(o)
  BY <1>1, SampleNames
<1>2. CASE r = Return(d)
  <2>1. r.stats = d
    BY <1>2 DEF Return
  <2>2. PICK n \in Nat : n = Len(prev) /\ DOMAIN prev = 1..n /\ prev \in [1..n -> Named]
    BY DEF WellNamed
  <2> HIDE DEF new
  <2>3. DOMAIN d = 1..n
    BY <2>2 DEF Differences
  <2>4. \A i \in 1..n : d[i].name = prev[i].name
    <3> SUFFICES ASSUME NEW i \in 1..n PROVE d[i].name = prev[i].name
      OBVIOUS
    <3>1. PICK m : m = Match(prev[i].name, i, new)
      OBVIOUS
    <3>2. d[i] = IF m = 0 THEN prev[i]
                 ELSE [prev[i] EXCEPT !.moved = Subtract(k, new[m].moved, prev[i].moved)]
      BY <2>2, <3>1 DEF Differences
    <3>3. prev[i] \in Named
      BY <2>2
    <3> HIDE DEF d
    <3> QED
      BY <3>2, <3>3 DEF Named
  <2> HIDE DEF d, r
  <2>5. \A i \in 1..n : prev[i].name \in Devices
    BY <2>2 DEF Named
  <2>6. platform # "HPUX" => \A i, j \in 1..n : d[i].name = d[j].name => i = j
    BY <2>2, <2>4 DEF WellNamed
  <2> QED
    BY <2>1, <2>3, <2>4, <2>5, <2>6, NamesOf DEF r
<1> QED
  BY <1>1, <1>2 DEF SampleDiff

LEMMA NamesInit == Init => NamesInv
<1> SUFFICES ASSUME Init PROVE NamesInv
  OBVIOUS
<1>1. StaticsInv
  BY DiffInit DEF DiffInv
<1>2. \A k \in Kinds : IsInjective(table[k])
  BY StatgrabAssumption DEF Init, IsInjective
<1>3. <<>> \in Seq(Named) /\ Len(<<>>) = 0
  OBVIOUS
<1>4. network_stats = <<>> /\ diskio_stats = <<>>
  BY DEF Init
<1> QED
  BY <1>1, <1>2, <1>3, <1>4 DEF NamesInv, WellNamed

LEMMA NamesStay ==
  ASSUME NamesInv, UNCHANGED <<platform, table, moved, network_stats, diskio_stats>>
  PROVE  NamesInv'
BY DEF NamesInv, StaticsInv, WellNamed

LEMMA NamesKernel ==
  ASSUME NamesInv, Kernel
  PROVE  NamesInv' /\ platform' = platform
<1>1. StaticsInv' /\ platform' = platform
  BY KernelStatics DEF NamesInv
<1>2. UNCHANGED <<network_stats, diskio_stats>>
  BY DEF Kernel, Ticking, Paging, DeviceChange, Tick, Page, Move, Unplug, Plug, Change, statics
<1>3. \A k \in Kinds : table[k] \in Seq(Devices) /\ IsInjective(table[k])
  BY DEF NamesInv, StaticsInv
<1>4. table \in [Kinds -> Seq(Devices)]
  BY DEF NamesInv, StaticsInv
<1>5. \A k \in Kinds : IsInjective(table'[k])
  <2>1. CASE table' = table
    BY <1>3, <2>1
  <2>2. ASSUME NEW k \in Kinds, NEW d \in Devices, Unplug(k, d)
        PROVE  \A h \in Kinds : IsInjective(table'[h])
    <3>1. table' = [table EXCEPT ![k] = Keep(table[k], Devices \ {d})]
      BY <2>2 DEF Unplug
    <3>2. IsInjective(Keep(table[k], Devices \ {d}))
      BY <1>3, KeepIsInjective
    <3> QED
      BY <1>3, <1>4, <3>1, <3>2
  <2>3. ASSUME NEW k \in Kinds, NEW d \in Devices, Plug(k, d)
        PROVE  \A h \in Kinds : IsInjective(table'[h])
    <3>1. PICK s : s = table[k]
      OBVIOUS
    <3>2. table' = [table EXCEPT ![k] = Append(s, d)] /\ d \notin ToSet(s)
      BY <2>3, <3>1 DEF Plug
    <3>3. s \in Seq(Devices) /\ IsInjective(s) /\ \A i \in DOMAIN s : s[i] # d
      BY <1>3, <3>1, <3>2 DEF ToSet
    <3>4. PICK n \in Nat : n = Len(s) /\ DOMAIN s = 1..n
      BY <3>3
    <3>5. DOMAIN Append(s, d) = 1..(n + 1) /\ Append(s, d)[n + 1] = d
          /\ \A i \in 1..n : Append(s, d)[i] = s[i]
      BY <3>3, <3>4
    <3>6. \A i \in 1..(n + 1) : i \in 1..n \/ i = n + 1
      OBVIOUS
    <3>7. IsInjective(Append(s, d))
      BY <3>3, <3>4, <3>5, <3>6 DEF IsInjective
    <3> QED
      BY <1>3, <1>4, <3>2, <3>7
  <2>4. \/ table' = table
        \/ \E k \in Kinds, d \in Devices : Unplug(k, d) \/ Plug(k, d)
    BY DEF Kernel, Ticking, Paging, DeviceChange, Tick, Page, Move
  <2> QED
    BY <2>1, <2>2, <2>3, <2>4
<1> QED
  BY <1>1, <1>2, <1>5 DEF NamesInv, WellNamed

LEMMA ElsewhereNames ==
  ASSUME NamesInv, CpuCalls \/ PageCalls
  PROVE  NamesInv' /\ platform' = platform
<1>1. UNCHANGED <<kernel, network_stats, diskio_stats>>
  <2>1. ASSUME NEW o, NEW a, NEW b, CpuCall(o, a, b)
        PROVE  UNCHANGED <<kernel, network_stats, diskio_stats>>
    BY <2>1 DEF CpuCall
  <2>2. CASE CpuCalls
    BY <2>1, <2>2 DEF CpuCalls, sg_get_cpu_stats, sg_get_cpu_stats_diff, sg_get_cpu_percents
  <2>3. CASE PageCalls
    BY <2>3 DEF PageCalls, sg_get_page_stats, sg_get_page_stats_diff
  <2> QED
    BY <2>2, <2>3
<1> QED
  BY <1>1, NamesStay DEF kernel

LEMMA NetworkNames ==
  ASSUME NamesInv, sg_get_network_io_stats \/ sg_get_network_io_stats_diff
  PROVE  NamesInv' /\ platform' = platform /\ AnswersOnce(returned')
<1>1. \E o \in NetworkReads :
        /\ network_stats' = o.vector
        /\ returned' = Sample(o) \/ returned' = SampleDiff("net", network_stats, o)
        /\ UNCHANGED <<kernel, diskio_stats>>
  BY DEF sg_get_network_io_stats, sg_get_network_io_stats_diff
<1>2. PICK o \in NetworkReads :
        /\ network_stats' = o.vector
        /\ returned' = Sample(o) \/ returned' = SampleDiff("net", network_stats, o)
        /\ UNCHANGED <<kernel, diskio_stats>>
  BY <1>1
<1>3. LeavesNamed(o)
  BY NetworkLeavesNamed
<1>4. AnswersOnce(returned')
  BY <1>2, <1>3, SampleNames, DifferenceNames DEF NamesInv
<1>5. o.vector \in Seq(Item) /\ WellNamed(o.vector)
  BY <1>3, NamedIsItem DEF LeavesNamed
<1> QED
  BY <1>2, <1>4, <1>5 DEF NamesInv, StaticsInv, WellNamed, kernel

LEMMA DiskNames ==
  ASSUME NamesInv, sg_get_disk_io_stats \/ sg_get_disk_io_stats_diff
  PROVE  NamesInv' /\ platform' = platform /\ AnswersOnce(returned')
<1>1. \E o \in DiskReads :
        /\ diskio_stats' = o.vector
        /\ returned' = Sample(o) \/ returned' = SampleDiff("disk", diskio_stats, o)
        /\ UNCHANGED <<kernel, network_stats>>
  BY DEF sg_get_disk_io_stats, sg_get_disk_io_stats_diff
<1>2. PICK o \in DiskReads :
        /\ diskio_stats' = o.vector
        /\ returned' = Sample(o) \/ returned' = SampleDiff("disk", diskio_stats, o)
        /\ UNCHANGED <<kernel, network_stats>>
  BY <1>1
<1>3. LeavesNamed(o)
  BY DiskLeavesNamed
<1>4. AnswersOnce(returned')
  BY <1>2, <1>3, SampleNames, DifferenceNames DEF NamesInv
<1>5. o.vector \in Seq(Item) /\ WellNamed(o.vector)
  BY <1>3, NamedIsItem DEF LeavesNamed
<1> QED
  BY <1>2, <1>4, <1>5 DEF NamesInv, StaticsInv, WellNamed, kernel

LEMMA InterfaceNames ==
  ASSUME NamesInv, sg_get_network_iface_stats
  PROVE  /\ NamesInv' /\ platform' = platform
         /\ returned'.stats \in Seq(Devices) /\ IsInjective(returned'.stats)
<1>1. "net" \in Kinds
  BY DEF Kinds
<1> DEFINE T == {<<>>, table["net"], Whole(table["net"])}
<1>2. \A s \in T : s \in Seq(Devices) /\ IsInjective(s)
  <2>1. <<>> \in Seq(Devices) /\ IsInjective(<<>>)
    BY DEF IsInjective
  <2> QED
    BY <1>1, <2>1, TableIs, ListsAreInjective DEF NamesInv
<1>3. Nothing.stats \in T /\ Interfaces.stats \in T
  <2>1. Nothing.stats = <<>> /\ \A s : Return(s).stats = s
    BY DEF Nothing, Return
  <2>2. Interfaces \in {Nothing, Return(table["net"]), Return(Whole(table["net"]))}
    BY DEF Interfaces, SolarisInterfaces, BSDInterfaces, LinuxInterfaces
  <2> QED
    BY <2>1, <2>2
<1>4. returned' = Interfaces \/ returned' = Nothing
  BY CanFailIs DEF sg_get_network_iface_stats
<1>5. UNCHANGED <<kernel, statics>>
  BY DEF sg_get_network_iface_stats
<1>6. NamesInv' /\ platform' = platform
  BY <1>5, NamesStay DEF kernel, statics
<1> HIDE DEF T
<1> QED
  BY <1>2, <1>3, <1>4, <1>6

-----------------------------------------------------------------------------
(* The list of the names *)

\* The first part of each name is a section before place j.
FromBefore(j) == \A name \in ToSet(stats_list) : \E h \in 1..(j - 1) : name[1] = toplevels[h]

\* Between the calls that list the interfaces, those with counters have their names.
FromInterfaces ==
  /\ io \in Seq(Devices) /\ (platform # "HPUX" => IsInjective(io))
  /\ \A name \in ToSet(stats_list) :
       \/ \E h \in 1..4 : name[1] = toplevels[h]
       \/ \E d \in ToSet(io) : name = <<"net", d, "interface_name">>
       \/ \E d \in Devices : name = <<"net", d, "rx">>

Ended == {"sorted", "print", "sleep", "done"}

ToolInv ==
  /\ argv \in Arguments
  /\ stats_list \in Seq(Seq(Parts))
  /\ platform # "HPUX" => IsInjective(stats_list)
  /\ \/ section \in Ended
     \/ \E j \in 1..6 : section = toplevels[j] /\ FromBefore(j)
     \/ section = "iface" /\ FromInterfaces
  /\ section = "print" => InOrderOfNames(stats_list)
  /\ printed # <<>> => section \in {"sleep", "done"}
  /\ PrintedIsAsked

LEMMA ToplevelsAre ==
  /\ \A j \in 1..6 : toplevels[j] \in Parts /\ toplevels[j] \notin Ended \cup {"iface"}
  /\ \A i, j \in 1..6 : toplevels[i] = toplevels[j] => i = j
  /\ DOMAIN toplevels = 1..6 /\ Len(toplevels) = 6
  /\ toplevels[4] = "disk" /\ toplevels[5] = "net"
BY ToolAssumption DEF toplevels, Ended, Parts, Fields

LEMMA SectionIs ==
  ASSUME NEW i \in 1..7
  PROVE  Section(i) = "sorted" \/ \E j \in i..6 : Section(i) = toplevels[j]
<1> DEFINE J == {j \in i..6 : Interesting(toplevels[j])}
<1>1. Section(i) = IF J = {} THEN "sorted" ELSE toplevels[CHOOSE j \in J : \A h \in J : j <= h]
  BY ToplevelsAre DEF Section
<1>2. CASE J = {}
  BY <1>1, <1>2
<1>3. CASE J # {}
  <2>1. J \subseteq i..6 /\ J \subseteq Nat
    OBVIOUS
  <2> HIDE DEF J
  <2>2. \E j \in J : \A h \in J : j <= h
    BY <1>3, <2>1, LeastNumber
  <2>3. (CHOOSE j \in J : \A h \in J : j <= h) \in i..6
    BY <2>1, <2>2
  <2> QED
    BY <1>1, <1>3, <2>3
<1> QED
  BY <1>2, <1>3

LEMMA AfterIs ==
  ASSUME NEW i \in 1..6
  PROVE  After(toplevels[i]) = "sorted" \/ \E j \in (i + 1)..6 : After(toplevels[i]) = toplevels[j]
<1>1. (CHOOSE h \in DOMAIN toplevels : toplevels[h] = toplevels[i]) = i
  BY ToplevelsAre
<1>2. After(toplevels[i]) = Section(1 + i)
  BY <1>1 DEF After
<1>3. 1 + i \in 1..7 /\ 1 + i = i + 1
  OBVIOUS
<1> QED
  BY <1>2, <1>3, SectionIs

LEMMA ConcatenatedIs ==
  ASSUME NEW S, NEW s \in Seq(S), NEW t \in Seq(S)
  PROVE  /\ s \o t \in Seq(S)
         /\ ToSet(s \o t) = ToSet(s) \cup ToSet(t)
         /\ IsInjective(s) /\ IsInjective(t) /\ ToSet(s) \cap ToSet(t) = {} => IsInjective(s \o t)
<1>1. PICK m \in Nat, n \in Nat : m = Len(s) /\ n = Len(t)
  OBVIOUS
<1> DEFINE r == s \o t
<1>2. /\ r \in Seq(S) /\ DOMAIN r = 1..(m + n) /\ DOMAIN s = 1..m /\ DOMAIN t = 1..n
      /\ \A i \in 1..m : r[i] = s[i]
      /\ \A i \in 1..n : r[m + i] = t[i]
      /\ \A i \in 1..(m + n) : i \in 1..m \/ (i - m \in 1..n /\ m + (i - m) = i)
  BY <1>1
<1>3. \A i \in 1..m : i \in 1..(m + n)
  OBVIOUS
<1>4. \A i \in 1..n : m + i \in 1..(m + n)
  OBVIOUS
<1> HIDE DEF r
<1>5. \A i \in 1..(m + n) : IF i \in 1..m THEN r[i] = s[i] ELSE i - m \in 1..n /\ r[i] = t[i - m]
  BY <1>2
<1>6. ToSet(r) = ToSet(s) \cup ToSet(t)
  <2>1. /\ ToSet(r) = {r[i] : i \in 1..(m + n)}
        /\ ToSet(s) = {s[i] : i \in 1..m} /\ ToSet(t) = {t[i] : i \in 1..n}
    BY <1>2 DEF ToSet
  <2>2. \A i \in 1..(m + n) : r[i] \in ToSet(s) \cup ToSet(t)
    BY <1>5, <2>1
  <2>3. \A i \in 1..m : s[i] \in ToSet(r)
    BY <1>2, <1>3, <2>1
  <2>4. \A i \in 1..n : t[i] \in ToSet(r)
    BY <1>2, <1>4, <2>1
  <2> QED
    BY <2>1, <2>2, <2>3, <2>4
<1>7. ASSUME IsInjective(s), IsInjective(t), ToSet(s) \cap ToSet(t) = {}
      PROVE  IsInjective(r)
  <2> SUFFICES ASSUME NEW i \in 1..(m + n), NEW j \in 1..(m + n), r[i] = r[j] PROVE i = j
    BY <1>2 DEF IsInjective
  <2>1. CASE i \in 1..m /\ j \in 1..m
    BY <1>2, <1>7, <2>1 DEF IsInjective
  <2>2. CASE i \notin 1..m /\ j \notin 1..m
    <3>1. t[i - m] = t[j - m] /\ i - m \in DOMAIN t /\ j - m \in DOMAIN t
      BY <1>2, <1>5, <2>2
    <3> QED
      BY <1>7, <3>1 DEF IsInjective
  <2>3. ASSUME NEW g \in 1..m, NEW h \in 1..n, s[g] = t[h] PROVE FALSE
    BY <1>2, <1>7, <2>3 DEF ToSet
  <2> QED
    BY <1>5, <2>1, <2>2, <2>3
<1> QED
  BY <1>2, <1>6, <1>7 DEF r

LEMMA OfIs ==
  ASSUME NEW x \in Parts, NEW f \in Parts, NEW ns \in Seq(Devices)
  PROVE  /\ Of(x, ns, f) \in Seq(Seq(Parts))
         /\ ToSet(Of(x, ns, f)) = {<<x, d, f>> : d \in ToSet(ns)}
         /\ IsInjective(ns) => IsInjective(Of(x, ns, f))
<1>1. PICK n \in Nat : n = Len(ns) /\ DOMAIN ns = 1..n /\ ns \in [1..n -> Devices]
  OBVIOUS
<1> DEFINE r == Of(x, ns, f)
<1>2. r = [i \in 1..n |-> <<x, ns[i], f>>]
  BY <1>1 DEF Of
<1>3. \A i \in 1..n : ns[i] \in Parts
  BY <1>1, ToolAssumption DEF Parts
<1>4. \A i \in 1..n : <<x, ns[i], f>> \in Seq(Parts)
  BY <1>3
<1>5. r \in [1..n -> Seq(Parts)] /\ \A i \in 1..n : r[i] = <<x, ns[i], f>>
  BY <1>2, <1>4
<1> HIDE DEF r
<1>6. r \in Seq(Seq(Parts)) /\ DOMAIN r = 1..n
  BY <1>5
<1>7. ToSet(r) = {<<x, d, f>> : d \in ToSet(ns)}
  BY <1>1, <1>5, <1>6 DEF ToSet
<1>8. IsInjective(ns) => IsInjective(r)
  BY <1>1, <1>5, <1>6 DEF IsInjective
<1> QED
  BY <1>6, <1>7, <1>8 DEF r

\* New names, all different from those there are.
LEMMA Populated ==
  ASSUME ToolInv, section \notin Ended, NEW ns \in Seq(Seq(Parts)), NEW t, Populate(ns, t),
         platform' = platform, t # "print",
         platform # "HPUX" => IsInjective(ns) /\ ToSet(ns) \cap ToSet(stats_list) = {},
         \/ t = "sorted"
         \/ \E j \in 1..6 : t = toplevels[j] /\ FromBefore(j)'
         \/ t = "iface" /\ FromInterfaces'
  PROVE  ToolInv'
<1>1. /\ stats_list' = stats_list \o ns /\ section' = t
      /\ UNCHANGED <<argv, printed>>
  BY DEF Populate
<1>2. stats_list' \in Seq(Seq(Parts)) /\ (platform' # "HPUX" => IsInjective(stats_list'))
  BY <1>1, ConcatenatedIs DEF ToolInv
<1>3. printed = <<>>
  BY DEF ToolInv, Ended
<1>4. PrintedIsAsked'
  BY <1>1, <1>3 DEF PrintedIsAsked
<1>5. \/ section' \in Ended
      \/ \E j \in 1..6 : section' = toplevels[j] /\ FromBefore(j)'
      \/ section' = "iface" /\ FromInterfaces'
  BY <1>1 DEF Ended
<1>6. argv' \in Arguments /\ section' # "print" /\ printed' = <<>>
  BY <1>1, <1>3 DEF ToolInv
<1> QED
  BY <1>2, <1>4, <1>5, <1>6 DEF ToolInv

LEMMA SectionPopulated ==
  ASSUME ToolInv, NEW j \in 1..6, section = toplevels[j],
         NEW ns \in Seq(Seq(Parts)), Populate(ns, After(section)), platform' = platform,
         \A name \in ToSet(ns) : name[1] = toplevels[j],
         platform # "HPUX" => IsInjective(ns)
  PROVE  ToolInv'
<1>1. FromBefore(j) /\ section \notin Ended
  <2>1. section \notin Ended \cup {"iface"}
    BY ToplevelsAre
  <2>2. \A i \in 1..6 : section = toplevels[i] => i = j
    BY ToplevelsAre
  <2>3. PICK i \in 1..6 : section = toplevels[i] /\ FromBefore(i)
    BY <2>1 DEF ToolInv
  <2> QED
    BY <2>1, <2>2, <2>3
<1>2. ToSet(ns) \cap ToSet(stats_list) = {}
  <2> SUFFICES ASSUME NEW name \in ToSet(ns), name \in ToSet(stats_list) PROVE FALSE
    OBVIOUS
  <2>1. PICK h \in 1..(j - 1) : name[1] = toplevels[h]
    BY <1>1 DEF FromBefore
  <2>2. toplevels[h] = toplevels[j] /\ h \in 1..6 /\ h # j
    BY <2>1
  <2> QED
    BY <2>2, ToplevelsAre
<1>3. ASSUME NEW i \in (j + 1)..6 PROVE FromBefore(i)'
  <2>1. ToSet(stats_list') = ToSet(stats_list) \cup ToSet(ns)
    BY ConcatenatedIs DEF Populate, ToolInv
  <2>2. \A h \in 1..j : h \in 1..(i - 1)
    OBVIOUS
  <2>3. \A name \in ToSet(stats_list') : \E h \in 1..(i - 1) : name[1] = toplevels[h]
    BY <1>1, <2>1, <2>2 DEF FromBefore
  <2> QED
    BY <2>3 DEF FromBefore
<1>4. After(section) = "sorted" \/ \E i \in (j + 1)..6 : After(section) = toplevels[i]
  BY AfterIs
<1>5. \A i \in (j + 1)..6 : i \in 1..6 /\ toplevels[i] # "print"
  BY ToplevelsAre DEF Ended
<1> QED
  BY <1>1, <1>2, <1>3, <1>4, <1>5, Populated

\* A section of one name, or of none when it was not read.
LEMMA SinglePopulated ==
  ASSUME ToolInv, NEW j \in 1..6, section = toplevels[j], NEW f \in Parts,
         NEW ns, ns \in {<<>>, << <<section, f>> >>}, Populate(ns, After(section)), platform' = platform
  PROVE  ToolInv'
<1>1. section \in Parts
  BY ToplevelsAre
<1>2. <<section, f>> \in Seq(Parts)
  BY <1>1
<1>3. ns \in Seq(Seq(Parts))
  <2>1. PICK name \in Seq(Parts) : name = <<section, f>>
    BY <1>2
  <2>2. <<>> \in Seq(Seq(Parts)) /\ <<name>> \in Seq(Seq(Parts))
    OBVIOUS
  <2> QED
    BY <2>1, <2>2
<1>4. IsInjective(ns) /\ \A name \in ToSet(ns) : name[1] = section
  BY DEF IsInjective, ToSet
<1> QED
  BY <1>3, <1>4, SectionPopulated

LEMMA ToolStays ==
  ASSUME ToolInv, UNCHANGED toolVars, platform' = platform
  PROVE  ToolInv'
BY DEF ToolInv, toolVars, FromBefore, FromInterfaces, PrintedIsAsked, InOrderOfNames, Compare

LEMMA FieldsAre ==
  /\ \A f \in Fields : f \in Parts
  /\ \A d \in Devices : d \in Parts
BY ToolAssumption DEF Parts

LEMMA ConstKeeps ==
  ASSUME NamesInv, ToolInv, populate_const
  PROVE  NamesInv' /\ ToolInv'
<1>1. section = "const" /\ Populate(<< <<section, "0">> >>, After(section)) /\ UNCHANGED vars
  BY DEF populate_const
<1>2. section = toplevels[1] /\ "0" \in Parts
  BY <1>1, FieldsAre DEF toplevels, Fields
<1>3. platform' = platform /\ NamesInv'
  BY <1>1, NamesStay DEF vars, kernel, statics
<1> DEFINE ns == << <<section, "0">> >>
<1>4. ns \in {<<>>, << <<section, "0">> >>} /\ Populate(ns, After(section))
  BY <1>1
<1> HIDE DEF ns
<1>5. ToolInv'
  BY <1>2, <1>3, <1>4, SinglePopulated
<1> QED
  BY <1>3, <1>5

LEMMA MemKeeps ==
  ASSUME NamesInv, ToolInv, populate_mem
  PROVE  NamesInv' /\ ToolInv'
<1>1. /\ section = "mem" /\ UNCHANGED <<kernel, statics>>
      /\ \E o : Populate(IF o.read THEN << <<section, "total">> >> ELSE <<>>, After(section))
  BY DEF populate_mem
<1>2. section = toplevels[3] /\ "total" \in Parts
  BY <1>1, FieldsAre DEF toplevels, Fields
<1>3. platform' = platform /\ NamesInv'
  BY <1>1, NamesStay DEF kernel, statics
<1>4. \E ns : ns \in {<<>>, << <<section, "total">> >>} /\ Populate(ns, After(section))
  BY <1>1
<1>5. PICK ns : ns \in {<<>>, << <<section, "total">> >>} /\ Populate(ns, After(section))
  BY <1>4
<1>6. ToolInv'
  BY <1>2, <1>3, <1>5, SinglePopulated
<1> QED
  BY <1>3, <1>6

LEMMA CpuKeeps ==
  ASSUME NamesInv, ToolInv, populate_cpu
  PROVE  NamesInv' /\ ToolInv'
<1>1. section = "cpu" /\ CpuCalls /\ Populate(IfRead(<< <<section, "user">> >>), After(section))
  BY DEF populate_cpu, CpuCalls
<1>2. section = toplevels[2] /\ "user" \in Parts
  BY <1>1, FieldsAre DEF toplevels, Fields
<1>3. platform' = platform /\ NamesInv'
  BY <1>1, ElsewhereNames
<1>4. PICK ns : ns = IfRead(<< <<section, "user">> >>)
  OBVIOUS
<1>5. ns \in {<<>>, << <<section, "user">> >>} /\ Populate(ns, After(section))
  BY <1>1, <1>4 DEF IfRead
<1>6. ToolInv'
  BY <1>2, <1>3, <1>5, SinglePopulated
<1> QED
  BY <1>3, <1>6

LEMMA PageKeeps ==
  ASSUME NamesInv, ToolInv, populate_page
  PROVE  NamesInv' /\ ToolInv'
<1>1. section = "page" /\ PageCalls /\ Populate(IfRead(<< <<section, "in">> >>), After(section))
  BY DEF populate_page, PageCalls
<1>2. section = toplevels[6] /\ "in" \in Parts
  BY <1>1, FieldsAre DEF toplevels, Fields
<1>3. platform' = platform /\ NamesInv'
  BY <1>1, ElsewhereNames
<1>4. PICK ns : ns = IfRead(<< <<section, "in">> >>)
  OBVIOUS
<1>5. ns \in {<<>>, << <<section, "in">> >>} /\ Populate(ns, After(section))
  BY <1>1, <1>4 DEF IfRead
<1>6. ToolInv'
  BY <1>2, <1>3, <1>5, SinglePopulated
<1> QED
  BY <1>3, <1>6

\* The names of a device's two fields.
LEMMA PairIs ==
  ASSUME NEW x \in Parts, NEW f \in Parts, NEW g \in Parts, f # g,
         NEW ns \in Seq(Devices), NEW ms \in Seq(Devices)
  PROVE  /\ Of(x, ns, f) \o Of(x, ms, g) \in Seq(Seq(Parts))
         /\ ToSet(Of(x, ns, f) \o Of(x, ms, g)) =
              {<<x, d, f>> : d \in ToSet(ns)} \cup {<<x, d, g>> : d \in ToSet(ms)}
         /\ IsInjective(ns) /\ IsInjective(ms) =>
              IsInjective(Of(x, ns, f) \o Of(x, ms, g))
<1>1. PICK a \in Seq(Seq(Parts)), b \in Seq(Seq(Parts)) : a = Of(x, ns, f) /\ b = Of(x, ms, g)
  BY OfIs
<1>2. /\ ToSet(a) = {<<x, d, f>> : d \in ToSet(ns)} /\ ToSet(b) = {<<x, d, g>> : d \in ToSet(ms)}
      /\ IsInjective(ns) => IsInjective(a)
      /\ IsInjective(ms) => IsInjective(b)
  BY <1>1, OfIs
<1>3. ToSet(a) \cap ToSet(b) = {}
  BY <1>2
<1> QED
  BY <1>1, <1>2, <1>3, ConcatenatedIs

LEMMA DiskKeepsTool ==
  ASSUME NamesInv, ToolInv, populate_disk
  PROVE  NamesInv' /\ ToolInv'
<1>1. PICK ns : /\ ns = Names(returned'.stats)
                /\ section = "disk"
                /\ sg_get_disk_io_stats \/ sg_get_disk_io_stats_diff
                /\ Populate(Of("disk", ns, "disk_name") \o Of("disk", ns, "read_bytes"), After("disk"))
  BY DEF populate_disk
<1>2. NamesInv' /\ platform' = platform /\ ns \in Seq(Devices) /\ (platform # "HPUX" => IsInjective(ns))
  BY <1>1, DiskNames DEF AnswersOnce
<1>3. "disk" \in Parts /\ "disk_name" \in Parts /\ "read_bytes" \in Parts
  BY FieldsAre DEF Fields
<1> DEFINE xs == Of("disk", ns, "disk_name") \o Of("disk", ns, "read_bytes")
<1>4. /\ xs \in Seq(Seq(Parts))
      /\ ToSet(xs) = {<<"disk", d, "disk_name">> : d \in ToSet(ns)}
                       \cup {<<"disk", d, "read_bytes">> : d \in ToSet(ns)}
      /\ IsInjective(ns) => IsInjective(xs)
  BY <1>2, <1>3, PairIs
<1>5. Populate(xs, After(section)) /\ section = toplevels[4]
  BY <1>1, ToplevelsAre
<1> HIDE DEF xs
<1>6. \A name \in ToSet(xs) : name[1] = toplevels[4]
  BY <1>4, ToplevelsAre
<1>7. platform # "HPUX" => IsInjective(xs)
  BY <1>2, <1>4
<1>8. 4 \in 1..6
  OBVIOUS
<1>9. ToolInv'
  BY <1>2, <1>4, <1>5, <1>6, <1>7, <1>8, SectionPopulated
<1> QED
  BY <1>2, <1>9

LEMMA NetKeepsTool ==
  ASSUME NamesInv, ToolInv, populate_net_io
  PROVE  NamesInv' /\ ToolInv'
<1>1. PICK ns : /\ ns = Names(returned'.stats) /\ io' = ns
                /\ section = "net"
                /\ sg_get_network_io_stats \/ sg_get_network_io_stats_diff
                /\ Populate(Of("net", ns, "interface_name") \o Of("net", ns, "rx"), "iface")
  BY DEF populate_net_io
<1>2. NamesInv' /\ platform' = platform /\ ns \in Seq(Devices) /\ (platform # "HPUX" => IsInjective(ns))
  BY <1>1, NetworkNames DEF AnswersOnce
<1>3. "net" \in Parts /\ "interface_name" \in Parts /\ "rx" \in Parts
  BY FieldsAre DEF Fields
<1> DEFINE xs == Of("net", ns, "interface_name") \o Of("net", ns, "rx")
<1>4. /\ xs \in Seq(Seq(Parts))
      /\ ToSet(xs) = {<<"net", d, "interface_name">> : d \in ToSet(ns)}
                       \cup {<<"net", d, "rx">> : d \in ToSet(ns)}
      /\ IsInjective(ns) => IsInjective(xs)
  BY <1>2, <1>3, PairIs
<1>5. Populate(xs, "iface")
  BY <1>1
<1> HIDE DEF xs
<1>6. FromBefore(5) /\ section \notin Ended
  BY <1>1, ToplevelsAre DEF ToolInv, Ended
<1>7. ToSet(xs) \cap ToSet(stats_list) = {}
  <2> SUFFICES ASSUME NEW name \in ToSet(xs), name \in ToSet(stats_list) PROVE FALSE
    OBVIOUS
  <2>1. PICK h \in 1..4 : name[1] = toplevels[h]
    BY <1>6 DEF FromBefore
  <2>2. toplevels[h] = toplevels[5] /\ h \in 1..6 /\ h # 5
    BY <1>4, <2>1, ToplevelsAre
  <2> QED
    BY <2>2, ToplevelsAre
<1>8. FromInterfaces'
  <2>1. ToSet(stats_list') = ToSet(stats_list) \cup ToSet(xs)
    BY <1>4, <1>5, ConcatenatedIs DEF Populate, ToolInv
  <2>2. \A d \in ToSet(ns) : d \in Devices
    BY <1>2 DEF ToSet
  <2>3. \A name \in ToSet(stats_list') :
           \/ \E h \in 1..4 : name[1] = toplevels[h]
           \/ \E d \in ToSet(ns) : name = <<"net", d, "interface_name">>
           \/ \E d \in Devices : name = <<"net", d, "rx">>
    BY <1>4, <1>6, <2>1, <2>2 DEF FromBefore
  <2> QED
    BY <1>1, <1>2, <2>3 DEF FromInterfaces
<1>9. ToolInv'
  BY <1>2, <1>4, <1>5, <1>6, <1>7, <1>8, Populated
<1> QED
  BY <1>2, <1>9

LEMMA IfaceKeepsTool ==
  ASSUME NamesInv, ToolInv, populate_net_iface
  PROVE  NamesInv' /\ ToolInv'
<1>1. PICK ns, new :
        /\ ns = returned'.stats /\ new = Keep(ns, Devices \ ToSet(io))
        /\ section = "iface" /\ sg_get_network_iface_stats
        /\ Populate(Of("net", new, "interface_name") \o Of("net", ns, "speed"), After("net"))
  BY DEF populate_net_iface
<1>2. NamesInv' /\ platform' = platform /\ ns \in Seq(Devices) /\ IsInjective(ns)
  BY <1>1, InterfaceNames
<1>3. /\ new \in Seq(Devices) /\ IsInjective(new)
      /\ \A d \in ToSet(new) : d \in Devices /\ d \notin ToSet(io)
  <2>1. Devices \cap (Devices \ ToSet(io)) = Devices \ ToSet(io)
    OBVIOUS
  <2>2. new \in Seq(Devices \ ToSet(io)) /\ IsInjective(new)
    BY <1>1, <1>2, <2>1, KeepIs, KeepIsInjective
  <2>3. \A s \in Seq(Devices \ ToSet(io)) : s \in Seq(Devices)
    OBVIOUS
  <2> QED
    BY <2>2, <2>3 DEF ToSet
<1>4. "net" \in Parts /\ "interface_name" \in Parts /\ "speed" \in Parts
  BY FieldsAre DEF Fields
<1>0. "interface_name" # "speed" /\ ns \in Seq(Devices) /\ new \in Seq(Devices)
      /\ IsInjective(new) /\ IsInjective(ns)
  BY <1>2, <1>3
<1> DEFINE xs == Of("net", new, "interface_name") \o Of("net", ns, "speed")
<1>5. /\ xs \in Seq(Seq(Parts))
      /\ ToSet(xs) = {<<"net", d, "interface_name">> : d \in ToSet(new)}
                       \cup {<<"net", d, "speed">> : d \in ToSet(ns)}
      /\ IsInjective(xs)
  <2>1. PICK f \in Parts, g \in Parts : f = "interface_name" /\ g = "speed"
    BY <1>4
  <2>2. PICK x \in Parts : x = "net"
    BY <1>4
  <2>3. f # g
    BY <1>0, <2>1
  <2>4. /\ Of(x, new, f) \o Of(x, ns, g) \in Seq(Seq(Parts))
        /\ ToSet(Of(x, new, f) \o Of(x, ns, g)) =
             {<<x, d, f>> : d \in ToSet(new)} \cup {<<x, d, g>> : d \in ToSet(ns)}
        /\ IsInjective(Of(x, new, f) \o Of(x, ns, g))
    BY <1>0, <2>3, PairIs
  <2> QED
    BY <2>1, <2>2, <2>4
<1>6. Populate(xs, After("net"))
  BY <1>1
<1> HIDE DEF xs
<1>7. FromInterfaces /\ section \notin Ended
  BY <1>1, ToplevelsAre DEF ToolInv, Ended
<1>8. ToSet(xs) \cap ToSet(stats_list) = {}
  <2> SUFFICES ASSUME NEW name \in ToSet(xs), name \in ToSet(stats_list) PROVE FALSE
    OBVIOUS
  <2>1. \/ \E d \in ToSet(new) : name = <<"net", d, "interface_name">>
        \/ \E d \in ToSet(ns) : name = <<"net", d, "speed">>
    BY <1>5
  <2>2. \A h \in 1..4 : name[1] # toplevels[h]
    <3>1. name[1] = toplevels[5]
      BY <2>1, ToplevelsAre
    <3>2. \A h \in 1..4 : h \in 1..6 /\ h # 5
      OBVIOUS
    <3> QED
      BY <3>1, <3>2, ToplevelsAre
  <2>3. \/ \E d \in ToSet(io) : name = <<"net", d, "interface_name">>
        \/ \E d \in Devices : name = <<"net", d, "rx">>
    BY <1>7, <2>2 DEF FromInterfaces
  <2> QED
    BY <1>3, <2>1, <2>3
<1>9. FromBefore(6)'
  <2>1. ToSet(stats_list') = ToSet(stats_list) \cup ToSet(xs)
    BY <1>5, <1>6, ConcatenatedIs DEF Populate, ToolInv
  <2>2. \A h \in 1..4 : h \in 1..(6 - 1)
    OBVIOUS
  <2>3. 5 \in 1..(6 - 1) /\ toplevels[5] = "net"
    BY ToplevelsAre
  <2>4. \A name \in ToSet(stats_list') : \E h \in 1..(6 - 1) : name[1] = toplevels[h]
    <3> SUFFICES ASSUME NEW name \in ToSet(stats_list')
                 PROVE  \E h \in 1..(6 - 1) : name[1] = toplevels[h]
      OBVIOUS
    <3>1. name[1] = "net" \/ \E h \in 1..4 : name[1] = toplevels[h]
      BY <1>5, <1>7, <2>1 DEF FromInterfaces
    <3> QED
      BY <2>2, <2>3, <3>1
  <2> QED
    BY <2>4 DEF FromBefore
<1>10. After("net") = "sorted" \/ After("net") = toplevels[6]
  <2>1. After(toplevels[5]) = "sorted" \/ \E j \in (5 + 1)..6 : After(toplevels[5]) = toplevels[j]
    BY AfterIs
  <2> QED
    BY <2>1, ToplevelsAre
<1>11. After("net") # "print"
  BY <1>10, ToplevelsAre DEF Ended
<1>12. ToolInv'
  BY <1>2, <1>5, <1>6, <1>7, <1>8, <1>9, <1>10, <1>11, Populated
<1> QED
  BY <1>2, <1>12

LEMMA SortKeeps ==
  ASSUME ToolInv, Sort
  PROVE  ToolInv'
<1>1. /\ section = "sorted" /\ stats_list' \in Sorted(stats_list)
      /\ section' \in {"sleep", "print"}
      /\ UNCHANGED <<platform, argv, printed>>
  BY DEF Sort, vars, kernel
<1>2. /\ stats_list' \in Seq(Seq(Parts)) /\ InOrderOfNames(stats_list')
      /\ IsInjective(stats_list) => IsInjective(stats_list')
  BY <1>1, SortIs DEF ToolInv
<1>3. printed = <<>>
  BY <1>1 DEF ToolInv
<1>4. PrintedIsAsked' /\ section' \in Ended
  BY <1>1, <1>3 DEF PrintedIsAsked, Ended
<1>5. /\ argv' \in Arguments /\ printed' = <<>>
      /\ platform' # "HPUX" => IsInjective(stats_list')
  BY <1>1, <1>2, <1>3 DEF ToolInv
<1> QED
  BY <1>2, <1>4, <1>5 DEF ToolInv, InOrderOfNames

LEMMA PrintKeeps ==
  ASSUME ToolInv, print_stats
  PROVE  ToolInv'
<1>1. /\ section = "print" /\ section' \in {"sleep", "done"}
      /\ UNCHANGED <<platform, argv, stats_list>>
  BY DEF print_stats, vars, kernel
<1>2. stats_list \in Seq(Seq(Parts)) /\ InOrderOfNames(stats_list)
      /\ (platform # "HPUX" => IsInjective(stats_list))
  BY <1>1 DEF ToolInv
<1>3. PrintedIsAsked'
  <2> SUFFICES ASSUME argv # <<>>, NEW i \in DOMAIN argv
               PROVE  /\ ToSet(printed'[i]) = {n \in ToSet(stats_list) : Compare(argv[i], n)}
                      /\ platform # "HPUX" => IsInjective(printed'[i])
    BY <1>1 DEF PrintedIsAsked, Compare
  <2>1. PICK s : /\ \A h \in DOMAIN argv : s[h] \in bsearch(argv[h])
                 /\ printed' = [h \in DOMAIN argv |-> PrintRange(argv[h], s[h])]
    BY DEF print_stats
  <2>2. argv[i] \in Argument
    <3>1. argv \in Seq(Argument)
      BY ToolAssumption DEF ToolInv, Argument, Parts
    <3> QED
      BY <3>1
  <2>3. PICK q, x : q = argv[i] /\ x = s[i] /\ q \in Argument
    BY <2>2
  <2>4. x \in bsearch(q) /\ printed'[i] = PrintRange(q, x)
    BY <2>1, <2>3
  <2> QED
    BY <1>2, <2>3, <2>4, RangeIsAsked
<1>4. section' \in Ended /\ section' # "print" /\ argv' \in Arguments
  BY <1>1 DEF Ended, ToolInv
<1> QED
  BY <1>1, <1>2, <1>3, <1>4 DEF ToolInv

LEMMA RepeatKeeps ==
  ASSUME ToolInv, Repeat
  PROVE  ToolInv'
<1>1. /\ section' = Section(1) /\ stats_list' = <<>> /\ printed' = <<>>
      /\ UNCHANGED <<platform, argv>>
  BY DEF Repeat, vars, kernel
<1>2. section' = "sorted" \/ \E j \in 1..6 : section' = toplevels[j]
  BY <1>1, SectionIs
<1>3. section' # "print"
  BY <1>2, ToplevelsAre DEF Ended
<1>4. \A j : FromBefore(j)'
  BY <1>1 DEF FromBefore, ToSet
<1>5. <<>> \in Seq(Seq(Parts)) /\ IsInjective(<<>>)
  BY DEF IsInjective
<1>6. PrintedIsAsked' /\ argv' \in Arguments
  BY <1>1 DEF PrintedIsAsked, ToolInv
<1>7. section' \in Ended \/ \E j \in 1..6 : section' = toplevels[j] /\ FromBefore(j)'
  BY <1>2, <1>4 DEF Ended
<1> QED
  BY <1>1, <1>3, <1>5, <1>6, <1>7 DEF ToolInv

LEMMA ToolInvInit == Init /\ ToolInit => NamesInv /\ ToolInv
<1> SUFFICES ASSUME Init, ToolInit PROVE ToolInv
  BY NamesInit
<1>1. section = Section(1) /\ stats_list = <<>> /\ printed = <<>> /\ argv \in Arguments
  BY DEF ToolInit
<1>2. section = "sorted" \/ \E j \in 1..6 : section = toplevels[j]
  BY <1>1, SectionIs
<1>3. section # "print"
  BY <1>2, ToplevelsAre DEF Ended
<1>4. \A j : FromBefore(j)
  BY <1>1 DEF FromBefore, ToSet
<1>5. <<>> \in Seq(Seq(Parts)) /\ IsInjective(<<>>)
  BY DEF IsInjective
<1>6. PrintedIsAsked
  BY <1>1 DEF PrintedIsAsked
<1>7. section \in Ended \/ \E j \in 1..6 : section = toplevels[j] /\ FromBefore(j)
  BY <1>2, <1>4 DEF Ended
<1> QED
  BY <1>1, <1>3, <1>5, <1>6, <1>7 DEF ToolInv

LEMMA ToolStepKeeps ==
  NamesInv /\ ToolInv /\ [ToolNext]_<<vars, toolVars>> => NamesInv' /\ ToolInv'
<1> SUFFICES ASSUME NamesInv, ToolInv, [ToolNext]_<<vars, toolVars>>
             PROVE  NamesInv' /\ ToolInv'
  OBVIOUS
<1>1. ASSUME UNCHANGED vars PROVE NamesInv' /\ platform' = platform
  BY <1>1, NamesStay DEF vars, kernel, statics
<1>2. CASE UNCHANGED <<vars, toolVars>>
  BY <1>1, <1>2, ToolStays
<1>3. CASE Kernel /\ UNCHANGED toolVars
  BY <1>3, NamesKernel, ToolStays
<1>4. CASE Sort
  BY <1>1, <1>4, SortKeeps DEF Sort
<1>5. CASE print_stats
  BY <1>1, <1>5, PrintKeeps DEF print_stats
<1>6. CASE Repeat
  BY <1>1, <1>6, RepeatKeeps DEF Repeat
<1> QED
  BY <1>2, <1>3, <1>4, <1>5, <1>6, ConstKeeps, CpuKeeps, MemKeeps, DiskKeepsTool,
     NetKeepsTool, IfaceKeepsTool, PageKeeps
  DEF ToolNext, ToolStep

\* What print_stats prints for an argument are exactly the statistics read whose
\* names it asks for, wherever bisection lands, and each of them once, though
\* interfaces come and go between the calls that list them (statgrab.c 151-162,
\* 403-434, 593-646); but on HP-UX a name may be there twice.
THEOREM NamesPrinted == ToolSpec => []PrintedIsAsked
<1>1. NamesInv /\ ToolInv => PrintedIsAsked
  BY DEF ToolInv
<1> QED
  BY <1>1, ToolInvInit, ToolStepKeeps, PTL DEF ToolSpec
=============================================================================
