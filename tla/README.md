# A verification project for PTIR_group

PTIR_group is three students' measurements of network monitoring with eBPF.
Its programs are small, but most of their state is shared: by the CPUs that run
an XDP program, by a kernel program and the Python process that reads its maps,
or by the threads of a Python process.  This directory models those parts in
TLA+, checks them with TLC on small instances, and proves the main results with
TLAPS for every value of the constants.

`PROJECT.json` lists the components, the runs, the source lines behind every
definition, the mutations each property is known to detect, the hazards of the
code and the theorems.

## 1. Inventory of the system

| Part | Files | State it keeps | Operations | What makes it correct |
|---|---|---|---|---|
| XDP flood filter | `eBPF_Marine/pps.c` | five BPF hash maps shared by the CPUs, a per-CPU counter | one run of `xdp_pps` per frame | one window per address; no address banned early; no packet of a banned address gets in; a count over the threshold is acted on |
| PPS monitor | `pps.py`, `pps_vide.py`, `pps_vide.c` | the global `b`, the attachment, the CSV file | load, attach, clear the maps, read / zero / write each second, signal handler | every frame in one row; clean exit from any point; clearing does not disturb the filter |
| Latency probe | `latency.c`, `latency.py`, and their `_vide` twins | `pps.c`'s maps, a per-CPU sum and count | as above, plus the average | each frame measured once, dropped or not; what is added ends in a row; the average is the sum over the count of the same packets |
| CPU probe | `cpu_monitor.c`, `cpu_monitor.py`, and their `_vide` twins | the same maps visited in another order, perf rings, a sampling thread | as above, plus the thread and cleanup | as `pps.c`; every counted address is stamped; cleanup from any point, also from itself; no row after it |
| User-space detector | `usrspace_prog/ddos_user_space.py` | dictionaries of the sniffer thread, three counters under a lock, a queue | `packet_handler`, `monitor` | the same filter; nothing lost between samples; rates that are rates |
| Its consumers | `usrspace_prog/graphe_*.py` | lists of samples | take a sample, draw or write it | the sample shown is the one meant, and is recent |
| Lateral movement, kernel | `eBPF_Baptiste/al_interfaces_v2.py` | the programs attached, perf rings, `ip_history` | attach or fall back to TC, stamp and submit a packet, poll the rings, check, clean up | an alert is about two real packets; no first movement is missed; no program is left behind |
| Lateral movement, user space | `eBPF_Baptiste/test_user_space.py` | `ip_history` shared by one thread per interface, a stop event | `packet_handler`, Ctrl-C and joins | the same, and no thread dies |
| Exhaustive tracer | `eBPF_Sarah/monitor_adv.py` | the `start` map, perf rings | the two tracepoints, polling | an entry belongs to a call in progress; a call is measured unless the map is full; runs do not mix; every run ends |
| Sampled detector | `eBPF_Sarah/monitor2.py` | three counters and `detections` per process | the probes, the run loop | the record of a run depends on its test and its rate alone; nothing is carried from one run to the next |
| Workloads | `eBPF_Sarah/test_app.c`, `test_app2.c` | none | the system calls of each test | the environment of the two above |
| Rate logs | `traffic_generation/variation_debit.sh`, `merge_debit.sh` | log files, child processes | write rates, merge and delete | no row lost or doubled by an interruption or a second merge |
| Other scripts | attack scripts, `setup_topology.sh`, plots, simulators, `test_ressource_5.py` | little or none | straight-line | not modelled, see section 8 |

How they interact: an XDP program and its monitor share BPF maps through system
calls that are atomic per entry (per CPU slot for per-CPU arrays) and not beyond;
the perf rings of `al_interfaces_v2.py` are one FIFO per CPU without any order
between them; the threads of the Python programs share objects, with a lock that
is common in `ddos_user_space.py` and one per thread in `test_user_space.py`.

What is hard to test here is therefore interleaving (two CPUs between a lookup
and its update; two threads between two fields of a record), the order of events
from different rings, what happens to a frame that arrives between two system
calls of a monitor, signals at any point, full maps and rings, and the
wrap-around of unsigned differences.  `PROJECT.json` lists each at its line.

## 2. Modules

| Module | Models | Correspondence |
|---|---|---|
| `FloodFilter` | the promise of the flood filter | one fixed window per address; packet `MAX_PACKETS + 1` of a window bans; `PassTime` is the clock.  No CPUs, no maps. |
| `XdpFlood` | `xdp_pps` on several CPUs | variables named after the maps and the locals; `pc[c]` is the next access of CPU `c`; each lookup-and-read and each update is an action (`CheckBlacklist`, `ReadCount`, `WriteCount`, `ReadFlood`, `WriteFlood`, `ReadClock`, `LookupTimestamp`, `Ban`, `ResetFlood`, `WriteTimestamp`, `CheckPort`).  `received` and `passed` are history. |
| `FloodRefinement` | the mapping from `XdpFlood` on one CPU to `FloodFilter` | a packet takes effect when the program reads the clock |
| `XdpFlood_proofs` | theorems on `XdpFlood` and `FloodRefinement` | section 6 |
| `PpsMonitor` | `pps.py` over `XdpFlood` | `monitor` is the next call of the process; clearing a map deletes an entry per step, reading or zeroing the counter visits a CPU per step; `Interrupt` is the signal |
| `UserDetector` | `ddos_user_space.py` and the consumer's `get` | `lock` and the two threads' places; a counter is read when the lock is taken and written when it is given back; `handled`, `dropped`, `passed`, `sampled` are history |
| `UserDetector_proofs` | theorems on `UserDetector`, its refinement of `FloodFilter` included | section 6 |
| `LateralKernel` | the programs, rings and check of `al_interfaces_v2.py` | `events[c]` is the perf ring of a CPU; `HandleEvent` is one callback of the polling loop with the whole of `check_lateral_movement` |
| `LateralMonitor` | the script around them | `main` and `at` are its place in the attach and cleanup loops; `present` is which interfaces exist; every failure the two `except` clauses answer is a disjunct of `Attach`, `Detach` or `DetachInterrupted` |
| `LateralMonitor_proofs` | theorems on `LateralMonitor` and the `LateralKernel` it composes | section 6 |
| `LateralUser` | `test_user_space.py` | one action per access to the shared record; `KeyboardInterrupt`, `Join` are the main thread |
| `LateralUser_proofs` | theorems on `LateralUser` | section 6 |
| `XdpLatency` | `latency.c`, `latency.py` and their `_vide` twins, over `PpsMonitor` | `RunFilter` is a step of `pps.c`, and `tail[c]` the place in the measuring block that both verdicts lead to; the monitor shares its start and its exit with `PpsMonitor`, and `ReadItems`, `ClearLatency` visit one slot of one key per step |
| `XdpMonitors_proofs` | theorems on `PpsMonitor` and on `XdpLatency`, which extends it, and on sums over finite sets | section 6 |
| `XdpCpu` | `cpu_monitor.c` and `cpu_monitor_vide.c` on several CPUs | the steps it shares with `pps.c` are `XdpFlood`'s; `last_seen[c]` is the set of values the pointer of a CPU may lead to by the time it is read |
| `CpuMonitor` | `cpu_monitor.py` and `cpu_monitor_vide.py` over `XdpCpu` | `main` and `sampler` are the two threads; `Signal` sends the main thread into `cleanup` from wherever it is, `guarded` is whether the `finally` clause will answer with a second one |
| `CpuMonitor_proofs` | theorems on `CpuMonitor` and the `XdpCpu` it composes | section 6 |
| `SyscallSampler` | `monitor2.py` and `test_app.c` | a probe is three steps (`Enter`, `Store`, `Examine`); `AppCall` issues the calls of the test in order; `phase` is the script's place in its loop, which names the map being cleared; `OtherCall`, `OtherStarts`, `OtherExits` are the rest of the machine |
| `SyscallSampler_proofs` | theorems on `SyscallSampler` | section 6 |
| `MCSyscallSampler` | the rates of the run | |
| `SyscallTracer` | `monitor_adv.py` and `test_app2.c` | `todo[t]` are the calls a task has still to make; `SysEnter` and `SysExitProbe` are the two tracepoints; `Fork`, `Wait` and `ExitGroup` what the kernel does in between; `script` is the place in the loops |
| `SyscallTracer_proofs` | theorems on `SyscallTracer` | section 6 |

An XDP program is composed with its monitor in `PpsMonitor`, `XdpLatency` and
`CpuMonitor`, which EXTEND it and let every kernel step interleave with every
step of the process; `LateralMonitor` does the same for `LateralKernel`.  `FloodFilter`
is implemented twice: by `XdpFlood` on one CPU and by `UserDetector`.

Five choices need a word.

*Addresses.*  `pps.c` names `src_ip` what it reads from `ip->daddr` (line 55).
Frames reach `veth-main` from the victim, so the address a frame goes to is the
one it is counted against (`cpu_monitor.c` reads `ip->saddr`).  The models say "address counted against" and hold
whichever field is read.

*Entries.*  Stored counts start at 1 and stamps are never 0, so the value 0
stands for a missing entry.  `Update` refuses a new key when the map is full, as
the kernel does, and the program goes on as the code does: it ignores the error.

*A stale pointer.*  `cpu_monitor.c` keeps the pointer to the stamp across an
update of another map.  A kernel hash map recycles the element of an updated
key, which the next update may fill again, for the same address or another.
`Recycle` therefore adds every stamp stored meanwhile to the values the pointer
may lead to, and `TestWindow` reads any of them.

*Ids of tasks.*  In `SyscallTracer` only the tasks of the tests have ids.  Other
processes are there as the room they leave in the map and in the ring:
`MAX_ENTRIES` and `RingSize` are what is left for the tests.  One ring stands
for those of all CPUs, because a poll empties them all.

*Mutants.*  Operators marked "Mutant" in a module are never part of its
specification.  Each is a plausible bug; replacing the definition it stands for
makes one property fail, which shows that the property depends on the code.

## 3. Runs

| Run | Module | Expectation | Question and answer |
|---|---|---|---|
| `flood_one_cpu` | `FloodRefinement` | pass | one CPU, two addresses: `pps.c` implements `FloodFilter`, and at most `MAX_PACKETS` packets of an address pass in the first window |
| `flood_two_cpus` | `XdpFlood` | pass | two CPUs: no premature ban, nothing enters after a ban, a count over the threshold is resolved |
| `flood_lost_update` | `XdpFlood` | violation | two CPUs lose an increment and one packet too many passes |
| `pps_monitor` | `PpsMonitor` | pass | the rows hold every frame but those counted between a read and a zeroing (`lost`); clean exit wherever the signal comes; unless a packet was in flight while the flood counts were cleared (`carried`), bans are earned by the traffic since |
| `latency_probe` | `XdpLatency` | pass | every frame is measured once, the latencies of a CPU fit into the time gone by, and rows, readings and slots hold all that was added but what fell between a read and a clear (`missed`) |
| `latency_average` | `XdpLatency` | violation | the row is the sum of all slots over their number, not the mean latency |
| `cpu_probe` | `CpuMonitor` | pass | two CPUs with stale pointers: no premature ban, at most `MAX_PACKETS` pass while no two CPUs meet on an address, every counted address is stamped, a count over the threshold is handled; two signals: clean exit, no row after the flag is down |
| `user_detector` | `UserDetector` | pass | samples account for every packet; drops exceed packets by one at most; the handler returns; the filter is `FloodFilter` |
| `lateral_kernel` | `LateralMonitor` | pass | alerts are about real packets whatever is lost or reordered; in stamp order, they are ordered and none is missed; what the cleanup leaves behind |
| `sniffers` | `LateralUser` | pass | what an alert guarantees with overlapping handlers (evidence) and without (truth); no sniffer dies without an overlap; Ctrl-C ends the program |
| `syscall_sampler` | `MCSyscallSampler` | pass | a test's process starts without entries although ids come round again and others count while the maps are cleared; its record equals `Expected(test, rate)` |
| `syscall_tracer` | `SyscallTracer` | pass | whose the entries of the map are, when a call goes unmeasured, that runs do not mix, and that every run ends |

### Bounds

`MaxPackets`, `MaxOther`, `MaxSamples` and `MaxTime` bound the environment and
appear only in guards of arriving packets, samples and ticks; nothing the code
does is cut short.  `MAX_PACKETS = 2` with four packets gives each address two
packets to spare: one that bans and one that meets the ban; `pps_monitor` has
three, enough for a ban with frames before and after a report.  The window is as
long as two ticks and the clock runs one or two past it, so a window expires and
restarts.  `MaxTime = 1` in `pps_monitor` keeps one window open, in which bans
happen; expiry is the business of the filter's own runs.  Two CPUs or threads
suffice for the races listed: each of them needs one actor inside and one
overtaking.  `user_detector` has one address because its tables are per address;
`flood_one_cpu` has two.  `WORD = 64` is above every difference the clock can
produce, as 2^64 ns is, and small enough to be printed.  Rings of two packets
overflow with four.  `latency_probe` has one CPU, since the measuring block works
on slots of its own CPU only; it takes two keys for a sum to be read without its
count.  `latency_average` has two CPUs and no address: the wrong divisor needs no
filter.  `cpu_probe` has two signals, so that one interrupts the cleanup of the
other, and one row, which is either written or in hand when the log is closed.
`syscall_tracer` has a map of two entries for three ids, so that two processes
that ended fill it, and two runs of each test, so that the second meets what the
first left; two iterations give the concurrent modes two children at a time and
the fork bomb grandchildren.  `syscall_sampler` scales the tests down (two iterations of
two opens and four forks) and takes rates that fall on either side of the
resulting numbers: with one file opened at startup, rate 5 examines the fifth
clone, which is not over 5, and the fifth open, which is of `/proc/self/mem`;
rate 6 examines the sixth clone and no open of it.  Four runs and five process
ids let an id come round again, after a run in between as the kernel guarantees.

Type invariants are checked where a module does not build on a checked one
(`XdpFlood`, `UserDetector`, `LateralUser`, `SyscallSampler`); the others
(`MonitorTypeOK`, `LatencyTypeOK`, `CpuTypeOK`, and `TypeOK` of `LateralKernel` and
`SyscallTracer`) are theorems of section 6 and not the business of a run.

### Deadlock

Every run checks for deadlock.  A system whose traffic is over and whose
processes are idle or gone stutters through an explicit action (`Quiet`,
`Over`), whose guard is that everything is finished; any other state without a
successor would be reported.

## 4. Fairness

* `XdpFlood!FairSpec`: weak fairness of `Run(c)`: the kernel runs an XDP program
  to its end once it has been entered.  Nothing is assumed of arriving frames.
* `UserDetector!FairSpec`: weak fairness of the handler's own steps and of the
  monitor's inside the critical section; strong fairness of taking the lock,
  because the monitor sleeps a second between samples and so leaves the lock
  free again and again.  Nothing is assumed of packets or of the consumer.
* `LateralUser!FairSpec`: weak fairness of `Join`: the main thread is scheduled
  and `join(timeout=5)` returns.  Nothing is assumed of the sniffers, which may
  wait for a packet for ever.

* `SyscallTracer!FairSpec`: weak fairness of each task's steps (the kernel runs
  a task that can run; `wait` returns when it may) and of `Reap` (the script calls
  `p.poll()` again after at most 100 ms).  Nothing is assumed of the ring.

## 5. What was found

The violations above are disagreements between the code and what it says of
itself; `PROJECT.json` quotes the lines.  `pps.c` counts with a lookup and an
update that are not atomic (line 80), so the threshold can be exceeded on several
CPUs although no address can be banned too early.  `latency.py` (line 64) adds
the slots of both keys and divides by the number of slots, although `latency.c`
(line 17) keeps the sum in one and the number of frames in the other.

Other limits are conditions inside passing properties, each of them needed:

* `lost` in `FramesAccounted`: `pps.py` zeroes (line 67) a counter it read
  earlier (line 64), and a frame in between is in no row.  `missed` in
  `LatencyAccounted` is the same for `latency.py`, lines 62 and 65.
* `carried` in `BanEarnedSinceClear`: the program is attached (line 52) before
  its maps are cleared, and a packet in flight writes back an old count.
* `raced` in `AtMostMaxPassUnraced`: `cpu_monitor.c` loses increments as `pps.c`.
* `Room` in `CountedIsStamped` and `FloodHandled`, and in the theorem on
  `AtMostMaxPassUnraced`: a stamp that a full map refuses
  leaves an address whose every packet restarts its window.
* `handled # Signals` in `CleanExit` of `CpuMonitor`: the program is attached (line
  23) before the handlers are installed (lines 73-74), and a signal in between
  leaves it on the interface.
* the one drop too many in `DropsExceedByOne`: `ddos_user_space.py` counts a packet
  (line 51) and its drop (line 55) in two critical sections, and the rate of the
  sample after can exceed 100 %.
* `inOrder` in `LateralKernel`: with rings polled out of order, `abs` at line 102
  lets an alert name the interfaces in the wrong order.
* `trouble` and `present` in `CleanEnd`: an interface on the TC fallback keeps its
  program (`remove_xdp` succeeds, so `detach_tc` is not reached), a missing one ends
  the cleanup (both calls fail), and so does a second Ctrl-C.
* `overlap` in `LateralUser`: each thread has a lock of its own (line 34), so two
  handlers at once may report a packet that never was, miss a movement, or die of
  a record whose machine is set and whose time is still None (lines 57-58).
* `stale` in `EntryOwners`: `exit_group` never returns, so each process leaves an
  entry in `start`; a child that gets the id reports one wrong latency, and when
  `MAX_ENTRIES` are left new calls go unmeasured (`RefusedOnlyWhenFull`).

## 6. Theorems

All proofs are checked by `tlapm` to the last leaf.  They assume what the named
assumption of each module says of its constants and no more: sets of CPUs, addresses,
machines, threads and ids are finite, limits and bounds are numbers, and the
value that stands for "none" is not one of the others.  Two kinds of theorem
have a hypothesis besides, because the code needs it: `Alone(c)`, that `c` is the
only CPU and the maps have room for every address (`XdpFlood` loses increments
otherwise, run `flood_lost_update`), and `Room`, the second half of it.

Each proof has the same shape: an inductive invariant, one lemma per part of it
with a step per action, and the theorems as consequences.  What follows says
what had to be added to each property and why.

**`XdpFlood_proofs`** (any number of CPUs and addresses, any threshold, window and
capacity).  `TypeCorrect`, and:

* `NeverPremature`: `Spec => []NoPrematureBan`.  The property alone is not
  inductive: a ban follows a local count, read from a map, written by any CPU.
  `Behind(ip)` is the set of CPUs whose packet of `ip` has arrived and is not in
  a flood count yet.  `FloodInv` strengthens the property: the flood count in the
  map plus the packets behind is at most what the address sent, so is the count
  a CPU holds from the moment it read it, and a CPU at the ban holds a count
  above the threshold.  A lost update only lowers these numbers, which is why no
  interleaving breaks them.  `FloodInv(B, old)` has two parameters, the traffic of
  each address to be left out and the addresses whose old bans do not count, so
  that the monitor's proof can use it from the moment the counts are cleared.
* `BanHolds`: `Spec => NoEntryAfterBan`, an action property from `TypeOK`.
* `ProgramIsFilter`: `Spec => ImplementsFilter` under `Alone(c)`.  The mapping of
  `FloodRefinement` takes a packet to have its effect when the clock is read; the
  invariant `AloneInv` says that every address but the one in hand is settled
  (it has a stamp when it has a count, and a count over the threshold only when
  it is banned) and, label by label, how far the packet in hand has got.  Each
  step of the program is then a step of the filter or a stutter.
* `ProgramLimitsPassed`: `Spec => []AtMostMaxPass` under `Alone(c)`: in the first
  window the packets that passed are among those counted.

**`UserDetector_proofs`**.  `DetectorTypeCorrect`, which includes that the lock is
held exactly by the thread inside a critical section, and:

* `NothingIsLost`: `LoadedIsFresh` says that what a thread read when it took the
  lock is still there when it writes: this is what the lock is for.
* `AtMostOneDropTooMany`, from `drop_counter + Undecided <= packet_counter + 1`.
* `DetectorIsFilter`: `Spec => ImplementsFilter`, from `TablesAgree`: an address has
  a stamp exactly when it has a count, and no count is over the threshold unless its
  address is banned.

**`XdpMonitors_proofs`** (`pps.py` and `latency.py` over their programs, wherever the
signal comes).  `MonitorTypeCorrect`, `ProbeTypeCorrect`, and:

* `ExitIsClean`: `FilesInv` ties the global `b`, the attachment and the file to the
  place of the monitor.
* `BansAreFresh`: `MonitorSpec => []BanEarnedSinceClear`: once the flood counts are
  cleared with no packet in flight, `FloodInv` holds of the traffic since, with
  the old bans set aside until the blacklist is cleared too.
* `BusyIsBounded`: `LatencySpec => []BusyWithinTime`: the intervals a CPU measures end
  before the next begins (`BusyInv`), whatever the monitor reads and zeroes.
* `NoFrameTwice`: `MonitorSpec => []FramesAccounted`, and `NoLatencyTwice`: `LatencySpec =>
  []LatencyAccounted`.  The equations hold from the load on, not only in the loop
  (`FramesBalance`, `LatencyBalance`), because what is cleared before the first
  second counts as `discarded`; the invariants (`FramesInv`, `LatencyBooks`) add that
  `total` is 0 whenever no reading is in progress, which is what lets `Wake` begin
  with an empty one.  Each step moves one slot from one term to another.
* `FramesAreMeasured`: `LatencySpec => []EveryFrameMeasured`, inductive with the types:
  a CPU enters `InFlight` with the frame and leaves it with the count.

These three are about sums over maps of any finite size.  The first lemmas of the
module say what `SumFunctionOnSet` is: the fold of the community module picks the
elements of a set in an order of its own, and `SumIsEntry` identifies its value
with the entry of a table over the subsets, built by induction over them
(`TableExists`, `TablesAgree`).  The induction is stated with sets instead of
operators (`SubsetInduction`: if a set contains each subset of `S` all of whose
proper subsets it contains, it contains all of them) and follows from the
well-foundedness of inclusion on the subsets of a finite set.  What the proofs cite is
`SumChange`: how two sums differ when two maps differ at one point.

**`CpuMonitor_proofs`** (`cpu_monitor.py` over `cpu_monitor.c`, any number of CPUs
and signals).  `ProcessTypeCorrect`, and:

* `CpuNeverPremature`: the argument of `NeverPremature` with `CountsInv`; the stale
  pointer only decides between a restart and a ban, and both are within the
  traffic.
* `CountsAreStamped` and `FloodsAreHandled`, from `EntriesInv`: under `Room` some CPU
  that knows is always on its way to store the stamp, or to answer the count.
* `UnracedPassesAtMost`, under `Room`, from `UnracedInv`: while no two CPUs have met on
  an address it behaves as on one CPU.
* `ProcessEndsClean` and `SamplerStops`, from `CleanInv`: what has been set up at
  each stage of the start and undone at each stage of the cleanup.

**`LateralMonitor_proofs`** (`al_interfaces_v2.py`, any interfaces, CPUs and rings).
`MonitorTypeCorrect`, and:

* `AlertsAreReal`: what is in a ring, in the history and in an alert was captured
  (`Genuine`).
* `AlertsInOrder`: as long as events are handled in order, the history is not
  younger than the event handled last (`RecordIsPast`).
* `MovementIsSeen`: before the first alert, handled packets of different
  interfaces are further apart than the threshold, and the history is the last of
  them (`NoMove`).
* `CleanupComplete`: the interfaces the cleanup has passed have no XDP program, and
  none at all unless there was a fallback (`CleanupInv`).

**`LateralUser_proofs`** (`test_user_space.py`, any number of sniffers).  `TypeCorrect`,
and:

* `EvidenceForAlerts`, under any interleaving: each half of a record comes from
  some packet (`Witnessed`).
* `AlertsAreReal`, `MovementIsSeen` and `SniffersSurvive`, as long as no two handlers
  overlapped: there is one record, and it is empty, half written by the thread at
  work, or the packet it describes (`OneRecord`), and before the first alert all
  that was handled is further from it than the threshold (`NoMove`).

**`SyscallSampler_proofs`** (any tests, rates, iterations and ids).  `TypeCorrect`, and:

* `TestsStartClean`: `Spec => []StartsClean`.  Processes go on counting while the maps
  are cleared one after the other, so no map is ever known to be empty.
  `EntriesAreSeen` says instead that an entry is of a process that is alive or was
  seen in this run or the one before, and that a map already cleared in this run
  holds none of the latter; ids are given out again only later than that.
* `RecordsWhatTestsDo`: `Spec => []DetectedAsExpected`.  `Count(t, fn, k)` is a closed form,
  by division, for the calls of `fn` among the first `k` of a test, and `CountStep`
  that it grows by one with each of them.  `AppCounts` is inductive: the entries of
  the process under test are these numbers, less the one its probe has still to
  store, and it is detected exactly if one of the calls examined so far is
  malicious (`Found`).  `FoundAll` says that for all calls of a test this is
  `Expected`: a multiple of the rate lies between two numbers if their quotients
  differ (`MultipleBetween`).

**`SyscallTracer_proofs`** (any number of tasks, runs and iterations, any capacity).
`TypeCorrect`, and:

* `EntriesAreOwned`: `Spec => []EntryOwners`, inductive with the types.
* `RefusalsAreJustified`: `Spec => RefusedOnlyWhenFull`, an action property: the map is
  the entries of calls in progress and the stale ones, and there are no more
  stale entries than tasks have ended (`StaleInv`).
* `RunsStartClean`: `Spec => []RunStartsClean`.  That no process is left when the
  program has ended takes the shape of the programs: they fork, then wait until no
  child is left, then do neither (`Forking`), or do neither from the start
  (`Leaf`), and a task with children is still at the first stage (`TasksInv`).
  And it takes the shape of the tree: each process is the program, a child of
  it, or a child of a child, and the last does not fork (`TreeInv`).

Only model-checked: liveness (`FloodResolved`, `HandlerReturns`, `InterruptEnds`,
`RunEnds`), because fairness means ENABLED, which the prover does not cover.  Every
other property of a passing run is a theorem.

Two facts about the prover shaped the proofs.  Theorems of the library that take
an operator as a parameter cannot be instantiated, so there is no induction over
numbers or sets by citing them: it is done over the steps of the system with a
closed form where one exists (`Count`), and by well-foundedness where none does
(`SubsetInduction`).  And no definition is recursive, since a module that declares
RECURSIVE loses the SMT backend.

## 7. State of the plan

Modelled and checked: every component of section 1 but those of section 8.  Proved:
every safety property and action property of a passing run, and both refinements.
What is left is outside the reach of these tools, as said above and below.

## 8. Not modelled

* `vmlinux.h` (150042 of the 150542 lines of C in `eBPF_Marine`) is generated from
  a kernel's type information and has no behaviour.  Of the 500 lines that have,
  the four programs and their `_vide` twins, all are modelled but includes,
  comments, logging and header parsing.
* The attack scripts and `setup_topology.sh` are straight-line calls of other
  programs.  `variation_debit.sh` and `merge_debit.sh` are sequential as well:
  they append to files, concatenate them and remove them, and the one thing that
  goes wrong (a second merge truncates the result of the first, whose inputs are
  gone) shows the first time it is done.
* The plotting scripts compute averages of files.  The scripts that consume the
  queue of the user-space detector take a sample (`Get`) and draw it; one takes
  the wrong element of the tuple (`graphe_latency.py` line 19), which no state
  shows.
* The simulators send random packets and print counters; `test_ressource_5.py`
  plots what `psutil` says.
* Within the modelled parts: `bpf_trace_printk`, console output, header parsing (a
  frame is a complete IPv4 packet or it is not), CSV layout, argument parsing, and
  the addresses `cpu_monitor.c` exports to a callback that ignores them.  The
  clocks only move forward: `time.time()` being set is left out.  The BPF objects
  `monitor_adv.py` never releases slow down the measurements that follow, which no
  state of the model can tell.
* The maps, rings, clocks, schedulers, signals and bcc are modelled from the way
  the code uses them and marked external.
