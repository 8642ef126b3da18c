----------------------------- MODULE SyscallSampler ----------------------------
(***************************************************************************)
(* eBPF_Sarah/monitor2.py: kprobes count the open, openat and clone calls  *)
(* of every process of the machine and examine one call in SAMPLING_RATE.  *)
(* For each rate the script runs test_app over and over, asks whether its  *)
(* process was detected, and clears the maps before the next run.  Other   *)
(* processes make calls at any time, also while the maps are cleared.      *)
(* Process ids come round again, though not within the next run: a run     *)
(* takes about 10000 of them, and there are at least 32768.                *)
(***************************************************************************)
EXTENDS Naturals, Sequences, FiniteSets

CONSTANTS
  Pids, NoPid,
  Tests,         \* the types of test that are run
  RATES,         \* the sampling rates, a sequence
  ITER,          \* iterations of a test
  StartupOpens,  \* files test_app opens before main, such as libraries
  MemOpens,      \* opens of /proc/self/mem in an iteration of suspicious_mem
  Forks,         \* forks in an iteration of fork_flood
  MaxRuns,       \* bound: runs at one rate
  MaxOthers,     \* bound: other processes seen in a run
  MaxCalls       \* bound: a count that an other process may reach

ASSUME SamplerAssumption ==
  /\ IsFiniteSet(Pids) /\ NoPid \notin Pids
  /\ RATES \in Seq(Nat \ {0}) /\ RATES # <<>>
  /\ ITER \in Nat /\ StartupOpens \in Nat /\ MemOpens \in Nat /\ Forks \in Nat
  /\ MaxRuns \in Nat /\ MaxOthers \in Nat /\ MaxCalls \in Nat
  /\ Tests \subseteq {"cpu", "file-read", "net", "suspicious-mem", "fork-flood",
                      "mixed", "benign-mixed", "malicious-mixed"}

VARIABLES
  counter,     \* counter[fn][pid]: the three counter maps, 0: no entry
  detections,  \* the processes whose entry is 1
  probe,       \* probe[pid]: the probe that runs in the process, if any
  phase,       \* where the script is in its loop
  r, run,      \* the current rate is RATES[r]; runs done at it
  test, app,   \* the current test and its process
  made,        \* calls the process has made so far
  detected,    \* what the script found
  others,      \* other processes alive
  recent, before  \* ids that were in use in this run, and in the one before

loop == <<phase, r, run, test, app>>
ids == <<others, recent, before>>
samplerVars == <<counter, detections, probe, loop, made, detected, ids>>

Functions == {"open", "openat", "clone"}
NoProbe == [at |-> "idle"]
Emptied == [fn \in Functions |-> [p \in Pids |-> 0]]
SAMPLING_RATE == RATES[r]

Init ==
  /\ counter = Emptied
  /\ detections = {}
  /\ probe = [p \in Pids |-> NoProbe]
  /\ phase = "launch" /\ r = 1 /\ run = 0
  /\ test = "none" /\ app = NoPid /\ made = 0
  /\ detected = FALSE
  /\ others = {} /\ recent = {} /\ before = {}

--------------------------------------------------------------------------------
(* The traced calls of test_app.  glibc's open is the openat system call,  *)
(* its fork is clone, and a child of fork_flood exits at once.             *)
Repeat(call, n) == [i \in 1 .. n |-> call]
Read == [fn |-> "openat", mem |-> FALSE]
Mem == [fn |-> "openat", mem |-> TRUE]
Fork == [fn |-> "clone", mem |-> FALSE]

Iteration(t) ==
  CASE t \in {"cpu", "net"} -> <<>>
    [] t \in {"file-read", "mixed"} -> <<Read>>
    [] t = "suspicious-mem" -> Repeat(Mem, MemOpens)
    [] t = "fork-flood" -> Repeat(Fork, Forks)
    [] t = "benign-mixed" -> <<Read>> \o Repeat(Fork, Forks)
    [] t = "malicious-mixed" -> Repeat(Mem, MemOpens) \o Repeat(Fork, Forks)

Calls(t) == StartupOpens + ITER * Len(Iteration(t))

Call(t, i) ==
  IF i <= StartupOpens THEN Read
  ELSE Iteration(t)[((i - StartupOpens - 1) % Len(Iteration(t))) + 1]

--------------------------------------------------------------------------------
(* A probe counts the call in two steps, a lookup and an update, and only  *)
(* then decides whether to examine the call.                               *)
Enter(p, call) ==
  /\ probe[p] = NoProbe
  /\ probe' = [probe EXCEPT ![p] =
                 [at |-> "store", fn |-> call.fn, mem |-> call.mem,
                  nc |-> counter[call.fn][p] + 1]]

Store(p) ==
  /\ probe[p].at = "store"
  /\ counter' = [counter EXCEPT ![probe[p].fn][p] = probe[p].nc]
  /\ probe' = [probe EXCEPT ![p].at = "examine"]
  /\ UNCHANGED <<detections, loop, made, detected, ids>>

(* Mutant: the fifth clone is one too many already.                        *)
MaliciousFromFive(q) == IF q.fn = "clone" THEN q.nc >= 5 ELSE q.mem

(* An open of /proc/self/mem, or a sixth and later clone.                  *)
Malicious(q) == IF q.fn = "clone" THEN q.nc > 5 ELSE q.mem

Examine(p) ==
  /\ probe[p].at = "examine"
  /\ detections' = IF probe[p].nc % SAMPLING_RATE = 0 /\ Malicious(probe[p])
                   THEN detections \cup {p} ELSE detections
  /\ probe' = [probe EXCEPT ![p] = NoProbe]
  /\ UNCHANGED <<counter, loop, made, detected, ids>>

AppCall ==
  /\ phase = "wait" /\ made < Calls(test)
  /\ Enter(app, Call(test, made + 1))
  /\ made' = made + 1
  /\ UNCHANGED <<counter, detections, loop, detected, ids>>

OtherCall(p) ==
  /\ p \in others
  /\ \E call \in [fn : Functions, mem : BOOLEAN] :
       counter[call.fn][p] < MaxCalls /\ Enter(p, call)
  /\ UNCHANGED <<counter, detections, loop, made, detected, ids>>

FreePids == Pids \ (others \cup recent \cup before)

OtherStarts(p) ==
  /\ p \in FreePids
  /\ Cardinality((others \cup recent) \ {app}) < MaxOthers
  /\ others' = others \cup {p}
  /\ UNCHANGED <<counter, detections, probe, loop, made, detected, recent, before>>

OtherExits(p) ==
  /\ p \in others /\ probe[p] = NoProbe
  /\ others' = others \ {p}
  /\ recent' = recent \cup {p}
  /\ UNCHANGED <<counter, detections, probe, loop, made, detected, before>>

--------------------------------------------------------------------------------
(* Popen                                                                   *)
Launch ==
  /\ phase = "launch" /\ run < MaxRuns
  /\ \E t \in Tests, p \in FreePids :
       /\ test' = t /\ app' = p
       /\ recent' = recent \cup {p}
  /\ made' = 0
  /\ phase' = "wait"
  /\ UNCHANGED <<counter, detections, probe, r, run, detected, others, before>>

(* Mutant: the script does not wait for the end of the process.            *)
WaitNot ==
  /\ phase = "wait"
  /\ phase' = "read"
  /\ UNCHANGED <<counter, detections, probe, r, run, test, app, made, detected, ids>>

(* p.wait()                                                                *)
Wait ==
  /\ phase = "wait" /\ made = Calls(test) /\ probe[app] = NoProbe
  /\ phase' = "read"
  /\ UNCHANGED <<counter, detections, probe, r, run, test, app, made, detected, ids>>

ReadDetections ==
  /\ phase = "read"
  /\ detected' = (app \in detections)
  /\ phase' = "open"
  /\ UNCHANGED <<counter, detections, probe, r, run, test, app, made, ids>>

(* clear() deletes the entries of a map one at a time until it finds none. *)
ClearCounter(fn) ==
  /\ phase = fn
  /\ \E p \in Pids :
       /\ counter[fn][p] # 0
       /\ counter' = [counter EXCEPT ![fn][p] = 0]
  /\ UNCHANGED <<detections, probe, loop, made, detected, ids>>

ClearDetection ==
  /\ phase = "detections"
  /\ \E p \in detections : detections' = detections \ {p}
  /\ UNCHANGED <<counter, probe, loop, made, detected, ids>>

(* Mutant: the counters of openat are not cleared.                         *)
NextMapSkipping(fn) ==
  /\ phase = fn
  /\ fn = "openat" \/ \A p \in Pids : counter[fn][p] = 0
  /\ phase' = CASE fn = "open" -> "openat" [] fn = "openat" -> "clone"
                [] fn = "clone" -> "detections"
  /\ UNCHANGED <<counter, detections, probe, r, run, test, app, made, detected, ids>>

NextMap(fn) ==
  /\ phase = fn
  /\ \A p \in Pids : counter[fn][p] = 0
  /\ phase' = CASE fn = "open" -> "openat" [] fn = "openat" -> "clone"
                [] fn = "clone" -> "detections"
  /\ UNCHANGED <<counter, detections, probe, r, run, test, app, made, detected, ids>>

(* raw.append, and the next turn of the loop                               *)
NextRun ==
  /\ phase = "detections" /\ detections = {}
  /\ phase' = "launch" /\ run' = run + 1
  /\ test' = "none" /\ app' = NoPid /\ made' = 0
  /\ before' = recent /\ recent' = {}
  /\ UNCHANGED <<counter, detections, probe, r, detected, others>>

(* The probes of this rate are detached; the next rate has maps of its own *)
(* and what a probe of this one still does is no longer seen.              *)
NextRate ==
  /\ phase = "launch" /\ run = MaxRuns /\ r < Len(RATES)
  /\ r' = r + 1 /\ run' = 0
  /\ counter' = Emptied /\ detections' = {}
  /\ probe' = [p \in Pids |-> NoProbe]
  /\ UNCHANGED <<phase, test, app, made, detected, ids>>

Over ==
  /\ phase = "launch" /\ run = MaxRuns /\ r = Len(RATES)
  /\ UNCHANGED samplerVars

Next ==
  \/ \E p \in Pids : Store(p) \/ Examine(p)
  \/ AppCall
  \/ \E p \in Pids : OtherCall(p) \/ OtherStarts(p) \/ OtherExits(p)
  \/ Launch \/ Wait \/ ReadDetections
  \/ \E fn \in Functions : ClearCounter(fn) \/ NextMap(fn)
  \/ ClearDetection \/ NextRun \/ NextRate \/ Over

Spec == Init /\ [][Next]_samplerVars
--------------------------------------------------------------------------------
Probes ==
  [at : {"idle"}]
    \cup [at : {"store", "examine"}, fn : Functions, mem : BOOLEAN, nc : Nat \ {0}]

(* Every variable holds values of its type, and a probe only runs in a     *)
(* process that is alive, so that no entry of the test's process changes   *)
(* after the script has waited for it.                                     *)
TypeOK ==
  /\ counter \in [Functions -> [Pids -> Nat]]
  /\ detections \subseteq Pids
  /\ probe \in [Pids -> Probes]
  /\ phase \in {"launch", "wait", "read", "detections"} \cup Functions
  /\ r \in 1 .. Len(RATES) /\ run \in 0 .. MaxRuns
  /\ test \in Tests \cup {"none"} /\ app \in Pids \cup {NoPid}
  /\ made \in Nat /\ detected \in BOOLEAN
  /\ others \subseteq Pids /\ recent \subseteq Pids /\ before \subseteq Pids
  /\ phase = "launch" <=> app = NoPid
  /\ \A p \in Pids : probe[p] # NoProbe =>
       p \in others \/ (p = app /\ phase = "wait")

(* A process under test starts without an entry in any map, although other *)
(* processes count and are detected while the maps are being cleared.      *)
StartsClean ==
  phase = "wait" /\ made = 0 =>
    /\ \A fn \in Functions : counter[fn][app] = 0
    /\ app \notin detections

(* How many calls of test t satisfy a condition.                           *)
Openings(t) ==
  IF t \in {"suspicious-mem", "malicious-mixed"} THEN ITER * MemOpens ELSE 0
Forkings(t) ==
  IF t \in {"fork-flood", "benign-mixed", "malicious-mixed"} THEN ITER * Forks ELSE 0

(* By arithmetic: a multiple of the rate falls on an open of               *)
(* /proc/self/mem, or on a clone beyond the fifth.                         *)
Expected(t, rate) ==
  \/ (StartupOpens + Openings(t)) \div rate > StartupOpens \div rate
  \/ (Forkings(t) \div rate) * rate > 5

(* What the script records depends on the test and the rate alone: not on  *)
(* the other processes, nor on the runs before.                            *)
DetectedAsExpected ==
  phase \in Functions \cup {"detections"} =>
    detected = Expected(test, SAMPLING_RATE)
================================================================================
