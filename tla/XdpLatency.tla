------------------------------ MODULE XdpLatency -------------------------------
(***************************************************************************)
(* eBPF_Marine/latency.c with its monitor latency.py, and latency_vide.c   *)
(* with latency_vide.py.  latency.c is the program of pps.c between two    *)
(* readings of the clock, whose difference goes into the CPU's own slots   *)
(* of latency_map: the sum of the latencies and the number of frames.      *)
(* The monitor starts and ends as pps.py does; each second it adds up all  *)
(* slots, clears them and writes a row.  latency_vide.c does what the      *)
(* program does with a frame that is not IPv4, to every frame.             *)
(***************************************************************************)
EXTENDS PpsMonitor

VARIABLES
  tail,         \* where each CPU is in the measuring block that ends the program
  start,        \* the program's local: clock at entry
  latency,      \* the program's local: what the frame took
  latency_map,  \* [Slots -> Nat]
  visit,        \* slots the current system calls have still to visit
  sum_read,     \* history: the part of total that comes from key 0
  measured,     \* history: frames each CPU has counted in key 1
  busy,         \* history: latencies each CPU has added to key 0
  missed        \* history: what was added to slots between read and clear

SUM == 0
COUNT == 1
Slots == {SUM, COUNT} \X CPUs

probe == <<tail, start, latency, latency_map, measured, busy, missed>>
sampling == <<visit, sum_read>>
latencyVars == <<allVars, probe, sampling>>

LatencyInit ==
  /\ MonitorInit
  /\ tail = [c \in CPUs |-> "none"]
  /\ start = [c \in CPUs |-> 0]
  /\ latency = [c \in CPUs |-> 0]
  /\ latency_map = [s \in Slots |-> 0]
  /\ visit = {}
  /\ sum_read = 0
  /\ measured = [c \in CPUs |-> 0]
  /\ busy = [c \in CPUs |-> 0]
  /\ missed = 0

--------------------------------------------------------------------------------
(* Frames reach the program while it is attached.                          *)
Stamp(c) ==
  /\ attached
  /\ tail[c] = "none"
  /\ start' = [start EXCEPT ![c] = clock]
  /\ UNCHANGED <<latency, latency_map, measured, busy, missed>>

EnterIPv4(c) == Stamp(c) /\ Receive(c) /\ UNCHANGED tail

(* goto end, or the whole of latency_vide.c up to its label.               *)
EnterOther(c) ==
  /\ Stamp(c)
  /\ CountOnly(c)
  /\ tail' = [tail EXCEPT ![c] = "end"]

(* Mutant: a drop returns instead of going to the label drop.              *)
FilterUnmeasuredDrop(c) ==
  /\ Run(c)
  /\ tail' = [tail EXCEPT ![c] =
                IF pc'[c] = "idle" /\ passed' # passed THEN "end" ELSE @]
  /\ UNCHANGED <<start, latency, latency_map, measured, busy, missed>>

(* The flood filter of pps.c; both verdicts lead to the measuring block.   *)
RunFilter(c) ==
  /\ Run(c)
  /\ tail' = [tail EXCEPT ![c] = IF pc'[c] = "idle" THEN "end" ELSE @]
  /\ UNCHANGED <<start, latency, latency_map, measured, busy, missed>>

(* Mutant: the clock is added, not the difference.                         *)
ReadEndAbsolute(c) ==
  /\ tail[c] = "end"
  /\ latency' = [latency EXCEPT ![c] = clock]
  /\ tail' = [tail EXCEPT ![c] = "sum"]
  /\ UNCHANGED <<vars, start, latency_map, measured, busy, missed>>

ReadEnd(c) ==
  /\ tail[c] = "end"
  /\ latency' = [latency EXCEPT ![c] = clock - start[c]]
  /\ tail' = [tail EXCEPT ![c] = "sum"]
  /\ UNCHANGED <<vars, start, latency_map, measured, busy, missed>>

(* Slots whose content is already in total and that are still to be zeroed. *)
StaleSlots ==
  CASE monitor = "read" -> Slots \ visit
    [] monitor = "del" -> visit
    [] OTHER -> {}

(* __sync_fetch_and_add on the CPU's own slot.                             *)
Add(slot, v) ==
  /\ latency_map' = [latency_map EXCEPT ![slot] = @ + v]
  /\ missed' = IF slot \in StaleSlots THEN missed + v ELSE missed
  /\ UNCHANGED vars

AddSum(c) ==
  /\ tail[c] = "sum"
  /\ Add(<<SUM, c>>, latency[c])
  /\ busy' = [busy EXCEPT ![c] = @ + latency[c]]
  /\ tail' = [tail EXCEPT ![c] = "count"]
  /\ UNCHANGED <<start, latency, measured>>

(* The frame is done: XDP_PASS or XDP_DROP, and the locals are gone.       *)
AddCount(c) ==
  /\ tail[c] = "count"
  /\ Add(<<COUNT, c>>, 1)
  /\ measured' = [measured EXCEPT ![c] = @ + 1]
  /\ tail' = [tail EXCEPT ![c] = "none"]
  /\ start' = [start EXCEPT ![c] = 0]
  /\ latency' = [latency EXCEPT ![c] = 0]
  /\ UNCHANGED busy

Measure(c) == ReadEnd(c) \/ AddSum(c) \/ AddCount(c)

ProbeStep ==
  /\ \/ \E c \in CPUs : EnterIPv4(c) \/ EnterOther(c) \/ RunFilter(c) \/ Measure(c)
     \/ Tick /\ UNCHANGED probe
     \/ \E p \in Ports : loaded /\ BlockPort(p) /\ UNCHANGED probe
  /\ UNCHANGED <<monitorVars, sampling>>

--------------------------------------------------------------------------------
(* The first five maps of clear_maps, and what comes before it.            *)
StartUp ==
  /\ Load \/ AttachXdp \/ ClearEntry \/ NextMap
  /\ UNCHANGED <<probe, sampling>>

ClearPpsMap ==
  /\ monitor = "clear_pps"
  /\ \/ \E c \in CPUs : Zero(c) /\ UNCHANGED <<monitor, discarded, visit>>
     \/ /\ scan = {}
        /\ monitor' = "clear_latency"
        /\ visit' = Slots
        /\ UNCHANGED <<vars, files, reading>>
  /\ UNCHANGED <<probe, sum_read>>

(* A system call visits the CPUs of key 0, the next one those of key 1.    *)
Visit(s) ==
  /\ s \in visit
  /\ s[1] = COUNT => {SUM} \X CPUs \cap visit = {}
  /\ visit' = visit \ {s}

(* Each second.                                                            *)
WakeUp ==
  /\ Wake
  /\ visit' = Slots
  /\ UNCHANGED <<probe, sum_read>>

ReadItems ==
  /\ monitor = "read"
  /\ \/ \E s \in Slots :
          /\ Visit(s)
          /\ total' = total + latency_map[s]
          /\ sum_read' = IF s[1] = SUM THEN sum_read + latency_map[s]
                                       ELSE sum_read
          /\ UNCHANGED monitor
     \/ /\ visit = {}
        /\ monitor' = "del"
        /\ visit' = Slots
        /\ UNCHANGED <<total, sum_read>>
  /\ UNCHANGED <<vars, files, scan, reported, discarded, history, probe>>

(* Mutant: the counts are left where they are.                             *)
ClearSums ==
  /\ monitor \in {"clear_latency", "del"}
  /\ latency_map' = [s \in Slots |-> IF s[1] = SUM THEN 0 ELSE latency_map[s]]
  /\ visit' = {}
  /\ monitor' = IF monitor = "del" THEN "row" ELSE "sleep"
  /\ UNCHANGED <<vars, files, reading, sum_read, tail, start, latency,
                 measured, busy, missed>>

(* latency_map.clear(): once at the end of clear_maps, then in the loop.   *)
ClearLatency ==
  /\ monitor \in {"clear_latency", "del"}
  /\ \/ \E s \in Slots :
          /\ Visit(s)
          /\ latency_map' = [latency_map EXCEPT ![s] = 0]
          /\ discarded' = IF monitor = "del" THEN discarded
                                             ELSE discarded + latency_map[s]
          /\ UNCHANGED monitor
     \/ /\ visit = {}
        /\ monitor' = IF monitor = "del" THEN "row" ELSE "sleep"
        /\ UNCHANGED <<latency_map, visit, discarded>>
  /\ UNCHANGED <<vars, files, scan, total, reported, history, sum_read,
                 tail, start, latency, measured, busy, missed>>

(* The row: total divided by the number of slots read.                     *)
Write ==
  /\ WriteRow
  /\ sum_read' = 0
  /\ UNCHANGED <<probe, visit>>

CleanUp == (Interrupt \/ Detach \/ CloseAndExit) /\ UNCHANGED <<probe, sampling>>

Ended ==
  /\ Over
  /\ \A c \in CPUs : tail[c] = "none"
  /\ UNCHANGED <<probe, sampling>>

LatencyNext ==
  \/ ProbeStep
  \/ StartUp \/ ClearPpsMap \/ WakeUp \/ ReadItems \/ ClearLatency \/ Write
  \/ CleanUp \/ Ended

LatencySpec == LatencyInit /\ [][LatencyNext]_latencyVars
--------------------------------------------------------------------------------
(* Every variable of the probe holds a value of its type, and a CPU is in  *)
(* the filter or in the measuring block, never in both.                    *)
LatencyTypeOK ==
  /\ TypeOK
  /\ monitor \in {ClearPhases[i] : i \in 1 .. 6} \cup Loop
                   \cup {"load", "attach", "clear_latency", "cleanup", "close",
                         "exited"}
  /\ visit \subseteq Slots
  /\ latency_map \in [Slots -> Nat]
  /\ start \in [CPUs -> Nat] /\ latency \in [CPUs -> Nat]
  /\ sum_read \in 0 .. total
  /\ tail \in [CPUs -> {"none", "end", "sum", "count"}]
  /\ \A c \in CPUs : tail[c] # "none" => pc[c] = "idle"

InFlight == {c \in CPUs : pc[c] # "idle" \/ tail[c] # "none"}

(* Every frame, passed or dropped, is measured once: the frames received   *)
(* are those counted in key 1 and those still inside the program.          *)
EveryFrameMeasured ==
  SumFunction(received) = SumFunction(measured) + Cardinality(InFlight)

(* A CPU handles one frame at a time, so what it adds to key 0 with what   *)
(* the frame it holds has taken so far never exceeds the time gone by.     *)
BusyWithinTime ==
  \A c \in CPUs :
    busy[c] + (IF c \in InFlight /\ tail[c] # "count" THEN clock - start[c] ELSE 0)
      <= clock - 1

(* What the rows, the reading in progress and the slots not read yet hold  *)
(* is all that was ever added, less what clear_maps threw away and what    *)
(* was added between the read and the clear of a slot: nothing else is     *)
(* lost and nothing is reported twice.                                     *)
LatencyAccounted ==
  monitor \in Loop =>
    reported + discarded + missed + total
      + SumFunctionOnSet(latency_map, Slots \ StaleSlots)
    = SumFunction(busy) + SumFunction(measured)

(* The row is the mean latency of the frames read (latency.c line 17: key  *)
(* 0 is the sum of the latencies, key 1 the counter; latency.py line 69:   *)
(* average latency): sum / frames, where the code writes total / slots.    *)
RowIsMean ==
  LET frames == total - sum_read
  IN  monitor = "row" /\ frames > 0 /\ sum_read > 0 =>
        total * frames = sum_read * Cardinality(Slots)
================================================================================
