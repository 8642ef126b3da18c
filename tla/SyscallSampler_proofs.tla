------------------------- MODULE SyscallSampler_proofs -------------------------
(***************************************************************************)
(* Proofs about the sampled detector.  That a process under test starts    *)
(* without entries is not inductive: other processes count while the maps  *)
(* are being cleared, so what holds at each moment is that an entry is of  *)
(* a process that is alive or was seen in this run or the one before, and  *)
(* that a map the script has already cleared holds none of the latter.     *)
(* From there on the entries of the process under test say how many calls  *)
(* it has made, and what the script records depends on the test and the    *)
(* rate alone, for any number of iterations, any rate and any number of    *)
(* other processes.                                                        *)
(***************************************************************************)
EXTENDS SyscallSampler, TLAPS

Cleared(fn) ==
  \/ fn = "open" /\ phase \in {"openat", "clone", "detections"}
  \/ fn = "openat" /\ phase \in {"clone", "detections"}
  \/ fn = "clone" /\ phase = "detections"

(* Between a launch and the next, a test is in progress and its run is not *)
(* counted yet.                                                            *)
TestRuns == phase # "launch" => test \in Tests /\ run < MaxRuns

(* The process under test keeps its id to itself until the next run, and   *)
(* has no probe running before its first call.                             *)
AppIsOwn ==
  /\ app # NoPid => app \in recent /\ app \notin others
  /\ phase = "wait" /\ made = 0 => probe[app] = NoProbe

EntriesAreSeen ==
  /\ \A fn \in Functions, q \in Pids :
       counter[fn][q] # 0 =>
         q \in others \cup recent \/ (q \in before /\ ~Cleared(fn))
  /\ detections \subseteq others \cup recent \cup before

Entries == AppIsOwn /\ EntriesAreSeen

SamplerInv == TypeOK /\ TestRuns /\ Entries /\ StartsClean

--------------------------------------------------------------------------------
CallType == [fn : Functions, mem : BOOLEAN]

(* n times the same call is a sequence of n calls.                         *)
LEMMA RepeatType ==
  ASSUME NEW call \in CallType, NEW n \in Nat
  PROVE  Repeat(call, n) \in Seq(CallType) /\ Len(Repeat(call, n)) = n
BY DEF Repeat

LEMMA CallRecords == Read \in CallType /\ Mem \in CallType /\ Fork \in CallType
BY DEF Read, Mem, Fork, CallType, Functions

(* An iteration of a test is a sequence of traced calls.                   *)
LEMMA IterationType ==
  ASSUME NEW t \in Tests
  PROVE  Iteration(t) \in Seq(CallType)
<1>1. Repeat(Mem, MemOpens) \in Seq(CallType) /\ Repeat(Fork, Forks) \in Seq(CallType)
  BY CallRecords, RepeatType, SamplerAssumption
<1>2. <<Read>> \in Seq(CallType) /\ <<>> \in Seq(CallType)
  BY CallRecords
<1>3. /\ <<Read>> \o Repeat(Fork, Forks) \in Seq(CallType)
      /\ Repeat(Mem, MemOpens) \o Repeat(Fork, Forks) \in Seq(CallType)
  BY <1>1, <1>2
<1>4. t \in {"cpu", "file-read", "net", "suspicious-mem", "fork-flood",
             "mixed", "benign-mixed", "malicious-mixed"}
  BY SamplerAssumption
<1> QED
  BY <1>1, <1>2, <1>3, <1>4 DEF Iteration

(* The position in its iteration of a call that comes after i others.      *)
LEMMA WithinIteration ==
  ASSUME NEW i \in Nat, NEW len \in Nat \ {0}
  PROVE  (i % len) + 1 \in 1 .. len
OBVIOUS

(* Each call that a test makes is a traced call.                           *)
LEMMA TracedCalls ==
  ASSUME NEW t \in Tests, NEW i \in Nat \ {0}, i <= Calls(t)
  PROVE  Call(t, i) \in CallType
<1> DEFINE len == Len(Iteration(t))
           k == ((i - StartupOpens - 1) % len) + 1
<1>1. Iteration(t) \in Seq(CallType) /\ len \in Nat
  BY IterationType
<1>2. ITER \in Nat /\ StartupOpens \in Nat
  BY SamplerAssumption
<1>3. CASE i <= StartupOpens
  BY <1>3, CallRecords DEF Call
<1>4. CASE ~(i <= StartupOpens)
  <2>1. i - StartupOpens - 1 \in Nat /\ StartupOpens < i
    BY <1>2, <1>4
  <2>2. len # 0
    <3> SUFFICES ASSUME len = 0 PROVE FALSE
      OBVIOUS
    <3>1. ITER * len = 0
      BY <1>2
    <3> QED
      BY <2>1, <3>1, <1>2 DEF Calls
  <2>3. k \in 1 .. len
    BY <2>1, <2>2, <1>1, WithinIteration
  <2>4. Iteration(t)[k] \in CallType
    BY <1>1, <2>3
  <2>5. Call(t, i) = Iteration(t)[k]
    BY <1>4, Zenon DEF Call
  <2> QED
    BY <2>4, <2>5
<1> QED
  BY <1>2, <1>3, <1>4

(* A probe that runs knows what it counts.                                 *)
LEMMA Running ==
  ASSUME NEW q \in Probes, q.at \in {"store", "examine"}
  PROVE  /\ q \in [at : {"store", "examine"}, fn : Functions, mem : BOOLEAN, nc : Nat \ {0}]
         /\ q # NoProbe
BY DEF Probes, NoProbe

LEMMA NoProbeType == NoProbe \in Probes
BY DEF Probes, NoProbe

LEMMA EnteredType ==
  ASSUME NEW fn \in Functions, NEW mem \in BOOLEAN, NEW nc \in Nat \ {0}
  PROVE  /\ [at |-> "store", fn |-> fn, mem |-> mem, nc |-> nc] \in Probes
         /\ [at |-> "store", fn |-> fn, mem |-> mem, nc |-> nc] # NoProbe
BY DEF Probes, NoProbe

--------------------------------------------------------------------------------
LEMMA SamplerInit == Init => SamplerInv
<1> SUFFICES ASSUME Init PROVE SamplerInv
  OBVIOUS
<1> USE SamplerAssumption DEF Init
<1>1. TypeOK
  <2>1. Emptied \in [Functions -> [Pids -> Nat]]
    BY DEF Emptied
  <2>2. r \in 1 .. Len(RATES) /\ run \in 0 .. MaxRuns
    BY DEF Functions
  <2>3. probe \in [Pids -> Probes] /\ \A q \in Pids : probe[q] = NoProbe
    BY NoProbeType
  <2> QED
    BY <2>1, <2>2, <2>3 DEF TypeOK
<1>2. TestRuns /\ StartsClean
  BY DEF TestRuns, StartsClean
<1>3. AppIsOwn
  BY DEF AppIsOwn
<1>4. EntriesAreSeen
  BY DEF EntriesAreSeen, Emptied
<1> QED
  BY <1>1, <1>2, <1>3, <1>4 DEF SamplerInv, Entries

--------------------------------------------------------------------------------
(* Types, and that probes only run in living processes.                    *)
LEMMA TypeStep == TypeOK /\ TestRuns /\ Next => TypeOK' /\ TestRuns'
<1> SUFFICES ASSUME TypeOK, TestRuns, Next PROVE TypeOK' /\ TestRuns'
  OBVIOUS
<1> USE SamplerAssumption
<1>1. ASSUME NEW q \in Pids, Store(q) PROVE TypeOK' /\ TestRuns'
  <2>1. /\ probe[q].fn \in Functions /\ probe[q].nc \in Nat \ {0}
        /\ probe[q] # NoProbe
        /\ [probe[q] EXCEPT !.at = "examine"] \in Probes
    <3>1. probe[q] \in Probes /\ probe[q].at = "store"
      BY <1>1 DEF TypeOK, Store
    <3>2. probe[q] \in [at : {"store", "examine"}, fn : Functions, mem : BOOLEAN, nc : Nat \ {0}]
      BY <3>1, Running
    <3>3. [probe[q] EXCEPT !.at = "examine"] \in
             [at : {"store", "examine"}, fn : Functions, mem : BOOLEAN, nc : Nat \ {0}]
      BY <3>2
    <3> QED
      BY <3>1, <3>2, <3>3, Running DEF Probes
  <2>2. counter' \in [Functions -> [Pids -> Nat]]
    BY <1>1, <2>1 DEF TypeOK, Store
  <2>3. probe' \in [Pids -> Probes]
    BY <1>1, <2>1 DEF TypeOK, Store
  <2>4. \A x \in Pids : probe'[x] # NoProbe => probe[x] # NoProbe
    BY <1>1, <2>1 DEF TypeOK, Store
  <2> QED
    BY <1>1, <2>2, <2>3, <2>4 DEF TypeOK, TestRuns, Store, loop, ids
<1>2. ASSUME NEW q \in Pids, Examine(q) PROVE TypeOK' /\ TestRuns'
  BY <1>2, NoProbeType DEF TypeOK, TestRuns, Examine, loop, ids
<1>3. ASSUME AppCall PROVE TypeOK' /\ TestRuns'
  <2>1. Call(test, made + 1) \in CallType
    <3>1. test \in Tests /\ made \in Nat /\ made < Calls(test)
      BY <1>3 DEF AppCall, TypeOK, TestRuns
    <3>2. made + 1 <= Calls(test)
      <4>1. Len(Iteration(test)) \in Nat
        BY <3>1, IterationType
      <4>2. ITER * Len(Iteration(test)) \in Nat
        BY <4>1
      <4> HIDE DEF Iteration
      <4> QED
        BY <3>1, <4>2 DEF Calls
    <3> QED
      BY <3>1, <3>2, TracedCalls
  <2>2. app \in Pids
    BY <1>3 DEF AppCall, TypeOK
  <2> DEFINE call == Call(test, made + 1)
             e == [at |-> "store", fn |-> call.fn, mem |-> call.mem,
                   nc |-> counter[call.fn][app] + 1]
  <2>3. e \in Probes
    <3>1. call.fn \in Functions /\ call.mem \in BOOLEAN
      BY <2>1 DEF CallType
    <3>2. counter[call.fn][app] + 1 \in Nat \ {0}
      BY <2>2, <3>1 DEF TypeOK
    <3> QED
      BY <3>1, <3>2, EnteredType
  <2>4. probe' = [probe EXCEPT ![app] = e]
    BY <1>3 DEF AppCall, Enter
  <2> HIDE DEF e
  <2>5. probe' \in [Pids -> Probes] /\ \A x \in Pids : x # app => probe'[x] = probe[x]
    BY <2>3, <2>4 DEF TypeOK
  <2> QED
    BY <1>3, <2>5 DEF TypeOK, TestRuns, AppCall, loop, ids
<1>4. ASSUME NEW q \in Pids, OtherCall(q) PROVE TypeOK' /\ TestRuns'
  <2>1. PICK call \in CallType : Enter(q, call)
    BY <1>4 DEF OtherCall, CallType
  <2> DEFINE e == [at |-> "store", fn |-> call.fn, mem |-> call.mem,
                   nc |-> counter[call.fn][q] + 1]
  <2>2. e \in Probes
    <3>1. call.fn \in Functions /\ call.mem \in BOOLEAN
      BY DEF CallType
    <3>2. counter[call.fn][q] + 1 \in Nat \ {0}
      BY <3>1 DEF TypeOK
    <3> QED
      BY <3>1, <3>2, EnteredType
  <2>3. probe' = [probe EXCEPT ![q] = e]
    BY <2>1 DEF Enter
  <2> HIDE DEF e
  <2>4. probe' \in [Pids -> Probes] /\ \A x \in Pids : x # q => probe'[x] = probe[x]
    BY <2>2, <2>3 DEF TypeOK
  <2> QED
    BY <1>4, <2>4 DEF TypeOK, TestRuns, OtherCall, loop, ids
<1>5. ASSUME NEW q \in Pids, OtherStarts(q) \/ OtherExits(q)
      PROVE  TypeOK' /\ TestRuns'
  BY <1>5 DEF TypeOK, TestRuns, OtherStarts, OtherExits, FreePids, loop
<1>6. ASSUME Launch PROVE TypeOK' /\ TestRuns'
  <2>1. PICK t \in Tests, q \in FreePids :
          test' = t /\ app' = q /\ recent' = recent \cup {q}
    BY <1>6 DEF Launch
  <2>2. q \in Pids /\ app' # NoPid
    BY <2>1 DEF FreePids
  <2>3. \A x \in Pids : probe'[x] # NoProbe => x \in others'
    BY <1>6 DEF Launch, TypeOK
  <2> QED
    BY <1>6, <2>1, <2>2, <2>3 DEF TypeOK, TestRuns, Launch
<1>7. ASSUME Wait \/ ReadDetections PROVE TypeOK' /\ TestRuns'
  <2>1. CASE Wait
    BY <2>1 DEF TypeOK, TestRuns, Wait, ids
  <2>2. CASE ReadDetections
    <3>1. detected' \in BOOLEAN
      BY <2>2 DEF ReadDetections
    <3> QED
      BY <2>2, <3>1 DEF TypeOK, TestRuns, ReadDetections, ids, Functions
  <2> QED
    BY <1>7, <2>1, <2>2
<1>8. ASSUME NEW fn \in Functions, ClearCounter(fn) PROVE TypeOK' /\ TestRuns'
  BY <1>8 DEF TypeOK, TestRuns, ClearCounter, loop, ids
<1>9. ASSUME NEW fn \in Functions, NextMap(fn) PROVE TypeOK' /\ TestRuns'
  BY <1>9 DEF TypeOK, TestRuns, NextMap, ids, Functions
<1>10. ASSUME ClearDetection PROVE TypeOK' /\ TestRuns'
  BY <1>10 DEF TypeOK, TestRuns, ClearDetection, loop, ids
<1>11. ASSUME NextRun PROVE TypeOK' /\ TestRuns'
  <2>1. \A x \in Pids : probe'[x] # NoProbe => x \in others'
    BY <1>11 DEF NextRun, TypeOK
  <2>2. run' \in 0 .. MaxRuns
    BY <1>11 DEF NextRun, TypeOK, TestRuns
  <2>3. /\ counter' = counter /\ probe' = probe /\ r' = r /\ others' = others
        /\ detections' = detections /\ detected' = detected
        /\ phase' = "launch" /\ app' = NoPid /\ test' = "none" /\ made' = 0
        /\ before' = recent /\ recent' = {}
    BY <1>11 DEF NextRun
  <2> QED
    BY <2>1, <2>2, <2>3 DEF TypeOK, TestRuns
<1>12. ASSUME NextRate PROVE TypeOK' /\ TestRuns'
  <2>1. Emptied \in [Functions -> [Pids -> Nat]]
    BY DEF Emptied
  <2>2. probe' \in [Pids -> Probes] /\ \A q \in Pids : probe'[q] = NoProbe
    BY <1>12, NoProbeType DEF NextRate
  <2>3. r' \in 1 .. Len(RATES)
    BY <1>12 DEF NextRate, TypeOK
  <2> QED
    BY <1>12, <2>1, <2>2, <2>3 DEF TypeOK, TestRuns, NextRate, ids
<1>13. ASSUME Over PROVE TypeOK' /\ TestRuns'
  BY <1>13 DEF TypeOK, TestRuns, Over, samplerVars, loop, ids
<1> QED
  BY <1>1, <1>2, <1>3, <1>4, <1>5, <1>6, <1>7, <1>8, <1>9, <1>10, <1>11, <1>12, <1>13
  DEF Next

--------------------------------------------------------------------------------
(* Every entry stays one of a process that was seen, and a new one is one  *)
(* of a process that is alive or under test.                               *)
LEMMA EntriesStep == TypeOK /\ Entries /\ Next => Entries'
<1> SUFFICES ASSUME TypeOK, AppIsOwn, EntriesAreSeen, Next PROVE Entries'
  BY DEF Entries
<1> USE SamplerAssumption
<1>1. ASSUME NEW q \in Pids, Store(q) PROVE Entries'
  <2>1. /\ probe[q].fn \in Functions /\ probe[q] # NoProbe
        /\ [probe[q] EXCEPT !.at = "examine"] # NoProbe
    <3>1. probe[q] \in Probes /\ probe[q].at = "store"
      BY <1>1 DEF TypeOK, Store
    <3>2. /\ probe[q] \in [at : {"store", "examine"}, fn : Functions, mem : BOOLEAN, nc : Nat \ {0}]
          /\ probe[q] # NoProbe
      BY <3>1, Running
    <3>3. [probe[q] EXCEPT !.at = "examine"] # NoProbe
      BY <3>2 DEF NoProbe
    <3> QED
      BY <3>2, <3>3
  <2>2. q \in others \cup recent
    BY <2>1 DEF TypeOK, AppIsOwn
  <2>3. /\ \A fn \in Functions, x \in Pids : counter'[fn][x] # 0 =>
              counter[fn][x] # 0 \/ x \in others \cup recent
        /\ \A x \in Pids : x # q => probe'[x] = probe[x]
    BY <1>1, <2>1, <2>2 DEF TypeOK, Store
  <2>4. EntriesAreSeen'
    BY <1>1, <2>3 DEF EntriesAreSeen, Cleared, Store, loop, ids
  <2>5. AppIsOwn'
    BY <1>1, <2>1, <2>3 DEF AppIsOwn, TypeOK, Store, loop, ids
  <2> QED
    BY <2>4, <2>5 DEF Entries
<1>2. ASSUME NEW q \in Pids, Examine(q) PROVE Entries'
  <2>1. probe[q] # NoProbe
    BY <1>2 DEF Examine, NoProbe
  <2>2. q \in others \cup recent
    BY <2>1 DEF TypeOK, AppIsOwn
  <2>3. EntriesAreSeen'
    BY <1>2, <2>2 DEF EntriesAreSeen, Cleared, Examine, loop, ids
  <2>4. AppIsOwn'
    BY <1>2, <2>1 DEF AppIsOwn, TypeOK, Examine, loop, ids
  <2> QED
    BY <2>3, <2>4 DEF Entries
<1>3. ASSUME AppCall PROVE Entries'
  <2>1. made' # 0
    BY <1>3 DEF AppCall, TypeOK
  <2> QED
    BY <1>3, <2>1 DEF Entries, AppIsOwn, EntriesAreSeen, Cleared, AppCall, loop, ids
<1>4. ASSUME NEW q \in Pids, OtherCall(q) PROVE Entries'
  <2>1. \A x \in Pids : x # q => probe'[x] = probe[x]
    BY <1>4 DEF OtherCall, Enter, TypeOK
  <2>2. q # app
    BY <1>4 DEF OtherCall, AppIsOwn, TypeOK
  <2> QED
    BY <1>4, <2>1, <2>2
    DEF Entries, AppIsOwn, EntriesAreSeen, Cleared, OtherCall, TypeOK, loop, ids
<1>5. ASSUME NEW q \in Pids, OtherStarts(q) \/ OtherExits(q) PROVE Entries'
  BY <1>5 DEF Entries, AppIsOwn, EntriesAreSeen, Cleared, OtherStarts, OtherExits,
              FreePids, TypeOK, loop
<1>6. ASSUME Launch PROVE Entries'
  <2>1. PICK t \in Tests, q \in FreePids :
          test' = t /\ app' = q /\ recent' = recent \cup {q}
    BY <1>6 DEF Launch
  <2>2. q \in Pids /\ q \notin others
    BY <2>1 DEF FreePids
  <2>3. probe[q] = NoProbe
    BY <1>6, <2>2 DEF Launch, TypeOK
  <2>4. AppIsOwn'
    BY <1>6, <2>1, <2>2, <2>3 DEF AppIsOwn, Launch
  <2>5. EntriesAreSeen'
    BY <1>6, <2>1 DEF EntriesAreSeen, Cleared, Launch, Functions
  <2> QED
    BY <2>4, <2>5 DEF Entries
<1>7. ASSUME Wait \/ ReadDetections PROVE Entries'
  BY <1>7 DEF Entries, AppIsOwn, EntriesAreSeen, Cleared, Wait, ReadDetections, ids
<1>8. ASSUME NEW fn \in Functions, ClearCounter(fn) PROVE Entries'
  <2>1. \A f \in Functions, x \in Pids : counter'[f][x] # 0 => counter[f][x] # 0
    BY <1>8 DEF ClearCounter, TypeOK
  <2> QED
    BY <1>8, <2>1 DEF Entries, AppIsOwn, EntriesAreSeen, Cleared, ClearCounter, loop, ids
<1>9. ASSUME NEW fn \in Functions, NextMap(fn) PROVE Entries'
  BY <1>9 DEF Entries, AppIsOwn, EntriesAreSeen, Cleared, NextMap, ids, Functions
<1>10. ASSUME ClearDetection PROVE Entries'
  BY <1>10 DEF Entries, AppIsOwn, EntriesAreSeen, Cleared, ClearDetection, loop, ids
<1>11. ASSUME NextRun PROVE Entries'
  BY <1>11 DEF Entries, AppIsOwn, EntriesAreSeen, Cleared, NextRun, Functions
<1>12. ASSUME NextRate PROVE Entries'
  BY <1>12 DEF Entries, AppIsOwn, EntriesAreSeen, NextRate, Emptied, TypeOK, ids
<1>13. ASSUME Over PROVE Entries'
  BY <1>13 DEF Entries, AppIsOwn, EntriesAreSeen, Cleared, Over, samplerVars, loop, ids
<1> QED
  BY <1>1, <1>2, <1>3, <1>4, <1>5, <1>6, <1>7, <1>8, <1>9, <1>10, <1>11, <1>12, <1>13
  DEF Next

(* A launch picks an id without entries, and the process has no entry      *)
(* before it makes its first call.                                         *)
LEMMA CleanStep == TypeOK /\ Entries /\ StartsClean /\ Next => StartsClean'
<1> SUFFICES ASSUME TypeOK, AppIsOwn, EntriesAreSeen, StartsClean, Next,
                    (phase = "wait" /\ made = 0)'
             PROVE  /\ \A fn \in Functions : counter'[fn][app'] = 0
                    /\ app' \notin detections'
  BY DEF Entries, StartsClean
<1>1. CASE Launch
  <2>1. PICK q \in FreePids : app' = q
    BY <1>1 DEF Launch
  <2>2. q \in Pids /\ q \notin others \cup recent \cup before
    BY <2>1 DEF FreePids
  <2> QED
    BY <1>1, <2>1, <2>2 DEF EntriesAreSeen, Launch
<1>2. CASE \E q \in Pids : Store(q) \/ Examine(q)
  <2>1. PICK q \in Pids : Store(q) \/ Examine(q)
    BY <1>2
  <2>2. probe[q] # NoProbe
    BY <2>1 DEF Store, Examine, NoProbe
  <2>3. phase = "wait" /\ made = 0 /\ app' = app
    BY <2>1 DEF Store, Examine, loop
  <2>4. q # app
    BY <2>2, <2>3 DEF AppIsOwn
  <2>5. app \in Pids
    BY <2>3, SamplerAssumption DEF TypeOK
  <2>6. CASE Store(q)
    BY <2>6, <2>3, <2>4, <2>5 DEF StartsClean, Store, TypeOK
  <2>7. CASE Examine(q)
    BY <2>7, <2>3, <2>4 DEF StartsClean, Examine
  <2> QED
    BY <2>1, <2>6, <2>7
<1>3. CASE AppCall
  BY <1>3 DEF AppCall, TypeOK
<1>4. CASE \E q \in Pids : OtherCall(q) \/ OtherStarts(q) \/ OtherExits(q)
  BY <1>4 DEF StartsClean, OtherCall, OtherStarts, OtherExits, loop
<1>5. CASE Wait \/ ReadDetections \/ NextRun \/ ClearDetection \/ NextRate
  BY <1>5 DEF Wait, ReadDetections, NextRun, ClearDetection, NextRate, loop
<1>6. CASE \E fn \in Functions : ClearCounter(fn) \/ NextMap(fn)
  BY <1>6 DEF ClearCounter, NextMap, Functions, loop
<1>7. CASE Over
  BY <1>7 DEF Over, samplerVars, loop
<1> QED
  BY <1>1, <1>2, <1>3, <1>4, <1>5, <1>6, <1>7 DEF Next

--------------------------------------------------------------------------------
LEMMA SamplerStutter == UNCHANGED samplerVars /\ SamplerInv => SamplerInv'
BY DEF SamplerInv, TypeOK, TestRuns, Entries, AppIsOwn, EntriesAreSeen, Cleared, StartsClean,
       samplerVars, loop, ids

LEMMA SamplerInvariant == Spec => []SamplerInv
<1>1. SamplerInv /\ [Next]_samplerVars => SamplerInv'
  <2>1. SamplerInv /\ Next => SamplerInv'
    BY TypeStep, EntriesStep, CleanStep DEF SamplerInv
  <2> QED
    BY <2>1, SamplerStutter
<1> QED
  BY <1>1, SamplerInit, PTL DEF Spec

(* Every variable of the sampled detector holds values of its type, and a  *)
(* probe only runs in a process that is alive.                             *)
THEOREM TypeCorrect == Spec => []TypeOK
BY SamplerInvariant, PTL DEF SamplerInv

(* A process under test starts without an entry in any map: clear() leaves *)
(* only entries of processes whose ids are not given out before the next   *)
(* clear().                                                                *)
THEOREM TestsStartClean == Spec => []StartsClean
BY SamplerInvariant, PTL DEF SamplerInv
--------------------------------------------------------------------------------
(* An iteration of a test makes its openat calls first, all of the same    *)
(* kind, and its clone calls after them.                                   *)
Opens(t) ==
  CASE t \in {"file-read", "mixed", "benign-mixed"} -> 1
    [] t \in {"suspicious-mem", "malicious-mixed"} -> MemOpens
    [] OTHER -> 0
Clones(t) == IF t \in {"fork-flood", "benign-mixed", "malicious-mixed"} THEN Forks ELSE 0
OpensMem(t) == t \in {"suspicious-mem", "malicious-mixed"}
OpenCall(t) == IF OpensMem(t) THEN Mem ELSE Read

(* How many of the first k calls of a test are calls of fn: those before   *)
(* main, those of the iterations that are complete, and those of the one   *)
(* in progress.                                                            *)
Count(t, fn, k) ==
  IF k <= StartupOpens
  THEN IF fn = "openat" THEN k ELSE 0
  ELSE LET len == Len(Iteration(t))
           q == (k - StartupOpens) \div len
           s == (k - StartupOpens) % len
       IN  CASE fn = "openat" -> StartupOpens + q * Opens(t)
                                   + (IF s <= Opens(t) THEN s ELSE Opens(t))
             [] fn = "clone" -> q * Clones(t) + (IF s <= Opens(t) THEN 0 ELSE s - Opens(t))
             [] OTHER -> 0

(* One of the first k calls of a test is examined and found malicious: a   *)
(* multiple of the rate falls on an openat after those before main, if the *)
(* test opens /proc/self/mem, or on a clone beyond the fifth.              *)
Found(t, rate, k) ==
  \/ OpensMem(t) /\ \E n \in (StartupOpens + 1) .. Count(t, "openat", k) : n % rate = 0
  \/ \E n \in 6 .. Count(t, "clone", k) : n % rate = 0

(* Division by the length of an iteration: which turn, and where in it.    *)
LEMMA DivMod ==
  ASSUME NEW a \in Nat, NEW len \in Nat \ {0}
  PROVE  /\ a \div len \in Nat /\ a % len \in 0 .. (len - 1)
         /\ a = len * (a \div len) + (a % len)
OBVIOUS

LEMMA DivUnique ==
  ASSUME NEW q \in Nat, NEW len \in Nat \ {0}, NEW s \in 0 .. (len - 1)
  PROVE  (len * q + s) \div len = q /\ (len * q + s) % len = s
OBVIOUS

(* Counting on by one: to the next place, or to the first of the next turn. *)
LEMMA DivNext ==
  ASSUME NEW a \in Nat, NEW len \in Nat \ {0}
  PROVE  IF (a % len) + 1 = len
         THEN (a + 1) \div len = (a \div len) + 1 /\ (a + 1) % len = 0
         ELSE (a + 1) \div len = a \div len /\ (a + 1) % len = (a % len) + 1
OBVIOUS

LEMMA OneMore ==
  ASSUME NEW q \in Nat, NEW n \in Nat
  PROVE  q * n \in Nat /\ (q + 1) * n = q * n + n
OBVIOUS

(* Two parts of an iteration, one after the other.                         *)
LEMMA Joined ==
  ASSUME NEW A \in Seq(CallType), NEW B \in Seq(CallType)
  PROVE  /\ Len(A) \in Nat /\ Len(B) \in Nat /\ Len(A \o B) = Len(A) + Len(B)
         /\ \A j \in 1 .. Len(A \o B) :
              (A \o B)[j] = IF j <= Len(A) THEN A[j] ELSE B[j - Len(A)]
OBVIOUS

(* An iteration is made of its shares of the two functions, in this order. *)
LEMMA Shares ==
  ASSUME NEW t \in Tests
  PROVE  /\ Opens(t) \in Nat /\ Clones(t) \in Nat
         /\ Iteration(t) \in Seq(CallType)
         /\ Len(Iteration(t)) = Opens(t) + Clones(t)
         /\ \A j \in 1 .. Len(Iteration(t)) :
              Iteration(t)[j] = IF j <= Opens(t) THEN OpenCall(t) ELSE Fork
<1> USE SamplerAssumption
<1>1. /\ Repeat(Mem, MemOpens) \in Seq(CallType) /\ Len(Repeat(Mem, MemOpens)) = MemOpens
      /\ Repeat(Fork, Forks) \in Seq(CallType) /\ Len(Repeat(Fork, Forks)) = Forks
      /\ \A j \in 1 .. MemOpens : Repeat(Mem, MemOpens)[j] = Mem
      /\ \A j \in 1 .. Forks : Repeat(Fork, Forks)[j] = Fork
  BY CallRecords, RepeatType DEF Repeat
<1>2. Mem \in CallType /\ Read \in CallType /\ Fork \in CallType
  BY CallRecords
<1>3. Iteration(t) \in Seq(CallType)
  BY IterationType
<1>4. CASE t \in {"cpu", "net"}
  <2>1. Iteration(t) = <<>> /\ Opens(t) = 0 /\ Clones(t) = 0
    BY <1>4 DEF Iteration, Opens, Clones
  <2> QED
    BY <1>3, <2>1
<1>5. CASE t \in {"file-read", "mixed"}
  <2>1. Iteration(t) = <<Read>> /\ Opens(t) = 1 /\ Clones(t) = 0 /\ OpenCall(t) = Read
    BY <1>5 DEF Iteration, Opens, Clones, OpenCall, OpensMem
  <2> QED
    BY <1>2, <1>3, <2>1
<1>6. CASE t = "suspicious-mem"
  <2>1. /\ Iteration(t) = Repeat(Mem, MemOpens)
        /\ Opens(t) = MemOpens /\ Clones(t) = 0 /\ OpenCall(t) = Mem
    BY <1>6 DEF Iteration, Opens, Clones, OpenCall, OpensMem
  <2> QED
    BY <1>1, <1>2, <1>3, <2>1
<1>7. CASE t = "fork-flood"
  <2>1. Iteration(t) = Repeat(Fork, Forks) /\ Opens(t) = 0 /\ Clones(t) = Forks
    BY <1>7 DEF Iteration, Opens, Clones
  <2> QED
    BY <1>1, <1>3, <2>1
<1>8. CASE t = "benign-mixed"
  <2>1. /\ Iteration(t) = <<Read>> \o Repeat(Fork, Forks)
        /\ Opens(t) = 1 /\ Clones(t) = Forks /\ OpenCall(t) = Read
    BY <1>8 DEF Iteration, Opens, Clones, OpenCall, OpensMem
  <2>2. /\ <<Read>> \in Seq(CallType) /\ Len(<<Read>>) = 1
        /\ \A j \in 1 .. 1 : <<Read>>[j] = Read
    BY CallRecords
  <2> QED
    BY <1>1, <1>2, <1>3, <2>1, <2>2, Joined
<1>9. CASE t = "malicious-mixed"
  <2>1. /\ Iteration(t) = Repeat(Mem, MemOpens) \o Repeat(Fork, Forks)
        /\ Opens(t) = MemOpens /\ Clones(t) = Forks /\ OpenCall(t) = Mem
    BY <1>9 DEF Iteration, Opens, Clones, OpenCall, OpensMem
  <2>2. PICK A \in Seq(CallType), B \in Seq(CallType) :
          A = Repeat(Mem, MemOpens) /\ B = Repeat(Fork, Forks)
    BY <1>1
  <2>3. /\ Len(A) = MemOpens /\ \A j \in 1 .. Len(A) : A[j] = Mem
        /\ Len(B) = Forks /\ \A j \in 1 .. Len(B) : B[j] = Fork
    BY <1>1, <2>2
  <2>4. /\ Len(A \o B) = MemOpens + Forks
        /\ \A j \in 1 .. Len(A \o B) : (A \o B)[j] = IF j <= MemOpens THEN Mem ELSE Fork
    <3>1. /\ Len(A \o B) = Len(A) + Len(B)
          /\ \A j \in 1 .. Len(A \o B) :
               (A \o B)[j] = IF j <= Len(A) THEN A[j] ELSE B[j - Len(A)]
      BY Joined
    <3> QED
      BY <2>3, <3>1
  <2> QED
    BY <1>3, <2>1, <2>2, <2>4
<1>10. t \in {"cpu", "file-read", "net", "suspicious-mem", "fork-flood",
              "mixed", "benign-mixed", "malicious-mixed"}
  OBVIOUS
<1> QED
  BY <1>4, <1>5, <1>6, <1>7, <1>8, <1>9, <1>10

(* A call after those before main is in its turn's place.                  *)
LEMMA NextCall ==
  ASSUME NEW t \in Tests, NEW k \in Nat, k < Calls(t)
  PROVE  IF k < StartupOpens
         THEN Call(t, k + 1) = Read
         ELSE /\ Len(Iteration(t)) \in Nat \ {0}
              /\ Call(t, k + 1) =
                   IF (k - StartupOpens) % Len(Iteration(t)) < Opens(t)
                   THEN OpenCall(t) ELSE Fork
<1> DEFINE len == Len(Iteration(t))
           s == (k - StartupOpens) % len
<1>1. StartupOpens \in Nat /\ ITER \in Nat /\ Opens(t) \in Nat /\ len \in Nat
  BY Shares, SamplerAssumption
<1>2. CASE k < StartupOpens
  BY <1>1, <1>2 DEF Call
<1>3. CASE ~(k < StartupOpens)
  <2>1. len # 0
    <3>1. len = 0 => ITER * len = 0
      BY <1>1
    <3> QED
      BY <1>1, <1>3, <3>1 DEF Calls
  <2>2. k - StartupOpens \in Nat
    BY <1>1, <1>3
  <2>3. s \in 0 .. (len - 1)
    BY <1>1, <2>1, <2>2, DivMod
  <2>4. (k + 1) - StartupOpens - 1 = k - StartupOpens /\ ~(k + 1 <= StartupOpens)
    BY <1>1, <1>3
  <2>5. Call(t, k + 1) = Iteration(t)[s + 1]
    <3>1. Call(t, k + 1) = Iteration(t)[(((k + 1) - StartupOpens - 1) % len) + 1]
      BY <2>4, Zenon DEF Call
    <3> QED
      BY <2>4, <3>1
  <2> HIDE DEF s
  <2>6. s + 1 \in 1 .. len /\ (s + 1 <= Opens(t) <=> s < Opens(t))
    BY <1>1, <2>1, <2>3
  <2>7. Iteration(t)[s + 1] = IF s + 1 <= Opens(t) THEN OpenCall(t) ELSE Fork
    BY <2>6, Shares
  <2>8. Call(t, k + 1) = IF s < Opens(t) THEN OpenCall(t) ELSE Fork
    BY <2>5, <2>6, <2>7
  <2> QED
    BY <1>1, <1>3, <2>1, <2>8 DEF s
<1> QED
  BY <1>2, <1>3

(* The next call of a test is one more call of its function, and of no     *)
(* other.                                                                  *)
LEMMA CountStep ==
  ASSUME NEW t \in Tests, NEW k \in Nat, k < Calls(t), NEW fn \in Functions
  PROVE  /\ Count(t, fn, k) \in Nat
         /\ Count(t, fn, k + 1)
              = Count(t, fn, k) + (IF Call(t, k + 1).fn = fn THEN 1 ELSE 0)
<1> DEFINE len == Len(Iteration(t))
           O == Opens(t)
           F == Clones(t)
           Q(x) == (x - StartupOpens) \div len
           R(x) == (x - StartupOpens) % len
           Part(x) == IF x <= O THEN x ELSE O
           Rest(x) == IF x <= O THEN 0 ELSE x - O
<1>1. StartupOpens \in Nat /\ O \in Nat /\ F \in Nat /\ len = O + F
  BY Shares, SamplerAssumption
<1>2. /\ fn \in {"open", "openat", "clone"}
      /\ Fork.fn = "clone" /\ Read.fn = "openat" /\ Mem.fn = "openat"
  BY DEF Functions, Fork, Read, Mem
<1>3. CASE k < StartupOpens
  BY <1>1, <1>2, <1>3, NextCall DEF Count
<1>4. CASE ~(k < StartupOpens)
  <2>1. len \in Nat \ {0} /\ k - StartupOpens \in Nat
    BY <1>1, <1>4, NextCall
  <2>2. PICK q, s : q = Q(k) /\ s = R(k)
    OBVIOUS
  <2>3. q \in Nat /\ s \in 0 .. (len - 1)
    BY <2>1, <2>2, DivMod
  <2>4. IF s < O THEN Call(t, k + 1).fn = "openat" ELSE Call(t, k + 1).fn = "clone"
    BY <1>2, <1>4, <2>2, NextCall DEF OpenCall
  <2>5. PICK a \in Nat : a = k - StartupOpens /\ a + 1 = (k + 1) - StartupOpens
    BY <1>1, <2>1
  <2>6. IF s + 1 = len THEN Q(k + 1) = q + 1 /\ R(k + 1) = 0
                       ELSE Q(k + 1) = q /\ R(k + 1) = s + 1
    <3>1. q = a \div len /\ s = a % len
      BY <2>2, <2>5
    <3>2. Q(k + 1) = (a + 1) \div len /\ R(k + 1) = (a + 1) % len
      BY <1>1, <2>1, <2>5
    <3> HIDE DEF Q, R
    <3> QED
      BY <2>1, <3>1, <3>2, DivNext
  <2>7. ~(k + 1 <= StartupOpens)
    BY <1>1, <1>4
  <2>8. /\ Count(t, "openat", k + 1) = StartupOpens + Q(k + 1) * O + Part(R(k + 1))
        /\ Count(t, "clone", k + 1) = Q(k + 1) * F + Rest(R(k + 1))
        /\ Count(t, "open", k + 1) = 0
    BY <2>7 DEF Count
  <2>9. /\ Count(t, "openat", k) = StartupOpens + q * O + Part(s)
        /\ Count(t, "clone", k) = q * F + Rest(s)
        /\ Count(t, "open", k) = 0
    <3>1. CASE k = StartupOpens
      <4>1. k - StartupOpens = len * 0 + 0 /\ 0 \in 0 .. (len - 1)
        BY <1>1, <2>1, <3>1
      <4>2. q = 0 /\ s = 0
        BY <2>1, <2>2, <4>1, DivUnique
      <4> QED
        BY <1>1, <3>1, <4>2 DEF Count
    <3>2. CASE k # StartupOpens
      <4>1. ~(k <= StartupOpens)
        BY <1>1, <1>4, <3>2
      <4> QED
        BY <2>2, <4>1 DEF Count
    <3> QED
      BY <3>1, <3>2
  <2> HIDE DEF Q, R
  <2>10. /\ q * O \in Nat /\ (q + 1) * O = q * O + O
         /\ q * F \in Nat /\ (q + 1) * F = q * F + F
    BY <1>1, <2>3, OneMore
  <2>11. PICK x \in Nat, y \in Nat : x = q * O /\ y = q * F
    BY <2>10
  <2>12. IF s + 1 = len THEN Q(k + 1) * O = x + O /\ Q(k + 1) * F = y + F
                        ELSE Q(k + 1) * O = x /\ Q(k + 1) * F = y
    BY <2>6, <2>10, <2>11
  <2>13. IF s + 1 = len THEN Part(R(k + 1)) = 0 /\ Rest(R(k + 1)) = 0
                        ELSE Part(R(k + 1)) = Part(s + 1) /\ Rest(R(k + 1)) = Rest(s + 1)
    BY <1>1, <2>6
  <2>14. /\ Part(s) \in Nat /\ Rest(s) \in Nat
         /\ Part(s + 1) = Part(s) + (IF s < O THEN 1 ELSE 0)
         /\ Rest(s + 1) = Rest(s) + (IF s < O THEN 0 ELSE 1)
         /\ s + 1 = len => Part(s + 1) = O /\ Rest(s + 1) = F
    <3> HIDE DEF O, F, len
    <3>1. s \in Nat /\ s < len
      BY <1>1, <2>3
    <3>2. CASE s < O
      BY <1>1, <3>1, <3>2
    <3>3. CASE ~(s < O)
      BY <1>1, <3>1, <3>3
    <3> QED
      BY <3>2, <3>3
  <2> HIDE DEF Part, Rest, len
  <2>15. /\ StartupOpens + Q(k + 1) * O + Part(R(k + 1))
              = StartupOpens + x + Part(s) + (IF s < O THEN 1 ELSE 0)
         /\ Q(k + 1) * F + Rest(R(k + 1)) = y + Rest(s) + (IF s < O THEN 0 ELSE 1)
    <3> HIDE DEF O, F
    <3>1. CASE s + 1 = len
      BY <1>1, <2>12, <2>13, <2>14, <3>1
    <3>2. CASE s + 1 # len
      BY <1>1, <2>12, <2>13, <2>14, <3>2
    <3> QED
      BY <3>1, <3>2
  <2>16. StartupOpens + x + Part(s) \in Nat /\ y + Rest(s) \in Nat
    BY <1>1, <2>14
  <2> QED
    BY <1>2, <2>4, <2>8, <2>9, <2>11, <2>15, <2>16
<1> QED
  BY <1>3, <1>4

(* Until main, each call is an openat; from then on there are at least as  *)
(* many.                                                                   *)
LEMMA CountBounds ==
  ASSUME NEW t \in Tests, NEW k \in Nat, k <= Calls(t)
  PROVE  /\ Count(t, "openat", k) \in Nat /\ Count(t, "clone", k) \in Nat
         /\ k <= StartupOpens => Count(t, "openat", k) = k
         /\ k >= StartupOpens => Count(t, "openat", k) >= StartupOpens
<1> DEFINE len == Len(Iteration(t))
<1>1. StartupOpens \in Nat /\ ITER \in Nat /\ len \in Nat
      /\ Opens(t) \in Nat /\ Clones(t) \in Nat
  BY Shares, SamplerAssumption
<1>2. CASE k <= StartupOpens
  BY <1>1, <1>2 DEF Count
<1>3. CASE ~(k <= StartupOpens)
  <2>1. len # 0
    <3>1. len = 0 => ITER * len = 0
      BY <1>1
    <3> QED
      BY <1>1, <1>3, <3>1 DEF Calls
  <2>2. PICK a \in Nat : a = k - StartupOpens
    BY <1>1, <1>3
  <2>3. PICK q \in Nat, s \in 0 .. (len - 1) : q = a \div len /\ s = a % len
    <3> HIDE DEF len
    <3> QED
      BY <1>1, <2>1, <2>2, DivMod
  <2>4. /\ Count(t, "openat", k)
             = StartupOpens + q * Opens(t) + (IF s <= Opens(t) THEN s ELSE Opens(t))
        /\ Count(t, "clone", k)
             = q * Clones(t) + (IF s <= Opens(t) THEN 0 ELSE s - Opens(t))
    BY <1>3, <2>2, <2>3 DEF Count
  <2>5. PICK x \in Nat, y \in Nat : x = q * Opens(t) /\ y = q * Clones(t)
    BY <1>1, OneMore
  <2>6. s \in Nat
    BY <1>1, <2>1
  <2>7. /\ Count(t, "openat", k)
             = StartupOpens + x + (IF s <= Opens(t) THEN s ELSE Opens(t))
        /\ Count(t, "clone", k) = y + (IF s <= Opens(t) THEN 0 ELSE s - Opens(t))
    BY <2>4, <2>5
  <2> QED
    BY <1>1, <1>3, <2>6, <2>7
<1> QED
  BY <1>2, <1>3

(* All iterations amount to ITER times one.                                *)
LEMMA CountAll ==
  ASSUME NEW t \in Tests
  PROVE  /\ Calls(t) \in Nat
         /\ Count(t, "openat", Calls(t)) = StartupOpens + ITER * Opens(t)
         /\ Count(t, "clone", Calls(t)) = ITER * Clones(t)
<1> DEFINE len == Len(Iteration(t))
<1>1. StartupOpens \in Nat /\ ITER \in Nat /\ len = Opens(t) + Clones(t)
      /\ Opens(t) \in Nat /\ Clones(t) \in Nat
  BY Shares, SamplerAssumption
<1>2. PICK x \in Nat, y \in Nat : x = ITER * Opens(t) /\ y = ITER * Clones(t)
  BY <1>1, OneMore
<1>3. ITER * len = x + y
  BY <1>1, <1>2
<1>4. Calls(t) = StartupOpens + (x + y)
  BY <1>3 DEF Calls
<1>5. Calls(t) \in Nat
  BY <1>1, <1>4
<1>6. CASE x + y = 0
  <2>1. x = 0 /\ y = 0 /\ Calls(t) = StartupOpens
    BY <1>1, <1>4, <1>6
  <2> QED
    BY <1>1, <1>2, <1>5, <2>1 DEF Count
<1>7. CASE x + y # 0
  <2>1. ~(Calls(t) <= StartupOpens) /\ Calls(t) - StartupOpens = x + y
    BY <1>1, <1>4, <1>7
  <2>2. len \in Nat \ {0}
    <3>1. len = 0 => ITER * len = 0
      BY <1>1
    <3> QED
      BY <1>1, <1>3, <1>7, <3>1
  <2>3. (len * ITER + 0) \div len = ITER /\ (len * ITER + 0) % len = 0
    <3>1. 0 \in 0 .. (len - 1)
      BY <2>2
    <3> QED
      BY <1>1, <2>2, <3>1, DivUnique
  <2>4. len * ITER + 0 = x + y
    BY <1>1, <1>3, <2>2
  <2>5. /\ (Calls(t) - StartupOpens) \div len = ITER
        /\ (Calls(t) - StartupOpens) % len = 0
    BY <2>1, <2>3, <2>4
  <2>6. /\ Count(t, "openat", Calls(t))
             = StartupOpens + x + (IF 0 <= Opens(t) THEN 0 ELSE Opens(t))
        /\ Count(t, "clone", Calls(t))
             = y + (IF 0 <= Opens(t) THEN 0 ELSE 0 - Opens(t))
    BY <1>2, <2>1, <2>5 DEF Count
  <2> QED
    BY <1>1, <1>2, <1>5, <2>6
<1> QED
  BY <1>6, <1>7

(* The multiples of a rate, and how far apart they are.                    *)
LEMMA Multiple ==
  ASSUME NEW n \in Nat, NEW rate \in Nat \ {0}, n % rate = 0
  PROVE  \E m \in Nat : n = rate * m
<1>1. PICK m \in Nat : n = rate * m + (n % rate)
  BY DivMod
<1>2. rate * m \in Nat
  BY OneMore
<1> QED
  BY <1>1, <1>2

LEMMA MultipleIsZero ==
  ASSUME NEW m \in Nat, NEW rate \in Nat \ {0}
  PROVE  rate * m \in Nat /\ (rate * m) % rate = 0
<1>1. 0 \in 0 .. (rate - 1) /\ rate * m \in Nat
  BY OneMore
<1>2. (rate * m + 0) % rate = 0
  BY <1>1, DivUnique
<1> QED
  BY <1>1, <1>2

LEMMA MultipleGap ==
  ASSUME NEW m \in Nat, NEW q \in Nat, NEW rate \in Nat \ {0}
  PROVE  IF m <= q THEN rate * m <= rate * q ELSE rate * m >= rate * q + rate
<1>1. CASE m <= q
  BY <1>1
<1>2. CASE ~(m <= q)
  <2>1. rate * m >= rate * (q + 1)
    BY <1>2
  <2>2. rate * (q + 1) = rate * q + rate
    OBVIOUS
  <2> QED
    BY <1>2, <2>1, <2>2
<1> QED
  BY <1>1, <1>2

(* A multiple of the rate lies in an interval if there is one more at its  *)
(* end than before it.                                                     *)
LEMMA MultipleBetween ==
  ASSUME NEW a \in Nat, NEW b \in Nat, NEW rate \in Nat \ {0}
  PROVE  (\E n \in (a + 1) .. b : n % rate = 0) <=> b \div rate > a \div rate
<1>1. PICK p \in Nat, u \in 0 .. (rate - 1) : p = a \div rate /\ a = rate * p + u
  BY DivMod
<1>2. PICK q \in Nat, v \in 0 .. (rate - 1) : q = b \div rate /\ b = rate * q + v
  BY DivMod
<1>3. rate * p \in Nat /\ rate * q \in Nat
  BY OneMore
<1>4. ASSUME NEW n \in (a + 1) .. b, n % rate = 0 PROVE q > p
  <2>1. PICK m \in Nat : n = rate * m
    BY <1>4, Multiple
  <2>2. rate * m \in Nat
    BY OneMore
  <2>3. ~(m <= p)
    BY <1>1, <1>3, <2>1, <2>2, MultipleGap
  <2>4. m <= q
    BY <1>2, <1>3, <2>1, <2>2, MultipleGap
  <2> QED
    BY <2>3, <2>4
<1>5. ASSUME q > p PROVE \E n \in (a + 1) .. b : n % rate = 0
  <2>1. rate * q >= rate * p + rate
    BY <1>5, MultipleGap
  <2>2. rate * q \in (a + 1) .. b
    BY <1>1, <1>2, <1>3, <2>1
  <2> QED
    BY <2>2, MultipleIsZero
<1> QED
  BY <1>1, <1>2, <1>4, <1>5

(* There is one from six to b if the greatest one up to b is beyond five.  *)
LEMMA MultipleBeyondFive ==
  ASSUME NEW b \in Nat, NEW rate \in Nat \ {0}
  PROVE  (\E n \in 6 .. b : n % rate = 0) <=> (b \div rate) * rate > 5
<1>1. PICK q \in Nat, v \in 0 .. (rate - 1) : q = b \div rate /\ b = rate * q + v
  BY DivMod
<1>2. rate * q \in Nat /\ rate * q = q * rate
  BY OneMore
<1>3. ASSUME NEW n \in 6 .. b, n % rate = 0 PROVE q * rate > 5
  <2>1. PICK m \in Nat : n = rate * m
    BY <1>3, Multiple
  <2>2. rate * m \in Nat
    BY OneMore
  <2>3. m <= q
    BY <1>1, <1>2, <2>1, <2>2, MultipleGap
  <2>4. rate * m <= rate * q
    BY <2>3, MultipleGap
  <2> QED
    BY <1>2, <2>1, <2>2, <2>4
<1>4. ASSUME q * rate > 5 PROVE \E n \in 6 .. b : n % rate = 0
  <2>1. rate * q \in 6 .. b
    BY <1>1, <1>2, <1>4
  <2> QED
    BY <2>1, MultipleIsZero
<1> QED
  BY <1>1, <1>3, <1>4

--------------------------------------------------------------------------------
(* The verdict on all calls of a test is what arithmetic makes of the test *)
(* and the rate.                                                           *)
LEMMA FoundAll ==
  ASSUME NEW t \in Tests, NEW rate \in Nat \ {0}
  PROVE  Found(t, rate, Calls(t)) <=> Expected(t, rate)
<1> USE SamplerAssumption
<1>1. Opens(t) \in Nat /\ Clones(t) \in Nat
  BY Shares
<1>2. ITER * Opens(t) \in Nat /\ ITER * Clones(t) \in Nat /\ ITER * MemOpens \in Nat
  BY <1>1, OneMore
<1>3. ITER * Clones(t) = Forkings(t)
  BY DEF Clones, Forkings
<1>4. (\E n \in 6 .. Count(t, "clone", Calls(t)) : n % rate = 0)
        <=> (Forkings(t) \div rate) * rate > 5
  BY <1>2, <1>3, CountAll, MultipleBeyondFive
<1>5. CASE OpensMem(t)
  <2>1. Opens(t) = MemOpens /\ Openings(t) = ITER * MemOpens
    BY <1>5 DEF OpensMem, Opens, Openings
  <2>2. PICK b \in Nat : b = StartupOpens + ITER * MemOpens
    BY <1>2
  <2>3. (\E n \in (StartupOpens + 1) .. b : n % rate = 0)
          <=> b \div rate > StartupOpens \div rate
    BY MultipleBetween
  <2>4. Count(t, "openat", Calls(t)) = b /\ StartupOpens + Openings(t) = b
    BY <2>1, <2>2, CountAll
  <2> QED
    BY <1>4, <1>5, <2>3, <2>4 DEF Found, Expected
<1>6. CASE ~ OpensMem(t)
  <2>1. Openings(t) = 0 /\ StartupOpens + 0 = StartupOpens
    BY <1>6 DEF OpensMem, Openings
  <2>2. StartupOpens \div rate \in Nat
    BY DivMod
  <2>3. ~((StartupOpens + Openings(t)) \div rate > StartupOpens \div rate)
    BY <2>1, <2>2
  <2> QED
    BY <1>4, <1>6, <2>3 DEF Found, Expected
<1> QED
  BY <1>5, <1>6

(* Nothing is counted or found before the first call.                      *)
LEMMA FoundNone ==
  ASSUME NEW t \in Tests, NEW rate
  PROVE  Count(t, "openat", 0) = 0 /\ Count(t, "clone", 0) = 0 /\ Count(t, "open", 0) = 0
         /\ ~ Found(t, rate, 0)
<1>1. Count(t, "openat", 0) = 0 /\ Count(t, "clone", 0) = 0 /\ Count(t, "open", 0) = 0
  BY SamplerAssumption DEF Count
<1> QED
  BY <1>1, SamplerAssumption DEF Found

(* A call adds to the verdict if it is examined and malicious.             *)
LEMMA FoundStep ==
  ASSUME NEW t \in Tests, NEW rate \in Nat \ {0}, NEW k \in Nat, k < Calls(t),
         NEW fn \in Functions, NEW mem \in BOOLEAN, NEW nc,
         fn = Call(t, k + 1).fn, mem = Call(t, k + 1).mem, nc = Count(t, fn, k + 1)
  PROVE  Found(t, rate, k + 1)
           <=> Found(t, rate, k) \/ (nc % rate = 0 /\ IF fn = "clone" THEN nc > 5 ELSE mem)
<1> DEFINE a == Count(t, "openat", k)
           b == Count(t, "clone", k)
<1>1. /\ StartupOpens \in Nat /\ Calls(t) \in Nat
      /\ Read.fn = "openat" /\ Read.mem = FALSE /\ Mem.fn = "openat" /\ Mem.mem = TRUE
      /\ Fork.fn = "clone" /\ Fork.mem = FALSE
  BY SamplerAssumption, CountAll DEF Read, Mem, Fork
<1>2. /\ a \in Nat /\ b \in Nat
      /\ k <= StartupOpens => a = k
      /\ k >= StartupOpens => a >= StartupOpens
  BY <1>1, CountBounds
<1>3. /\ Count(t, "openat", k + 1) = IF fn = "openat" THEN a + 1 ELSE a
      /\ Count(t, "clone", k + 1) = IF fn = "clone" THEN b + 1 ELSE b
  BY <1>2, CountStep DEF Functions
<1> HIDE DEF a, b
<1> DEFINE FoundOpen(x) == \E n \in (StartupOpens + 1) .. x : n % rate = 0
           FoundClone(x) == \E n \in 6 .. x : n % rate = 0
<1>4. /\ Found(t, rate, k) <=> (OpensMem(t) /\ FoundOpen(a)) \/ FoundClone(b)
      /\ fn = "openat" => (Found(t, rate, k + 1)
                              <=> (OpensMem(t) /\ FoundOpen(a + 1)) \/ FoundClone(b))
      /\ fn = "clone" => (Found(t, rate, k + 1)
                              <=> (OpensMem(t) /\ FoundOpen(a)) \/ FoundClone(b + 1))
  BY <1>3 DEF Found, a, b
<1>5. CASE k < StartupOpens
  <2>1. fn = "openat" /\ mem = FALSE
    BY <1>1, <1>5, NextCall
  <2>2. a + 1 <= StartupOpens
    BY <1>1, <1>2, <1>5
  <2>3. FoundOpen(a + 1) <=> FoundOpen(a)
    BY <1>1, <1>2, <2>2
  <2> HIDE DEF FoundOpen, FoundClone
  <2> QED
    BY <1>4, <2>1, <2>3
<1>6. CASE k >= StartupOpens /\ Call(t, k + 1) = OpenCall(t)
  <2>1. fn = "openat" /\ (mem <=> OpensMem(t))
    BY <1>1, <1>6 DEF OpenCall
  <2>2. nc = a + 1 /\ a + 1 \in (StartupOpens + 1) .. (a + 1)
    BY <1>1, <1>2, <1>3, <1>6, <2>1
  <2>3. (StartupOpens + 1) .. (a + 1) = ((StartupOpens + 1) .. a) \cup {a + 1}
    BY <1>1, <1>2, <2>2
  <2>4. FoundOpen(a + 1) <=> FoundOpen(a) \/ nc % rate = 0
    BY <2>2, <2>3
  <2> HIDE DEF FoundOpen, FoundClone
  <2> QED
    BY <1>4, <2>1, <2>4
<1>7. CASE Call(t, k + 1) = Fork
  <2>1. fn = "clone"
    BY <1>1, <1>7
  <2>2. nc = b + 1
    BY <1>3, <2>1
  <2>3. FoundClone(b + 1) <=> FoundClone(b) \/ (nc % rate = 0 /\ nc > 5)
    <3>1. CASE b >= 5
      <4>1. 6 .. (b + 1) = (6 .. b) \cup {nc} /\ nc > 5
        BY <1>2, <2>2, <3>1
      <4> QED
        BY <2>2, <4>1
    <3>2. CASE ~(b >= 5)
      BY <1>2, <2>2, <3>2
    <3> QED
      BY <3>1, <3>2
  <2> HIDE DEF FoundOpen, FoundClone
  <2> QED
    BY <1>4, <2>1, <2>3
<1> QED
  BY <1>1, <1>5, <1>6, <1>7, NextCall

--------------------------------------------------------------------------------
(* The probe of the process under test has still to store its count.       *)
Pending(fn) == probe[app].at = "store" /\ probe[app].fn = fn

(* While the process under test runs, its entries say how many calls it    *)
(* has made, its probe holds the count of the last of them, and it is      *)
(* detected if one of the calls already examined is malicious.             *)
AppCounts ==
  phase = "wait" =>
    /\ made <= Calls(test)
    /\ \A fn \in Functions :
         counter[fn][app] + (IF Pending(fn) THEN 1 ELSE 0) = Count(test, fn, made)
    /\ probe[app] # NoProbe =>
         /\ made # 0
         /\ probe[app].fn = Call(test, made).fn /\ probe[app].mem = Call(test, made).mem
         /\ probe[app].nc = Count(test, probe[app].fn, made)
    /\ app \in detections <=>
         Found(test, SAMPLING_RATE, IF probe[app] = NoProbe THEN made ELSE made - 1)

(* Once it has ended, the script finds out what all its calls amount to.   *)
Verdict ==
  /\ phase = "read" => (app \in detections <=> Found(test, SAMPLING_RATE, Calls(test)))
  /\ phase \in Functions \cup {"detections"} =>
       (detected <=> Found(test, SAMPLING_RATE, Calls(test)))

(* Steps that leave the process under test and its entries alone.          *)
LEMMA AppKept ==
  ASSUME AppCounts, phase' = "wait" => phase = "wait", UNCHANGED <<r, test, app, made>>,
         phase = "wait" => /\ probe'[app] = probe[app]
                           /\ \A fn \in Functions : counter'[fn][app] = counter[fn][app]
                           /\ app \in detections' <=> app \in detections
  PROVE  AppCounts'
BY DEF AppCounts, Pending, SAMPLING_RATE

LEMMA VerdictKept ==
  ASSUME Verdict, UNCHANGED <<phase, r, test, app, detected>>,
         phase = "read" => (app \in detections' <=> app \in detections)
  PROVE  Verdict'
BY DEF Verdict, SAMPLING_RATE

LEMMA CurrentRate == TypeOK => SAMPLING_RATE \in Nat \ {0}
BY SamplerAssumption DEF TypeOK, SAMPLING_RATE

(* What a probe of another process does changes no entry of the process    *)
(* under test, and the latter has none once the script has waited for it.  *)
LEMMA ProbeStepVerdict ==
  ASSUME SamplerInv, AppCounts, Verdict, NEW p \in Pids, Store(p) \/ Examine(p)
  PROVE  AppCounts' /\ Verdict'
<1>1. /\ UNCHANGED <<phase, r, test, app, made, detected>>
      /\ probe[p] # NoProbe
      /\ TypeOK /\ TestRuns /\ AppIsOwn
  BY DEF Store, Examine, loop, NoProbe, SamplerInv, Entries
<1>2. CASE p # app
  <2>1. phase = "wait" => app \in Pids
    BY <1>1 DEF TypeOK
  <2>2. phase = "wait" => /\ probe'[app] = probe[app]
                          /\ \A fn \in Functions : counter'[fn][app] = counter[fn][app]
    <3>1. CASE Store(p)
      BY <1>1, <1>2, <2>1, <3>1 DEF Store, TypeOK
    <3>2. CASE Examine(p)
      BY <1>1, <1>2, <2>1, <3>2 DEF Examine, TypeOK
    <3> QED
      BY <3>1, <3>2
  <2>3. app \in detections' <=> app \in detections
    BY <1>2 DEF Store, Examine
  <2> QED
    BY <1>1, <2>2, <2>3, AppKept, VerdictKept
<1>3. CASE p = app
  <2>1. phase = "wait"
    BY <1>1, <1>3, SamplerAssumption DEF TypeOK, AppIsOwn
  <2>2. Verdict'
    BY <1>1, <2>1 DEF Verdict, Functions
  <2>3. /\ probe[p] \in [at : {"store", "examine"}, fn : Functions, mem : BOOLEAN,
                         nc : Nat \ {0}]
        /\ test \in Tests /\ made \in Nat
        /\ counter \in [Functions -> [Pids -> Nat]] /\ probe \in [Pids -> Probes]
    <3>1. /\ test \in Tests /\ made \in Nat
          /\ counter \in [Functions -> [Pids -> Nat]] /\ probe \in [Pids -> Probes]
      BY <1>1, <2>1 DEF TypeOK, TestRuns
    <3>2. probe[p] \in Probes /\ probe[p].at \in {"store", "examine"}
      BY <3>1 DEF Store, Examine
    <3> QED
      BY <3>1, <3>2, Running
  <2>4. /\ made <= Calls(test) /\ made # 0
        /\ probe[p].fn = Call(test, made).fn /\ probe[p].mem = Call(test, made).mem
        /\ probe[p].nc = Count(test, probe[p].fn, made)
        /\ \A fn \in Functions :
             counter[fn][p] + (IF Pending(fn) THEN 1 ELSE 0) = Count(test, fn, made)
        /\ p \in detections <=> Found(test, SAMPLING_RATE, made - 1)
    BY <1>1, <1>3, <2>1 DEF AppCounts
  <2>5. CASE Store(p)
    <3>1. /\ probe'[p] = [probe[p] EXCEPT !.at = "examine"]
          /\ probe[p].at = "store"
          /\ detections' = detections
          /\ \A fn \in Functions :
               counter'[fn][p] = IF fn = probe[p].fn THEN probe[p].nc ELSE counter[fn][p]
      BY <2>3, <2>5 DEF Store
    <3>2. /\ probe'[p].at = "examine" /\ probe'[p] # NoProbe
          /\ probe'[p].fn = probe[p].fn /\ probe'[p].mem = probe[p].mem
          /\ probe'[p].nc = probe[p].nc
      BY <2>3, <3>1 DEF NoProbe
    <3>3. ASSUME NEW fn \in Functions
          PROVE  counter'[fn][p] + (IF Pending(fn)' THEN 1 ELSE 0) = Count(test, fn, made)
      <4>1. ~ Pending(fn)'
        BY <1>1, <1>3, <3>2 DEF Pending
      <4>2. counter'[fn][p] \in Nat /\ counter[fn][p] \in Nat
        BY <2>3, <3>1
      <4>3. CASE fn = probe[p].fn
        BY <2>4, <3>1, <4>1, <4>2, <4>3
      <4>4. CASE fn # probe[p].fn
        <5>1. ~ Pending(fn)
          BY <1>3, <4>4 DEF Pending
        <5> QED
          BY <2>4, <3>1, <4>1, <4>2, <4>4, <5>1
      <4> QED
        BY <4>3, <4>4
    <3>4. AppCounts'
      BY <1>1, <1>3, <2>4, <3>1, <3>2, <3>3 DEF AppCounts, SAMPLING_RATE
    <3> QED
      BY <2>2, <3>4
  <2>6. CASE Examine(p)
    <3>1. /\ probe'[p] = NoProbe /\ probe[p].at = "examine"
          /\ counter' = counter
          /\ p \in detections' <=>
               p \in detections \/ (probe[p].nc % SAMPLING_RATE = 0 /\ Malicious(probe[p]))
      BY <2>3, <2>6 DEF Examine
    <3>2. \A fn \in Functions : ~ Pending(fn) /\ ~ Pending(fn)'
      BY <1>1, <1>3, <3>1 DEF Pending, NoProbe
    <3>3. PICK k \in Nat : k = made - 1 /\ made = k + 1 /\ k < Calls(test)
      BY <2>3, <2>4, CountAll
    <3>4. Found(test, SAMPLING_RATE, made)
            <=> \/ Found(test, SAMPLING_RATE, made - 1)
                \/ probe[p].nc % SAMPLING_RATE = 0 /\ Malicious(probe[p])
      <4>1. Malicious(probe[p]) <=> IF probe[p].fn = "clone" THEN probe[p].nc > 5
                                                            ELSE probe[p].mem
        BY DEF Malicious
      <4>2. probe[p].fn \in Functions /\ probe[p].mem \in BOOLEAN
        BY <2>3
      <4> QED
        BY <1>1, <2>3, <2>4, <3>3, <4>1, <4>2, CurrentRate, FoundStep
    <3>5. AppCounts'
      BY <1>1, <1>3, <2>4, <3>1, <3>2, <3>4 DEF AppCounts, SAMPLING_RATE
    <3> QED
      BY <2>2, <3>5
  <2> QED
    BY <2>5, <2>6
<1> QED
  BY <1>2, <1>3

LEMMA AppCallVerdict ==
  ASSUME SamplerInv, AppCounts, AppCall
  PROVE  AppCounts' /\ Verdict'
<1> DEFINE call == Call(test, made + 1)
           e == [at |-> "store", fn |-> call.fn, mem |-> call.mem,
                 nc |-> counter[call.fn][app] + 1]
<1>1. /\ phase = "wait" /\ UNCHANGED <<counter, detections, phase, r, test, app>>
      /\ made' = made + 1 /\ made < Calls(test)
      /\ probe[app] = NoProbe /\ probe' = [probe EXCEPT ![app] = e]
  BY DEF AppCall, Enter, loop
<1>2. /\ test \in Tests /\ made \in Nat /\ app \in Pids /\ Calls(test) \in Nat
      /\ counter \in [Functions -> [Pids -> Nat]] /\ probe \in [Pids -> Probes]
  BY <1>1, CountAll DEF SamplerInv, TypeOK, TestRuns
<1>3. call.fn \in Functions
  <2>1. made + 1 <= Calls(test) /\ made + 1 \in Nat \ {0}
    BY <1>1, <1>2
  <2> QED
    BY <1>2, <2>1, TracedCalls DEF CallType
<1>4. \A fn \in Functions : counter[fn][app] = Count(test, fn, made)
  <2>1. \A fn \in Functions : ~ Pending(fn)
    BY <1>1 DEF Pending, NoProbe
  <2>2. \A fn \in Functions : counter[fn][app] \in Nat
    BY <1>2
  <2> QED
    BY <1>1, <2>1, <2>2 DEF AppCounts
<1>5. \A fn \in Functions :
        Count(test, fn, made + 1) = Count(test, fn, made) + (IF call.fn = fn THEN 1 ELSE 0)
  BY <1>1, <1>2, CountStep
<1> HIDE DEF call
<1>6. /\ probe'[app] = e /\ e # NoProbe /\ e.at = "store"
      /\ e.fn = call.fn /\ e.mem = call.mem /\ e.nc = counter[call.fn][app] + 1
  BY <1>1, <1>2 DEF NoProbe
<1> HIDE DEF e
<1>7. \A fn \in Functions : Pending(fn)' <=> call.fn = fn
  BY <1>1, <1>6 DEF Pending
<1>8. \A fn \in Functions :
        counter'[fn][app] + (IF Pending(fn)' THEN 1 ELSE 0) = Count(test, fn, made + 1)
  BY <1>1, <1>4, <1>5, <1>7
<1>9. e.nc = Count(test, e.fn, made + 1)
  BY <1>3, <1>4, <1>5, <1>6
<1>10. app \in detections <=> Found(test, SAMPLING_RATE, made)
  BY <1>1 DEF AppCounts
<1>11. made + 1 # 0 /\ made + 1 <= Calls(test) /\ (made + 1) - 1 = made
  BY <1>1, <1>2
<1>12. AppCounts'
  BY <1>1, <1>6, <1>8, <1>9, <1>10, <1>11 DEF AppCounts, SAMPLING_RATE, call
<1>13. Verdict'
  BY <1>1 DEF Verdict, Functions
<1> QED
  BY <1>12, <1>13

LEMMA VerdictStep ==
  SamplerInv /\ SamplerInv' /\ AppCounts /\ Verdict /\ [Next]_samplerVars
    => AppCounts' /\ Verdict'
<1> SUFFICES ASSUME SamplerInv, SamplerInv', AppCounts, Verdict, [Next]_samplerVars
             PROVE  AppCounts' /\ Verdict'
  OBVIOUS
<1>1. CASE \E p \in Pids : Store(p) \/ Examine(p)
  BY <1>1, ProbeStepVerdict
<1>2. CASE AppCall
  BY <1>2, AppCallVerdict
<1>3. ASSUME NEW p \in Pids, OtherCall(p) PROVE AppCounts' /\ Verdict'
  <2>1. /\ UNCHANGED <<counter, detections, phase, r, test, app, made, detected>>
        /\ p # app /\ \A x \in Pids : x # p => probe'[x] = probe[x]
        /\ phase = "wait" => app \in Pids
    <3>1. /\ UNCHANGED <<counter, detections, phase, r, test, app, made, detected>>
          /\ p \in others
      BY <1>3 DEF OtherCall, loop
    <3>2. \A x \in Pids : x # p => probe'[x] = probe[x]
      BY <1>3 DEF OtherCall, Enter, SamplerInv, TypeOK
    <3>3. p # app /\ (phase = "wait" => app \in Pids)
      BY <3>1, SamplerAssumption DEF SamplerInv, Entries, AppIsOwn, TypeOK
    <3> QED
      BY <3>1, <3>2, <3>3
  <2> QED
    BY <2>1, AppKept, VerdictKept
<1>4. CASE \E p \in Pids : OtherStarts(p) \/ OtherExits(p)
  BY <1>4, AppKept, VerdictKept DEF OtherStarts, OtherExits, loop
<1>5. CASE Launch
  <2>1. phase' = "wait" /\ made' = 0
    BY <1>5 DEF Launch
  <2>2. /\ test' \in Tests /\ app' \in Pids
        /\ probe'[app'] = NoProbe
        /\ \A fn \in Functions : counter'[fn][app'] = 0
        /\ app' \notin detections'
    BY <2>1, SamplerAssumption
    DEF SamplerInv, TypeOK, TestRuns, Entries, AppIsOwn, StartsClean
  <2>3. \A fn \in Functions : ~ Pending(fn)' /\ Count(test', fn, 0) = 0
    BY <2>2, FoundNone DEF Pending, NoProbe, Functions
  <2>4. 0 <= Calls(test')
    BY <2>2, CountAll
  <2>5. ~ Found(test', SAMPLING_RATE', 0)
    BY <2>2, FoundNone
  <2>6. AppCounts'
    BY <2>1, <2>2, <2>3, <2>4, <2>5 DEF AppCounts
  <2> QED
    BY <2>1, <2>6 DEF Verdict, Functions
<1>6. CASE Wait
  <2>1. app \in detections <=> Found(test, SAMPLING_RATE, Calls(test))
    BY <1>6 DEF Wait, AppCounts
  <2> QED
    BY <1>6, <2>1 DEF Wait, AppCounts, Verdict, Functions, SAMPLING_RATE
<1>7. CASE ReadDetections
  BY <1>7 DEF ReadDetections, AppCounts, Verdict, Functions, SAMPLING_RATE
<1>8. CASE \E fn \in Functions : ClearCounter(fn)
  BY <1>8, VerdictKept DEF ClearCounter, AppCounts, loop, Functions
<1>9. CASE \E fn \in Functions : NextMap(fn)
  BY <1>9 DEF NextMap, AppCounts, Verdict, Functions, SAMPLING_RATE
<1>10. CASE ClearDetection
  BY <1>10, VerdictKept DEF ClearDetection, AppCounts, loop
<1>11. CASE NextRun
  BY <1>11 DEF NextRun, AppCounts, Verdict, Functions
<1>12. CASE NextRate
  BY <1>12 DEF NextRate, AppCounts, Verdict, Functions
<1>13. CASE UNCHANGED samplerVars
  BY <1>13, AppKept, VerdictKept DEF samplerVars, loop
<1> QED
  BY <1>1, <1>2, <1>3, <1>4, <1>5, <1>6, <1>7, <1>8, <1>9, <1>10, <1>11, <1>12, <1>13
  DEF Next, Over

(* What the script records depends on the test and the rate alone: not on  *)
(* the other processes, nor on the runs before.                            *)
THEOREM RecordsWhatTestsDo == Spec => []DetectedAsExpected
<1>1. SamplerInv /\ Verdict => DetectedAsExpected
  <2> SUFFICES ASSUME SamplerInv, Verdict, phase \in Functions \cup {"detections"}
               PROVE  detected = Expected(test, SAMPLING_RATE)
    BY DEF DetectedAsExpected
  <2>1. test \in Tests /\ SAMPLING_RATE \in Nat \ {0} /\ detected \in BOOLEAN
    BY CurrentRate DEF SamplerInv, TypeOK, TestRuns, Functions
  <2>2. detected <=> Found(test, SAMPLING_RATE, Calls(test))
    BY DEF Verdict
  <2>3. detected <=> Expected(test, SAMPLING_RATE)
    BY <2>1, <2>2, FoundAll
  <2>4. Expected(test, SAMPLING_RATE) \in BOOLEAN
    BY DEF Expected
  <2> QED
    BY <2>1, <2>3, <2>4
<1>2. Init => AppCounts /\ Verdict
  BY DEF Init, AppCounts, Verdict, Functions
<1> QED
  BY <1>1, <1>2, SamplerInvariant, VerdictStep, PTL DEF Spec
================================================================================
