-------------------------- MODULE XdpMonitors_proofs ---------------------------
(***************************************************************************)
(* The monitor of eBPF_Marine/pps.py over the XDP program, and latency.py  *)
(* over the same program with its measuring block, for any number of CPUs  *)
(* and addresses and wherever a signal takes the monitor to cleanup.  When *)
(* the monitor is gone the program is off the interface and the log is     *)
(* closed; unless a frame was in the program when the flood counts had     *)
(* been cleared, a ban found while measuring was earned since that         *)
(* clearing; the rows, the reading in progress and the map hold together   *)
(* every frame, every latency and nothing twice; every frame that came in  *)
(* is measured once or still inside the program; and what a CPU adds to    *)
(* key 0 of latency_map never exceeds the time gone by.  The sums are over *)
(* maps of any size: the first lemmas say what a sum over a finite set is, *)
(* by induction over its subsets.                                          *)
(***************************************************************************)
EXTENDS XdpLatency, XdpFlood_proofs
--------------------------------------------------------------------------------
LEMMA SubsetsWellFounded ==
  ASSUME NEW S, IsFiniteSet(S)
  PROVE  IsWellFoundedOn(StrictSubsetOrdering(S), SUBSET S)
BY FS_FiniteSubsetsOfFinite, FS_StrictSubsetOrderingWellFounded

(* Induction over the subsets of a finite set, stated with the set of      *)
(* those for which a claim holds.                                          *)
LEMMA SubsetInduction ==
  ASSUME NEW S, IsFiniteSet(S), NEW C,
         \A s \in SUBSET S : (\A u \in SUBSET s : u # s => u \in C) => s \in C
  PROVE  \A s \in SUBSET S : s \in C
<1> DEFINE T == {s \in SUBSET S : s \notin C}
<1> SUFFICES ASSUME T # {} PROVE FALSE
  OBVIOUS
<1>1. IsWellFoundedOn(StrictSubsetOrdering(S), SUBSET S)
  BY SubsetsWellFounded
<1>2. T \subseteq SUBSET S
  OBVIOUS
<1> HIDE DEF T
<1>3. PICK s \in T : \A u \in T : ~ (<<u, s>> \in StrictSubsetOrdering(S))
  BY <1>1, <1>2, WFMin
<1>4. \A u \in T : u \subseteq s => u = s
  BY <1>2, <1>3 DEF StrictSubsetOrdering
<1> USE DEF T
<1>5. \A u \in SUBSET s : u # s => u \in C
  BY <1>4
<1> QED
  BY <1>5

(* The element that a fold takes first.                                    *)
First(s) == CHOOSE x \in s : TRUE

LEMMA FirstIn == ASSUME NEW s, s # {} PROVE First(s) \in s
BY DEF First

(* The table of sums that SumFunctionOnSet builds.                         *)
IsTable(g, f, S) ==
  g = [s \in SUBSET S |-> IF s = {} THEN 0 ELSE f[First(s)] + g[s \ {First(s)}]]

LEMMA SumIsEntry ==
  ASSUME NEW f, NEW S
  PROVE  SumFunctionOnSet(f, S) = (CHOOSE g : IsTable(g, f, S))[S]
BY DEF SumFunctionOnSet, FoldFunctionOnSet, MapThenFoldSet, IsTable, First

(* Two tables agree where both are defined.                                *)
LEMMA TablesAgree ==
  ASSUME NEW f, NEW S, NEW U \in SUBSET S, IsFiniteSet(U), NEW g, NEW h,
         IsTable(g, f, S), IsTable(h, f, U)
  PROVE  \A s \in SUBSET U : g[s] = h[s]
<1> DEFINE C == {s \in SUBSET U : g[s] = h[s]}
<1>1. ASSUME NEW s \in SUBSET U, \A u \in SUBSET s : u # s => u \in C
      PROVE  s \in C
  <2>1. CASE s = {}
    BY <2>1 DEF IsTable
  <2>2. CASE s # {}
    <3>1. First(s) \in s
      BY <2>2, FirstIn
    <3>2. g[s \ {First(s)}] = h[s \ {First(s)}]
      BY <1>1, <3>1
    <3> QED
      BY <2>2, <3>2 DEF IsTable
  <2> QED
    BY <2>1, <2>2
<1> HIDE DEF C
<1>2. \A s \in SUBSET U : s \in C
  BY <1>1, SubsetInduction
<1> QED
  BY <1>2 DEF C

LEMMA TableExists ==
  ASSUME NEW f, NEW S, IsFiniteSet(S)
  PROVE  \E g : IsTable(g, f, S)
<1> DEFINE C == {s \in SUBSET S : \E g : IsTable(g, f, s)}
           G(s) == CHOOSE g : IsTable(g, f, s)
<1>1. ASSUME NEW s \in SUBSET S, \A u \in SUBSET s : u # s => u \in C
      PROVE  s \in C
  <2>1. \A u \in SUBSET s : u # s => IsTable(G(u), f, u)
    BY <1>1
  <2> HIDE DEF G
  <2> DEFINE h == [u \in SUBSET s |->
                     IF u = {} THEN 0
                     ELSE f[First(u)] + G(u \ {First(u)})[u \ {First(u)}]]
  (* Below s, the new table has the entries of the old ones.               *)
  <2>2. ASSUME NEW v \in SUBSET s, v # s PROVE h[v] = G(v)[v]
    <3>1. IsTable(G(v), f, v)
      BY <2>1, <2>2
    <3>2. CASE v = {}
      BY <3>1, <3>2 DEF IsTable
    <3>3. CASE v # {}
      <4>1. First(v) \in v
        BY <3>3, FirstIn
      <4>2. PICK w \in SUBSET v : w = v \ {First(v)}
        OBVIOUS
      <4>3. IsTable(G(w), f, w) /\ IsFiniteSet(w)
        BY <2>1, <2>2, <4>1, <4>2, FS_Subset
      <4>4. G(v)[w] = G(w)[w]
        BY <3>1, <4>3, TablesAgree
      <4>5. G(v)[v] = f[First(v)] + G(v)[w]
        BY <3>1, <3>3, <4>2 DEF IsTable
      <4>6. h[v] = f[First(v)] + G(w)[w]
        BY <3>3, <4>2
      <4> QED
        BY <4>4, <4>5, <4>6
    <3> QED
      BY <3>2, <3>3
  <2>3. ASSUME NEW u \in SUBSET s, u # {}
        PROVE  h[u] = f[First(u)] + h[u \ {First(u)}]
    <3>1. PICK v \in SUBSET s : v = u \ {First(u)}
      OBVIOUS
    <3>2. v # s
      BY <2>3, <3>1, FirstIn
    <3>3. h[u] = f[First(u)] + G(v)[v]
      BY <2>3, <3>1
    <3> HIDE DEF h
    <3> QED
      BY <2>2, <3>1, <3>2, <3>3
  <2>4. h[{}] = 0
    OBVIOUS
  <2>5. h = [u \in SUBSET s |-> h[u]]
    OBVIOUS
  <2> HIDE DEF h
  <2>6. IsTable(h, f, s)
    BY <2>3, <2>4, <2>5 DEF IsTable
  <2> QED
    BY <2>6
<1> HIDE DEF C
<1>2. S \in C
  BY <1>1, SubsetInduction
<1> QED
  BY <1>2 DEF C

LEMMA SumEmpty == ASSUME NEW f PROVE SumFunctionOnSet(f, {}) = 0
<1>1. PICK g : IsTable(g, f, {})
  BY TableExists, FS_EmptySet
<1>2. IsTable(CHOOSE h : IsTable(h, f, {}), f, {})
  BY <1>1
<1> QED
  BY <1>2, SumIsEntry DEF IsTable

LEMMA SumFirst ==
  ASSUME NEW f, NEW S, IsFiniteSet(S), S # {}
  PROVE  SumFunctionOnSet(f, S)
           = f[First(S)] + SumFunctionOnSet(f, S \ {First(S)})
<1> DEFINE G(s) == CHOOSE g : IsTable(g, f, s)
<1>1. PICK U \in SUBSET S : U = S \ {First(S)}
  OBVIOUS
<1>2. IsFiniteSet(U)
  BY FS_Subset
<1>3. IsTable(G(S), f, S) /\ IsTable(G(U), f, U)
  BY <1>2, TableExists
<1> HIDE DEF G
<1>4. G(S)[U] = G(U)[U]
  BY <1>2, <1>3, TablesAgree
<1>5. G(S)[S] = f[First(S)] + G(S)[U]
  BY <1>1, <1>3 DEF IsTable
<1> QED
  BY <1>1, <1>4, <1>5, SumIsEntry DEF G

(* A sum of natural numbers is one.                                        *)
LEMMA SumType ==
  ASSUME NEW S, IsFiniteSet(S), NEW f, \A x \in S : f[x] \in Nat
  PROVE  SumFunctionOnSet(f, S) \in Nat
<1> DEFINE C == {s \in SUBSET S : SumFunctionOnSet(f, s) \in Nat}
<1>1. ASSUME NEW s \in SUBSET S, \A u \in SUBSET s : u # s => u \in C
      PROVE  s \in C
  <2>1. CASE s = {}
    BY <2>1, SumEmpty
  <2>2. CASE s # {}
    <3>1. IsFiniteSet(s) /\ First(s) \in s
      BY <2>2, FirstIn, FS_Subset
    <3>2. SumFunctionOnSet(f, s \ {First(s)}) \in Nat
      BY <1>1, <3>1
    <3> QED
      BY <2>2, <3>1, <3>2, SumFirst
  <2> QED
    BY <2>1, <2>2
<1> HIDE DEF C
<1>2. S \in C
  BY <1>1, SubsetInduction
<1> QED
  BY <1>2 DEF C

(* Functions that agree on a set have the same sum over it.                *)
LEMMA SumSame ==
  ASSUME NEW S, IsFiniteSet(S), NEW f, NEW g, \A x \in S : f[x] = g[x]
  PROVE  SumFunctionOnSet(f, S) = SumFunctionOnSet(g, S)
<1> DEFINE C == {s \in SUBSET S : SumFunctionOnSet(f, s) = SumFunctionOnSet(g, s)}
<1>1. ASSUME NEW s \in SUBSET S, \A u \in SUBSET s : u # s => u \in C
      PROVE  s \in C
  <2>1. CASE s = {}
    BY <2>1, SumEmpty
  <2>2. CASE s # {}
    <3>1. IsFiniteSet(s) /\ First(s) \in s
      BY <2>2, FirstIn, FS_Subset
    <3>2. SumFunctionOnSet(f, s \ {First(s)}) = SumFunctionOnSet(g, s \ {First(s)})
      BY <1>1, <3>1
    <3> QED
      BY <2>2, <3>1, <3>2, SumFirst
  <2> QED
    BY <2>1, <2>2
<1> HIDE DEF C
<1>2. S \in C
  BY <1>1, SubsetInduction
<1> QED
  BY <1>2 DEF C

(* Any element may be the one that is taken off.                           *)
LEMMA SumSplit ==
  ASSUME NEW S, IsFiniteSet(S), NEW f, \A x \in S : f[x] \in Nat, NEW x \in S
  PROVE  SumFunctionOnSet(f, S) = f[x] + SumFunctionOnSet(f, S \ {x})
<1> DEFINE Sum(s) == SumFunctionOnSet(f, s)
           C == {s \in SUBSET S : \A y \in s : Sum(s) = f[y] + Sum(s \ {y})}
<1>1. \A s \in SUBSET S : Sum(s) \in Nat
  BY FS_Subset, SumType
<1>2. ASSUME NEW s \in SUBSET S, \A u \in SUBSET s : u # s => u \in C
      PROVE  s \in C
  <2> SUFFICES ASSUME NEW y \in s PROVE Sum(s) = f[y] + Sum(s \ {y})
    OBVIOUS
  <2>1. PICK z \in s : Sum(s) = f[z] + Sum(s \ {z})
    BY FirstIn, SumFirst, FS_Subset
  <2> HIDE DEF Sum
  <2>2. ASSUME y # z PROVE Sum(s) = f[y] + Sum(s \ {y})
    <3>1. (s \ {z}) \ {y} = (s \ {y}) \ {z}
      OBVIOUS
    <3>2. s \ {z} \in C /\ s \ {y} \in C
      BY <1>2
    <3>3. Sum(s \ {z}) = f[y] + Sum((s \ {z}) \ {y})
      BY <2>2, <3>2
    <3>4. Sum(s \ {y}) = f[z] + Sum((s \ {z}) \ {y})
      BY <2>2, <3>1, <3>2
    <3>5. Sum((s \ {z}) \ {y}) \in Nat /\ f[y] \in Nat /\ f[z] \in Nat
      BY <1>1
    <3> QED
      BY <2>1, <3>3, <3>4, <3>5
  <2> QED
    BY <2>1, <2>2
<1> HIDE DEF C
<1>3. S \in C
  BY <1>2, SubsetInduction
<1> QED
  BY <1>3 DEF C

(* One value of the function changes.                                      *)
LEMMA SumUpdate ==
  ASSUME NEW S, IsFiniteSet(S), NEW f, NEW g, NEW x \in S,
         \A y \in S : f[y] \in Nat /\ g[y] \in Nat,
         \A y \in S \ {x} : g[y] = f[y]
  PROVE  SumFunctionOnSet(g, S) + f[x] = SumFunctionOnSet(f, S) + g[x]
<1>1. PICK U \in SUBSET S : U = S \ {x}
  OBVIOUS
<1>2. IsFiniteSet(U)
  BY FS_Subset
<1>3. SumFunctionOnSet(f, U) = SumFunctionOnSet(g, U)
  BY <1>1, <1>2, SumSame
<1>4. /\ SumFunctionOnSet(f, S) = f[x] + SumFunctionOnSet(f, U)
      /\ SumFunctionOnSet(g, S) = g[x] + SumFunctionOnSet(g, U)
  BY <1>1, SumSplit
<1>5. SumFunctionOnSet(f, U) \in Nat
  BY <1>2, SumType
<1> QED
  BY <1>3, <1>4, <1>5

(* All values are zero.                                                    *)
LEMMA SumZero ==
  ASSUME NEW S, IsFiniteSet(S), NEW f, \A x \in S : f[x] = 0
  PROVE  SumFunctionOnSet(f, S) = 0
<1> DEFINE C == {s \in SUBSET S : SumFunctionOnSet(f, s) = 0}
<1>1. ASSUME NEW s \in SUBSET S, \A u \in SUBSET s : u # s => u \in C
      PROVE  s \in C
  <2>1. CASE s = {}
    BY <2>1, SumEmpty
  <2>2. CASE s # {}
    <3>1. IsFiniteSet(s) /\ First(s) \in s
      BY <2>2, FirstIn, FS_Subset
    <3>2. SumFunctionOnSet(f, s \ {First(s)}) = 0
      BY <1>1, <3>1
    <3> QED
      BY <2>2, <3>1, <3>2, SumFirst
  <2> QED
    BY <2>1, <2>2
<1> HIDE DEF C
<1>2. S \in C
  BY <1>1, SubsetInduction
<1> QED
  BY <1>2 DEF C

(* One element more.                                                       *)
LEMMA SumMore ==
  ASSUME NEW S, IsFiniteSet(S), NEW f, NEW x, x \notin S,
         \A y \in S \cup {x} : f[y] \in Nat
  PROVE  SumFunctionOnSet(f, S \cup {x}) = SumFunctionOnSet(f, S) + f[x]
<1>1. IsFiniteSet(S \cup {x}) /\ (S \cup {x}) \ {x} = S
  BY FS_AddElement
<1>2. SumFunctionOnSet(f, S \cup {x}) = f[x] + SumFunctionOnSet(f, (S \cup {x}) \ {x})
  BY <1>1, SumSplit
<1>3. SumFunctionOnSet(f, S) \in Nat
  BY SumType
<1>4. SumFunctionOnSet(f, S \cup {x}) = f[x] + SumFunctionOnSet(f, S)
  BY <1>1, <1>2
<1>5. f[x] \in Nat
  OBVIOUS
<1> QED
  BY <1>3, <1>4, <1>5

(* What becomes of the sum over a part of the domain when one value of the *)
(* function changes, and when an element whose value is zero joins it.     *)
LEMMA SumChange ==
  ASSUME NEW D, IsFiniteSet(D), NEW f \in [D -> Nat], NEW g \in [D -> Nat],
         NEW x \in D, \A y \in D \ {x} : g[y] = f[y], NEW S, S \subseteq D
  PROVE  /\ SumFunctionOnSet(f, S) \in Nat /\ SumFunctionOnSet(g, S) \in Nat
         /\ x \in S => SumFunctionOnSet(g, S) + f[x] = SumFunctionOnSet(f, S) + g[x]
         /\ x \notin S /\ g[x] = 0
              => SumFunctionOnSet(g, S \cup {x}) = SumFunctionOnSet(f, S)
<1>1. IsFiniteSet(S)
  BY FS_Subset
<1>2. /\ \A y \in S : f[y] \in Nat /\ g[y] \in Nat
      /\ \A y \in S \cup {x} : g[y] \in Nat
      /\ \A y \in S \ {x} : g[y] = f[y]
  OBVIOUS
<1>3. SumFunctionOnSet(f, S) \in Nat /\ SumFunctionOnSet(g, S) \in Nat
  BY <1>1, <1>2, SumType
<1>4. CASE x \in S
  <2>1. SumFunctionOnSet(g, S) + f[x] = SumFunctionOnSet(f, S) + g[x]
    BY <1>1, <1>2, <1>4, SumUpdate
  <2> QED
    BY <1>3, <1>4, <2>1
<1>5. CASE x \notin S
  <2>1. SumFunctionOnSet(g, S) = SumFunctionOnSet(f, S)
    BY <1>1, <1>2, <1>5, SumSame
  <2>2. SumFunctionOnSet(g, S \cup {x}) = SumFunctionOnSet(g, S) + g[x]
    BY <1>1, <1>2, <1>5, SumMore
  <2> QED
    BY <1>3, <1>5, <2>1, <2>2
<1> QED
  BY <1>4, <1>5
--------------------------------------------------------------------------------
(* Where the flood counts, and where the blacklist too, have been cleared. *)
FloodCleared == {"clear_timestamp", "clear_blacklist", "clear_port", "clear_pps"} \cup Loop
BansCleared == {"clear_port", "clear_pps"} \cup Loop

(* What the global b, the interface and the log are along the way.         *)
FilesInv ==
  /\ attached => loaded
  /\ monitor = "attach" => loaded
  /\ monitor \in {"close", "exited"} => ~ attached
  /\ monitor = "exited" => csv = "closed"

(* What had been received of each address when its clearing began.         *)
Base == [ip \in IPs |-> base[ip]]

(* The counts stand for packets received since, once they are cleared, and *)
(* no older ban is left once the blacklist is.                             *)
EarnedInv ==
  /\ \A ip \in IPs : base[ip] <= received[ip]
  /\ monitor \in FloodCleared /\ ~ carried => FloodInv(Base, IPs)
  /\ monitor \in BansCleared /\ ~ carried => FloodInv(Base, {})

MonitorInv == MonitorTypeOK /\ FilesInv /\ EarnedInv
--------------------------------------------------------------------------------
LEMMA Phases ==
  {ClearPhases[i] : i \in 1 .. 6}
    = {"clear_count", "clear_flood", "clear_timestamp", "clear_blacklist",
       "clear_port", "clear_pps"}
<1>1. \A i : i \in 1 .. 6 <=> i \in {1, 2, 3, 4, 5, 6}
  OBVIOUS
<1> QED
  BY <1>1 DEF ClearPhases

LEMMA PhaseOrder ==
  ASSUME NextMap
  PROVE  \/ monitor = "clear_count" /\ monitor' = "clear_flood"
         \/ monitor = "clear_flood" /\ monitor' = "clear_timestamp"
         \/ monitor = "clear_timestamp" /\ monitor' = "clear_blacklist"
         \/ monitor = "clear_blacklist" /\ monitor' = "clear_port"
         \/ monitor = "clear_port" /\ monitor' = "clear_pps"
<1>1. PICK i \in 1 .. 5 : ClearPhases[i] = monitor /\ monitor' = ClearPhases[i + 1]
  BY DEF NextMap
<1>2. i = 1 \/ i = 2 \/ i = 3 \/ i = 4 \/ i = 5
  OBVIOUS
<1> QED
  BY <1>1, <1>2 DEF ClearPhases

(* A step of the XDP program is one of XdpFlood's, and the monitor's       *)
(* control and files stay where they are.                                  *)
LEMMA XdpStepIsNext ==
  ASSUME XdpStep
  PROVE  /\ [Next]_vars
         /\ UNCHANGED <<monitor, files, scan, total, reported, discarded, base, carried>>
BY DEF XdpStep, Arrive, CountOnly, Next, monitorVars, reading, history

(* No step of the program takes a frame back.                              *)
LEMMA ReceivedGrows ==
  ASSUME TypeOK, [Next]_vars
  PROVE  \A k \in IPs \cup {NotIP} : received'[k] >= received[k]
<1> USE DEF TypeOK
<1>1. ASSUME NEW c \in CPUs, NEW k \in IPs \cup {NotIP}, CountFrame(c, k)
      PROVE  \A j \in IPs \cup {NotIP} : received'[j] >= received[j]
  BY <1>1 DEF CountFrame
<1>2. ASSUME NEW c \in CPUs, Receive(c) \/ ReceiveOther(c)
      PROVE  \A j \in IPs \cup {NotIP} : received'[j] >= received[j]
  BY <1>1, <1>2 DEF Receive, ReceiveOther
<1>3. CASE UNCHANGED received
  BY <1>3
<1>4. (\E c \in CPUs : Run(c)) \/ Tick \/ (\E p \in Ports : BlockPort(p))
        \/ Quiet \/ UNCHANGED vars => UNCHANGED received
  BY DEF Run, CheckBlacklist, ReadCount, WriteCount, ReadFlood, WriteFlood,
     ReadClock, LookupTimestamp, Ban, ResetFlood, WriteTimestamp, CheckPort,
     Tick, BlockPort, Quiet, vars
<1> QED
  BY <1>2, <1>3, <1>4 DEF Next

LEMMA InitMonitorInv == MonitorInit => MonitorInv
<1> SUFFICES ASSUME MonitorInit PROVE MonitorInv
  OBVIOUS
<1>1. TypeOK
  BY TypeInit DEF MonitorInit
<1>2. base \in [IPs \cup {NotIP} -> Nat] /\ \A ip \in IPs : base[ip] <= received[ip]
  BY <1>1 DEF MonitorInit, TypeOK
<1> QED
  BY <1>1, <1>2 DEF MonitorInit, MonitorInv, MonitorTypeOK, FilesInv, EarnedInv,
     FloodCleared, BansCleared, Loop
--------------------------------------------------------------------------------
(* What clear() removes from the maps after the flood counts, and what     *)
(* zeroing a slot of the counter removes, bears on no count and adds no    *)
(* ban.                                                                    *)
LEMMA FloodKept ==
  ASSUME NEW B \in [IPs -> Nat], NEW old, FloodInv(B, old), TypeOK',
         UNCHANGED <<ip_flood_count_map, pc, src_ip, new_flood_count, received>>,
         ip_blacklist_map' \subseteq ip_blacklist_map
  PROVE  FloodInv(B, old)'
<1>1. \A ip : Behind(ip)' = Behind(ip)
  BY DEF Behind
<1> QED
  BY <1>1 DEF FloodInv, MapWithinTraffic, LocalWithinTraffic, BanOverThreshold,
     BansEarned, Carrying

(* When the flood counts are found empty and no frame is in the program,   *)
(* counting starts afresh from what had been received before.              *)
LEMMA FloodFresh ==
  ASSUME TypeOK, NEW B \in [IPs -> Nat], \A ip \in IPs : B[ip] <= received[ip],
         \A ip \in IPs : ip_flood_count_map[ip] = 0,
         \A c \in CPUs : pc[c] = "idle"
  PROVE  FloodInv(B, IPs)
<1>1. \A ip \in IPs : Cardinality(Behind(ip)) = 0
  BY FS_EmptySet DEF Behind
<1>2. MapWithinTraffic(B)
  BY <1>1 DEF MapWithinTraffic, TypeOK
<1> QED
  BY <1>2 DEF FloodInv, LocalWithinTraffic, BanOverThreshold, BansEarned,
     Carrying, TypeOK

(* EarnedInv passes to a step that leaves base and carried alone and the   *)
(* monitor where the same parts of EarnedInv apply.                        *)
LEMMA EarnedKept ==
  ASSUME MonitorTypeOK, EarnedInv, TypeOK', UNCHANGED <<base, carried>>,
         \A ip \in IPs : received'[ip] >= received[ip],
         \A B \in [IPs -> Nat], old \in {IPs, {}} :
            FloodInv(B, old) => FloodInv(B, old)',
         monitor' \in FloodCleared => monitor \in FloodCleared,
         monitor' \in BansCleared => monitor \in BansCleared
  PROVE  EarnedInv'
<1>1. PICK B \in [IPs -> Nat] : B = Base
  BY DEF MonitorTypeOK, Base
<1>2. B = Base'
  BY <1>1 DEF Base
<1>3. \A ip \in IPs : base'[ip] <= received'[ip]
  BY DEF EarnedInv, MonitorTypeOK, TypeOK
<1>4. ASSUME NEW old, FloodInv(B, old)' PROVE FloodInv(Base, old)'
  BY <1>2, <1>4 DEF FloodInv, MapWithinTraffic, LocalWithinTraffic, BansEarned
<1>5. ASSUME NEW old, FloodInv(Base, old) PROVE FloodInv(B, old)
  BY <1>1, <1>5
<1> QED
  BY <1>3, <1>4, <1>5 DEF EarnedInv

--------------------------------------------------------------------------------
LEMMA ClearEntryType == TypeOK /\ ClearEntry => TypeOK'
BY DEF ClearEntry, TypeOK, locals

LEMMA MonitorTypeStep == MonitorTypeOK /\ [MonitorNext]_allVars => MonitorTypeOK'
<1> SUFFICES ASSUME MonitorTypeOK, [MonitorNext]_allVars PROVE MonitorTypeOK'
  OBVIOUS
<1> USE DEF MonitorTypeOK, Loop
<1>1. CASE Load
  BY <1>1, Phases DEF Load, vars, maps, locals, reading, history, TypeOK
<1>2. CASE AttachXdp
  BY <1>2, Phases DEF AttachXdp, ClearPhases, vars, maps, locals, reading, history, TypeOK
<1>3. CASE ClearEntry
  <2>1. TypeOK'
    BY <1>3, ClearEntryType
  <2> QED
    BY <1>3, <2>1 DEF ClearEntry, monitorVars, files, reading, history
<1>4. CASE NextMap
  <2>1. TypeOK'
    BY <1>4 DEF NextMap, TypeOK, vars, maps, locals
  <2>2. base' \in [IPs \cup {NotIP} -> Nat]
    BY <1>4 DEF NextMap, TypeOK
  <2> QED
    BY <1>4, <2>1, <2>2, PhaseOrder, Phases DEF NextMap, files
<1>5. CASE ClearPps
  BY <1>5, Phases DEF ClearPps, Zero, vars, maps, locals, files, reading, history, TypeOK
<1>6. CASE Wake
  BY <1>6, Phases DEF Wake, vars, maps, locals, files, history, TypeOK
<1>7. CASE ReadCounter
  BY <1>7, Phases DEF ReadCounter, vars, maps, locals, files, history, TypeOK
<1>8. CASE DelCounter
  BY <1>8, Phases DEF DelCounter, Zero, vars, maps, locals, files, history, TypeOK
<1>9. CASE WriteRow
  BY <1>9, Phases DEF WriteRow, vars, maps, locals, files, history, TypeOK
<1>10. CASE Interrupt \/ Detach \/ CloseAndExit
  BY <1>10, Phases DEF Interrupt, Detach, CloseAndExit, vars, maps, locals, files,
     reading, history, TypeOK
<1>11. CASE XdpStep
  <2>1. TypeOK'
    BY <1>11, XdpStepIsNext, TypeStep
  <2>2. lost' \in Nat
    BY <1>11 DEF XdpStep, Arrive, monitorVars, reading, history
  <2> QED
    BY <1>11, <2>1, <2>2, XdpStepIsNext DEF files
<1>12. CASE UNCHANGED allVars
  BY <1>12 DEF allVars, monitorVars, vars, maps, locals, files, reading, history, TypeOK
<1> QED
  BY <1>1, <1>2, <1>3, <1>4, <1>5, <1>6, <1>7, <1>8, <1>9, <1>10, <1>11, <1>12
  DEF MonitorNext, MonitorStep, Over

LEMMA FilesStep == FilesInv /\ [MonitorNext]_allVars => FilesInv'
<1> SUFFICES ASSUME FilesInv, [MonitorNext]_allVars PROVE FilesInv'
  OBVIOUS
<1> USE DEF FilesInv, files
<1>1. CASE Load \/ AttachXdp
  BY <1>1 DEF Load, AttachXdp, ClearPhases
<1>2. CASE ClearEntry
  BY <1>2 DEF ClearEntry, monitorVars
<1>3. CASE NextMap
  BY <1>3, PhaseOrder DEF NextMap
<1>4. CASE ClearPps \/ Wake \/ ReadCounter \/ DelCounter \/ WriteRow
  BY <1>4 DEF ClearPps, Zero, Wake, ReadCounter, DelCounter, WriteRow
<1>5. CASE Interrupt
  BY <1>5 DEF Interrupt
<1>6. CASE Detach
  <2>1. attached' = (attached /\ ~ loaded) /\ monitor' = "close"
    BY <1>6 DEF Detach
  <2>2. ~ attached'
    BY <2>1
  <2> QED
    BY <2>1, <2>2
<1>9. CASE CloseAndExit
  BY <1>9 DEF CloseAndExit
<1>7. CASE XdpStep
  BY <1>7, XdpStepIsNext
<1>8. CASE UNCHANGED allVars
  BY <1>8 DEF allVars, monitorVars
<1> HIDE DEF FilesInv, files
<1> QED
  BY <1>1, <1>2, <1>3, <1>4, <1>5, <1>6, <1>7, <1>8, <1>9 DEF MonitorNext, MonitorStep, Over

LEMMA EarnedStep ==
  MonitorTypeOK /\ EarnedInv /\ [MonitorNext]_allVars => EarnedInv'
<1> SUFFICES ASSUME MonitorTypeOK, EarnedInv, [MonitorNext]_allVars PROVE EarnedInv'
  OBVIOUS
<1> USE DEF FloodCleared, BansCleared, Loop
<1>1. TypeOK /\ TypeOK' /\ \A ip \in IPs : received[ip] \in Nat
  BY MonitorTypeStep DEF MonitorTypeOK, TypeOK
(* Steps of the monitor that leave the counts alone and add no ban.        *)
<1>2. ASSUME UNCHANGED <<ip_flood_count_map, pc, src_ip, new_flood_count, received,
                          base, carried>>,
             ip_blacklist_map' \subseteq ip_blacklist_map,
             monitor' \in FloodCleared => monitor \in FloodCleared,
             monitor' \in BansCleared => monitor \in BansCleared
      PROVE  EarnedInv'
  BY <1>1, <1>2, FloodKept, EarnedKept
<1>3. CASE Load \/ AttachXdp
  BY <1>2, <1>3 DEF Load, AttachXdp, ClearPhases, vars, maps, locals, reading, history
<1>4. CASE ClearEntry
  <2>1. CASE monitor = "clear_flood"
    BY <1>1, <1>4, <2>1 DEF ClearEntry, monitorVars, reading, history, EarnedInv
  <2>2. CASE monitor # "clear_flood"
    BY <1>2, <1>4, <2>2 DEF ClearEntry, monitorVars, reading, history, locals
  <2> QED
    BY <2>1, <2>2
<1>5. CASE NextMap
  <2>2. UNCHANGED vars
    BY <1>5 DEF NextMap
  <2>3. CASE monitor = "clear_count"
    BY <1>1, <1>5, <2>2, <2>3, PhaseOrder DEF NextMap, EarnedInv, vars
  <2>4. CASE monitor = "clear_flood"
    <3>1. /\ base' = base /\ received' = received
          /\ monitor' = "clear_timestamp"
          /\ carried' = \E c \in CPUs : pc[c] # "idle"
          /\ \A ip \in IPs : ip_flood_count_map[ip] = 0
      BY <1>5, <2>2, <2>4, PhaseOrder DEF NextMap, ClearedMap, vars
    <3>2. PICK B \in [IPs -> Nat] : B = Base
      BY DEF MonitorTypeOK, Base
    <3>3. ASSUME ~ carried' PROVE FloodInv(B, IPs)
      <4>1. \A c \in CPUs : pc[c] = "idle"
        BY <3>1, <3>3
      <4>2. \A ip \in IPs : B[ip] <= received[ip]
        BY <3>2 DEF EarnedInv, Base
      <4> QED
        BY <1>1, <3>1, <4>1, <4>2, FloodFresh
    <3>4. ASSUME ~ carried' PROVE FloodInv(B, IPs)'
      BY <1>1, <2>2, <3>3, <3>4, FloodKept DEF vars, maps, locals
    <3>5. B = Base'
      BY <3>1, <3>2 DEF Base
    <3>6. ASSUME ~ carried' PROVE FloodInv(Base, IPs)'
      BY <3>4, <3>5, <3>6 DEF FloodInv, MapWithinTraffic, LocalWithinTraffic, BansEarned
    <3> QED
      BY <3>1, <3>6 DEF EarnedInv
  <2>5. CASE monitor = "clear_blacklist"
    <3>1. /\ base' = base /\ carried' = carried /\ received' = received
          /\ monitor' = "clear_port" /\ ip_blacklist_map = {}
      BY <1>5, <2>2, <2>5, PhaseOrder DEF NextMap, ClearedMap, vars
    <3>2. PICK B \in [IPs -> Nat] : B = Base
      BY DEF MonitorTypeOK, Base
    <3>3. ASSUME ~ carried PROVE FloodInv(B, IPs) /\ FloodInv(B, {})
      BY <2>5, <3>1, <3>2, <3>3 DEF EarnedInv, FloodInv, BansEarned
    <3>4. ASSUME ~ carried PROVE FloodInv(B, IPs)' /\ FloodInv(B, {})'
      BY <1>1, <2>2, <3>3, <3>4, FloodKept DEF vars, maps, locals
    <3>5. B = Base'
      BY <3>1, <3>2 DEF Base
    <3>6. ASSUME ~ carried PROVE FloodInv(Base, IPs)' /\ FloodInv(Base, {})'
      BY <3>4, <3>5, <3>6 DEF FloodInv, MapWithinTraffic, LocalWithinTraffic, BansEarned
    <3> QED
      BY <3>1, <3>6 DEF EarnedInv
  <2>6. CASE monitor \in {"clear_timestamp", "clear_port"}
    BY <1>2, <1>5, <2>2, <2>6, PhaseOrder DEF NextMap, vars, maps, locals
  <2> QED
    BY <1>5, <2>3, <2>4, <2>5, <2>6, PhaseOrder
<1>6. CASE ClearPps \/ Wake \/ ReadCounter \/ DelCounter \/ WriteRow
  BY <1>2, <1>6 DEF ClearPps, Zero, Wake, ReadCounter, DelCounter, WriteRow,
     vars, maps, locals, reading, history
<1>7. CASE Interrupt \/ Detach \/ CloseAndExit
  BY <1>2, <1>7 DEF Interrupt, Detach, CloseAndExit, vars, maps, locals, reading, history
<1>8. CASE XdpStep
  BY <1>1, <1>8, XdpStepIsNext, ReceivedGrows, FloodStep, EarnedKept
<1>9. CASE UNCHANGED allVars
  BY <1>2, <1>9 DEF allVars, monitorVars, vars, maps, locals, reading, history
<1> QED
  BY <1>3, <1>4, <1>5, <1>6, <1>7, <1>8, <1>9 DEF MonitorNext, MonitorStep, Over

LEMMA StepMonitorInv == MonitorInv /\ [MonitorNext]_allVars => MonitorInv'
BY MonitorTypeStep, FilesStep, EarnedStep DEF MonitorInv

(* Every variable of the monitor holds a value of its type, whatever the   *)
(* program and a signal do to it.                                          *)
THEOREM MonitorTypeCorrect == MonitorSpec => []MonitorTypeOK
<1>1. MonitorInv => MonitorTypeOK
  BY DEF MonitorInv
<1> QED
  BY <1>1, InitMonitorInv, StepMonitorInv, PTL DEF MonitorSpec

(* When the process is gone the program is off the interface and the log   *)
(* is closed, wherever the signal found it.                                *)
THEOREM ExitIsClean == MonitorSpec => []CleanExit
<1>1. MonitorInv => CleanExit
  BY DEF MonitorInv, FilesInv, CleanExit
<1> QED
  BY <1>1, InitMonitorInv, StepMonitorInv, PTL DEF MonitorSpec

(* Unless a frame was in the program when the flood counts had been        *)
(* cleared, a ban found while measuring is due to packets that arrived     *)
(* after the clearing of those counts began.                               *)
THEOREM BansAreFresh == MonitorSpec => []BanEarnedSinceClear
<1>1. MonitorInv => BanEarnedSinceClear
  <2> SUFFICES ASSUME MonitorInv, monitor \in Loop, ~ carried,
                      NEW ip \in ip_blacklist_map
               PROVE  received[ip] - base[ip] > MAX_PACKETS
    BY DEF BanEarnedSinceClear
  <2>1. TypeOK /\ FloodInv(Base, {})
    BY DEF MonitorInv, MonitorTypeOK, EarnedInv, BansCleared
  <2>2. /\ ip \in IPs /\ received[ip] \in Nat /\ base[ip] \in Nat
        /\ MAX_PACKETS \in Nat
    BY <2>1, FloodAssumption DEF TypeOK, MonitorInv, MonitorTypeOK
  <2>3. received[ip] > base[ip] + MAX_PACKETS
    BY <2>1, <2>2 DEF FloodInv, BansEarned, Base
  <2> QED
    BY <2>2, <2>3
<1> QED
  BY <1>1, InitMonitorInv, StepMonitorInv, PTL DEF MonitorSpec
--------------------------------------------------------------------------------
(* Once the process is being stopped, the books are closed.                *)
Stopping == {"cleanup", "close", "exited"}

(* The equation of FramesAccounted, which already holds before measuring.  *)
FramesBalance ==
  reported + discarded + lost + total + SumFunctionOnSet(pps, CPUs \ Stale)
    = SumFunction(received)

FramesInv ==
  /\ monitor \notin {"read", "del", "row"} \cup Stopping => total = 0
  /\ monitor \notin Stopping => FramesBalance

LEMMA InitFramesInv == MonitorInit => FramesInv
<1> SUFFICES ASSUME MonitorInit PROVE FramesInv
  OBVIOUS
<1>1. IsFiniteSet(CPUs) /\ IsFiniteSet(DOMAIN received)
  BY FloodAssumption, FS_AddElement, FS_Union, FS_Singleton DEF MonitorInit, Init
<1>2. SumFunctionOnSet(received, DOMAIN received) = 0
  BY <1>1, SumZero DEF MonitorInit, Init
<1>3. SumFunctionOnSet(pps, CPUs) = 0
  BY <1>1, SumZero DEF MonitorInit, Init
<1>4. CPUs \ Stale = CPUs
  BY DEF Stale, MonitorInit
<1> QED
  BY <1>2, <1>3, <1>4 DEF FramesInv, FramesBalance, SumFunction, MonitorInit

LEMMA PpsSums ==
  ASSUME TypeOK
  PROVE  /\ IsFiniteSet(CPUs)
         /\ \A S \in SUBSET CPUs : IsFiniteSet(S) /\ SumFunctionOnSet(pps, S) \in Nat
BY FloodAssumption, FS_Subset, SumType DEF TypeOK

(* A frame adds one to the slot of its CPU and to the frames received.     *)
LEMMA FrameCounted ==
  ASSUME TypeOK, NEW c \in CPUs, NEW k \in IPs \cup {NotIP}, CountFrame(c, k)
  PROVE  /\ SumFunction(received)' = SumFunction(received) + 1
         /\ \A S \in SUBSET CPUs :
              SumFunctionOnSet(pps, S)'
                = SumFunctionOnSet(pps, S) + (IF c \in S THEN 1 ELSE 0)
<1> DEFINE K == IPs \cup {NotIP}
<1>1. IsFiniteSet(K) /\ IsFiniteSet(CPUs)
  BY FloodAssumption, FS_Union, FS_Singleton
<1>2. /\ received \in [K -> Nat] /\ received' \in [K -> Nat]
      /\ received'[k] = received[k] + 1 /\ received[k] \in Nat
      /\ \A y \in K \ {k} : received'[y] = received[y]
  BY DEF TypeOK, CountFrame
<1>3. /\ pps \in [CPUs -> Nat] /\ pps' \in [CPUs -> Nat]
      /\ pps'[c] = pps[c] + 1 /\ pps[c] \in Nat
      /\ \A y \in CPUs \ {c} : pps'[y] = pps[y]
  BY DEF TypeOK, CountFrame
<1> HIDE DEF K
<1>4. k \in K
  BY DEF K
<1>5. /\ SumFunctionOnSet(received, K) \in Nat /\ SumFunctionOnSet(received', K) \in Nat
      /\ SumFunctionOnSet(received', K) + received[k]
           = SumFunctionOnSet(received, K) + received'[k]
  BY <1>1, <1>2, <1>4, SumChange
<1>6. SumFunctionOnSet(received', K) = SumFunctionOnSet(received, K) + 1
  BY <1>2, <1>5
<1>7. ASSUME NEW S \in SUBSET CPUs
      PROVE  SumFunctionOnSet(pps', S)
               = SumFunctionOnSet(pps, S) + (IF c \in S THEN 1 ELSE 0)
  <2>1. SumFunctionOnSet(pps, S) \in Nat /\ SumFunctionOnSet(pps', S) \in Nat
    BY <1>1, <1>3, SumChange
  <2>2. CASE c \in S
    <3>1. SumFunctionOnSet(pps', S) + pps[c] = SumFunctionOnSet(pps, S) + pps'[c]
      BY <1>1, <1>3, <2>2, SumChange
    <3> QED
      BY <1>3, <2>1, <2>2, <3>1
  <2>3. CASE c \notin S
    <3>1. IsFiniteSet(S) /\ \A y \in S : pps'[y] = pps[y]
      BY <1>1, <1>3, <2>3, FS_Subset
    <3> QED
      BY <2>1, <2>3, <3>1, SumSame
  <2> QED
    BY <2>2, <2>3
<1>8. DOMAIN received = K /\ DOMAIN received' = K
  BY <1>2
<1> QED
  BY <1>6, <1>7, <1>8 DEF SumFunction

(* Steps that touch none of the amounts.                                   *)
LEMMA FramesKept ==
  ASSUME FramesInv, UNCHANGED <<reported, discarded, lost, total, pps, received>>,
         monitor' \notin Stopping => monitor \notin Stopping,
         monitor' \notin Stopping => CPUs \ Stale' = CPUs \ Stale,
         monitor' \notin {"read", "del", "row"} \cup Stopping
           => monitor \notin {"read", "del", "row"} \cup Stopping
  PROVE  FramesInv'
BY DEF FramesInv, FramesBalance, SumFunction

LEMMA FramesStep ==
  MonitorTypeOK /\ FramesInv /\ [MonitorNext]_allVars => FramesInv'
<1> SUFFICES ASSUME MonitorTypeOK, FramesInv, [MonitorNext]_allVars PROVE FramesInv'
  OBVIOUS
<1>1. /\ TypeOK /\ pps \in [CPUs -> Nat] /\ scan \subseteq CPUs
      /\ total \in Nat /\ reported \in Nat /\ discarded \in Nat /\ lost \in Nat
  BY DEF MonitorTypeOK, TypeOK
<1>2. \A S \in SUBSET CPUs : IsFiniteSet(S) /\ SumFunctionOnSet(pps, S) \in Nat
  BY <1>1, PpsSums
<1> USE DEF Stopping
<1>3. CASE Load \/ AttachXdp
  BY <1>3, FramesKept DEF Load, AttachXdp, Stale, ClearPhases, vars, reading, history
<1>4. CASE ClearEntry
  BY <1>4, FramesKept DEF ClearEntry, monitorVars, reading, history, Stale
<1>5. CASE NextMap
  BY <1>5, PhaseOrder, FramesKept DEF NextMap, Stale, vars
<1>6. CASE ClearPps
  <2>1. CASE scan = {} /\ monitor' = "sleep" /\ UNCHANGED <<vars, files, reading>>
    BY <1>6, <2>1, FramesKept DEF ClearPps, Stale, vars, reading, history
  <2>2. ASSUME NEW c \in CPUs, Zero(c), discarded' = discarded + pps[c], UNCHANGED monitor
        PROVE  FramesInv'
    <3>1. /\ monitor = "clear_pps"
          /\ pps' \in [CPUs -> Nat] /\ pps'[c] = 0
          /\ \A d \in CPUs \ {c} : pps'[d] = pps[d]
          /\ UNCHANGED <<reported, lost, total, received>>
          /\ CPUs \ Stale = CPUs /\ CPUs \ Stale' = CPUs
      BY <1>1, <1>6, <2>2 DEF ClearPps, Zero, Stale, history
    <3>2. SumFunctionOnSet(pps', CPUs) + pps[c] = SumFunctionOnSet(pps, CPUs) + pps'[c]
      BY <1>1, <1>2, <3>1, SumChange
    <3>3. SumFunctionOnSet(pps', CPUs) \in Nat /\ pps[c] \in Nat
      BY <1>1, <1>2, <3>1, SumChange
    <3>4. SumFunction(received)' = SumFunction(received)
      BY <3>1 DEF SumFunction
    <3>5. SumFunctionOnSet(pps, CPUs) \in Nat
      BY <1>2
    <3>6. reported + discarded + lost + total + SumFunctionOnSet(pps, CPUs)
            = SumFunction(received)
      BY <3>1 DEF FramesInv, FramesBalance
    <3>7. reported' + discarded' + lost' + total' + SumFunctionOnSet(pps', CPUs)
            = SumFunction(received)
      BY <1>1, <2>2, <3>1, <3>2, <3>3, <3>5, <3>6
    <3>8. FramesBalance'
      BY <3>1, <3>4, <3>7 DEF FramesBalance
    <3> QED
      BY <2>2, <3>1, <3>8 DEF FramesInv
  <2> QED
    BY <1>6, <2>1, <2>2 DEF ClearPps
<1>7. CASE Wake
  <2>1. total = 0 /\ CPUs \ Stale = CPUs /\ CPUs \ Stale' = CPUs
    BY <1>7 DEF Wake, FramesInv, Stale
  <2> QED
    BY <1>7, <2>1 DEF Wake, FramesInv, FramesBalance, SumFunction, vars, history
<1>8. CASE ReadCounter
  <2>1. CASE scan = {}
    BY <1>8, <2>1, FramesKept DEF ReadCounter, Stale, vars, history
  <2>2. ASSUME NEW c \in scan, scan' = scan \ {c}, total' = total + pps[c], UNCHANGED monitor
        PROVE  FramesInv'
    <3>1. /\ monitor = "read" /\ CPUs \ Stale = scan /\ CPUs \ Stale' = scan \ {c}
          /\ UNCHANGED <<reported, discarded, lost, pps, received>>
      BY <1>1, <1>8, <2>2 DEF ReadCounter, Stale, vars, history
    <3>2. SumFunctionOnSet(pps, scan) = pps[c] + SumFunctionOnSet(pps, scan \ {c})
      <4>1. IsFiniteSet(scan) /\ \A y \in scan : pps[y] \in Nat
        BY <1>1, <1>2
      <4> QED
        BY <4>1, SumSplit
    <3>3. pps[c] \in Nat /\ SumFunctionOnSet(pps, scan \ {c}) \in Nat
      BY <1>1, <1>2
    <3>4. SumFunction(received)' = SumFunction(received)
      BY <3>1 DEF SumFunction
    <3>5. FramesBalance'
      BY <1>1, <2>2, <3>1, <3>2, <3>3, <3>4 DEF FramesInv, FramesBalance
    <3> QED
      BY <2>2, <3>1, <3>5 DEF FramesInv
  <2> QED
    BY <1>8, <2>1, <2>2 DEF ReadCounter
<1>9. CASE DelCounter
  <2>1. CASE scan = {} /\ monitor' = "row"
    BY <1>9, <2>1, FramesKept DEF DelCounter, Zero, Stale, vars, reading, history
  <2>2. ASSUME NEW c \in CPUs, Zero(c), UNCHANGED monitor PROVE FramesInv'
    <3>1. /\ monitor = "del" /\ c \in scan /\ scan' = scan \ {c}
          /\ CPUs \ Stale = CPUs \ scan
          /\ CPUs \ Stale' = (CPUs \ scan) \cup {c}
          /\ pps' \in [CPUs -> Nat] /\ pps'[c] = 0
          /\ \A d \in CPUs \ {c} : pps'[d] = pps[d]
          /\ UNCHANGED <<reported, discarded, lost, total, received>>
      BY <1>1, <1>9, <2>2 DEF DelCounter, Zero, Stale, history
    <3>2. SumFunctionOnSet(pps', (CPUs \ scan) \cup {c}) = SumFunctionOnSet(pps, CPUs \ scan)
      BY <1>1, <1>2, <3>1, SumChange
    <3> QED
      BY <2>2, <3>1, <3>2 DEF FramesInv, FramesBalance, SumFunction
  <2> QED
    BY <1>9, <2>1, <2>2 DEF DelCounter
<1>10. CASE WriteRow
  <2>1. CPUs \ Stale = CPUs /\ CPUs \ Stale' = CPUs
    BY <1>10 DEF WriteRow, Stale
  <2> QED
    BY <1>1, <1>2, <1>10, <2>1 DEF WriteRow, FramesInv, FramesBalance, SumFunction, vars, history
<1>11. CASE Interrupt \/ Detach \/ CloseAndExit
  BY <1>11 DEF Interrupt, Detach, CloseAndExit, FramesInv
<1>12. CASE XdpStep
  <2>1. CASE \E c \in CPUs : Arrive(c)
    <3>1. PICK c \in CPUs : Arrive(c)
      BY <2>1
    <3>2. PICK k \in IPs \cup {NotIP} : CountFrame(c, k)
      BY <3>1 DEF Arrive, Receive, CountOnly, ReceiveOther
    <3>3. /\ UNCHANGED <<monitor, total, reported, discarded>>
          /\ Stale' = Stale
          /\ lost' = IF c \in Stale THEN lost + 1 ELSE lost
      BY <3>1 DEF Arrive, Stale
    <3>4. /\ SumFunction(received)' = SumFunction(received) + 1
          /\ SumFunctionOnSet(pps, CPUs \ Stale)'
               = SumFunctionOnSet(pps, CPUs \ Stale) + (IF c \in Stale THEN 0 ELSE 1)
      BY <1>1, <3>2, <3>3, FrameCounted
    <3>5. SumFunctionOnSet(pps, CPUs \ Stale) \in Nat
      BY <1>2
    <3> QED
      BY <1>1, <3>3, <3>4, <3>5 DEF FramesInv, FramesBalance
  <2>2. CASE /\ (\E c \in CPUs : Run(c)) \/ Tick \/ (\E p \in Ports : BlockPort(p))
             /\ UNCHANGED monitorVars
    <3>1. UNCHANGED <<pps, received>>
      BY <2>2 DEF Run, CheckBlacklist, ReadCount, WriteCount, ReadFlood, WriteFlood,
         ReadClock, LookupTimestamp, Ban, ResetFlood, WriteTimestamp, CheckPort,
         Tick, BlockPort
    <3> QED
      BY <2>2, <3>1, FramesKept DEF monitorVars, reading, history, Stale
  <2> QED
    BY <1>12, <2>1, <2>2 DEF XdpStep
<1>13. CASE UNCHANGED allVars
  BY <1>13, FramesKept DEF allVars, monitorVars, vars, reading, history, Stale
<1> QED
  BY <1>3, <1>4, <1>5, <1>6, <1>7, <1>8, <1>9, <1>10, <1>11, <1>12, <1>13
  DEF MonitorNext, MonitorStep, Over

(* The rows, the reading in progress and the slots not read yet hold every *)
(* frame, less those clear_maps threw away and those counted between the   *)
(* read of a slot and its zeroing: no frame is in two rows.                *)
THEOREM NoFrameTwice == MonitorSpec => []FramesAccounted
<1>1. FramesInv => FramesAccounted
  BY DEF FramesInv, FramesBalance, FramesAccounted, Loop, Stopping
<1>2. MonitorInv /\ FramesInv /\ [MonitorNext]_allVars => MonitorInv' /\ FramesInv'
  BY StepMonitorInv, FramesStep DEF MonitorInv
<1> QED
  BY <1>1, <1>2, InitMonitorInv, InitFramesInv, PTL DEF MonitorSpec
--------------------------------------------------------------------------------
(* Where the monitor is before it has read anything for the next row.      *)
Unread ==
  {ClearPhases[i] : i \in 1 .. 6} \cup {"load", "attach", "clear_latency", "sleep"}

(* Nothing of key 0 is in a row that has not been begun.                   *)
ReadInv ==
  /\ total \in Nat
  /\ monitor \in Unread => sum_read = 0

(* A CPU's latencies fit in the time before the frame it holds came in,    *)
(* and what that frame took in the time since.                             *)
BusyInv ==
  /\ clock >= 1
  /\ busy \in [CPUs -> Nat]
  /\ \A c \in CPUs :
       /\ busy[c] <= clock - 1
       /\ start[c] <= clock
       /\ pc[c] # "idle" \/ tail[c] \in {"end", "sum"} => busy[c] + 1 <= start[c]
       /\ tail[c] = "sum" => start[c] + latency[c] <= clock

LatencyInv == LatencyTypeOK /\ ReadInv /\ BusyInv
--------------------------------------------------------------------------------
(* A step inside the filter moves that CPU alone.                          *)
LEMMA RunMoves ==
  ASSUME TypeOK, NEW c \in CPUs, Run(c)
  PROVE  /\ pc[c] # "idle" /\ clock' = clock
         /\ \A d \in CPUs \ {c} : pc'[d] = pc[d]
BY DEF TypeOK, Run, CheckBlacklist, ReadCount, WriteCount, ReadFlood, WriteFlood,
   ReadClock, LookupTimestamp, Ban, ResetFlood, WriteTimestamp, CheckPort,
   ReturnDrop, ReturnPass, Return, Goto

LEMMA ProbeIsNext == ProbeStep => [Next]_vars
BY DEF ProbeStep, EnterIPv4, EnterOther, CountOnly, RunFilter, Measure, ReadEnd,
   AddSum, AddCount, Add, Next

LEMMA InitLatencyInv == LatencyInit => LatencyInv
<1> SUFFICES ASSUME LatencyInit PROVE LatencyInv
  OBVIOUS
<1>1. TypeOK
  BY TypeInit DEF LatencyInit, MonitorInit
<1> QED
  BY <1>1 DEF LatencyInit, MonitorInit, Init, LatencyInv, LatencyTypeOK, ReadInv,
     BusyInv, Loop

(* What no step of the monitor touches keeps its types and its bounds.     *)
LEMMA ProbeKept ==
  ASSUME LatencyInv, TypeOK', UNCHANGED <<pc, clock, tail, start, latency, busy>>
  PROVE  /\ BusyInv'
         /\ start' \in [CPUs -> Nat] /\ latency' \in [CPUs -> Nat]
         /\ tail' \in [CPUs -> {"none", "end", "sum", "count"}]
         /\ \A c \in CPUs : tail'[c] # "none" => pc'[c] = "idle"
BY DEF LatencyInv, LatencyTypeOK, BusyInv

LEMMA MonitorHalf ==
  ASSUME LatencyInv,
         \/ StartUp \/ ClearPpsMap \/ WakeUp \/ ReadItems \/ ClearLatency
         \/ Write \/ CleanUp \/ Ended
  PROVE  LatencyInv'
<1>1. TypeOK /\ TypeOK'
  <2>1. TypeOK
    BY DEF LatencyInv, LatencyTypeOK
  <2>2. CASE StartUp
    BY <2>1, <2>2, ClearEntryType DEF StartUp, Load, AttachXdp, NextMap, TypeOK,
       vars, maps, locals
  <2>3. CASE ClearPpsMap
    BY <2>1, <2>3 DEF ClearPpsMap, Zero, TypeOK, vars, maps, locals
  <2>4. CASE WakeUp \/ ReadItems \/ ClearLatency \/ Write
    BY <2>1, <2>4 DEF WakeUp, Wake, ReadItems, ClearLatency, Write, WriteRow, TypeOK,
       vars, maps, locals
  <2>5. CASE CleanUp \/ Ended
    BY <2>1, <2>5 DEF CleanUp, Interrupt, Detach, CloseAndExit, Ended, Over, allVars,
       TypeOK, vars, maps, locals
  <2> QED
    BY <2>1, <2>2, <2>3, <2>4, <2>5
<1>2. UNCHANGED <<pc, clock, tail, start, latency, busy>>
  BY DEF StartUp, Load, AttachXdp, ClearEntry, NextMap, ClearPpsMap, Zero, WakeUp,
     Wake, ReadItems, ClearLatency, Write, WriteRow, CleanUp, Interrupt, Detach,
     CloseAndExit, Ended, Over, allVars, vars, probe
<1> USE DEF LatencyInv, LatencyTypeOK, ReadInv, Loop, Unread
<1>3. CASE StartUp
  <2>1. /\ UNCHANGED <<total, sum_read, visit, latency_map>>
    BY <1>3 DEF StartUp, Load, AttachXdp, ClearEntry, NextMap, monitorVars, reading,
       probe, sampling
  <2>2. /\ monitor \in Unread
        /\ monitor' \in {ClearPhases[i] : i \in 1 .. 6} \cup {"attach"}
    BY <1>3, Phases, PhaseOrder DEF StartUp, Load, AttachXdp, ClearEntry, ClearPhases,
       monitorVars
  <2> QED
    BY <1>1, <1>2, <2>1, <2>2, ProbeKept
<1>4. CASE ClearPpsMap
  BY <1>1, <1>2, <1>4, ProbeKept, Phases DEF ClearPpsMap, Zero, reading, probe
<1>5. CASE WakeUp
  BY <1>1, <1>2, <1>5, ProbeKept, Phases DEF WakeUp, Wake, probe
<1>6. CASE ReadItems
  BY <1>1, <1>2, <1>6, ProbeKept, Phases DEF ReadItems, Visit, probe
<1>7. CASE ClearLatency
  BY <1>1, <1>2, <1>7, ProbeKept, Phases DEF ClearLatency, Visit
<1>8. CASE Write
  BY <1>1, <1>2, <1>8, ProbeKept, Phases DEF Write, WriteRow, probe
<1>9. CASE CleanUp
  BY <1>1, <1>2, <1>9, ProbeKept, Phases DEF CleanUp, Interrupt, Detach, CloseAndExit,
     reading, probe, sampling
<1>10. CASE Ended
  BY <1>1, <1>2, <1>10, ProbeKept, Phases DEF Ended, Over, allVars, monitorVars, reading,
     probe, sampling
<1> QED
  BY <1>3, <1>4, <1>5, <1>6, <1>7, <1>8, <1>9, <1>10

(* A step of a CPU of the probe, by what it writes.                        *)
LEMMA EnterStep ==
  ASSUME LatencyInv, NEW c \in CPUs, EnterIPv4(c) \/ EnterOther(c)
  PROVE  BusyInv'
<1>1. /\ TypeOK /\ BusyInv /\ start \in [CPUs -> Nat] /\ latency \in [CPUs -> Nat]
      /\ tail \in [CPUs -> {"none", "end", "sum", "count"}]
  BY DEF LatencyInv, LatencyTypeOK
<1>2. /\ tail[c] = "none" /\ start' = [start EXCEPT ![c] = clock]
      /\ clock' = clock /\ UNCHANGED <<latency, busy>>
      /\ \A d \in CPUs \ {c} : pc'[d] = pc[d] /\ tail'[d] = tail[d]
      /\ tail'[c] \in {"none", "end"}
  BY <1>1 DEF EnterIPv4, EnterOther, Stamp, Receive, CountOnly, ReceiveOther,
     CountFrame, Goto, TypeOK
<1> QED
  BY <1>1, <1>2 DEF BusyInv, TypeOK

LEMMA FilterStep ==
  ASSUME LatencyInv, NEW c \in CPUs, RunFilter(c)
  PROVE  BusyInv'
<1>1. /\ TypeOK /\ BusyInv /\ start \in [CPUs -> Nat] /\ latency \in [CPUs -> Nat]
      /\ tail \in [CPUs -> {"none", "end", "sum", "count"}]
      /\ \A d \in CPUs : tail[d] # "none" => pc[d] = "idle"
  BY DEF LatencyInv, LatencyTypeOK
<1>2. /\ pc[c] # "idle" /\ clock' = clock
      /\ \A d \in CPUs \ {c} : pc'[d] = pc[d]
      /\ \A d \in CPUs \ {c} : tail'[d] = tail[d]
      /\ tail'[c] \in {"none", "end"}
      /\ UNCHANGED <<start, latency, busy>>
  BY <1>1, RunMoves DEF RunFilter
<1> QED
  BY <1>1, <1>2 DEF BusyInv

LEMMA MeasureStep ==
  ASSUME LatencyInv, NEW c \in CPUs, Measure(c)
  PROVE  BusyInv' /\ latency' \in [CPUs -> Nat]
<1>1. /\ TypeOK /\ BusyInv /\ start \in [CPUs -> Nat] /\ latency \in [CPUs -> Nat]
      /\ tail \in [CPUs -> {"none", "end", "sum", "count"}]
      /\ \A d \in CPUs : tail[d] # "none" => pc[d] = "idle"
      /\ clock \in Nat
  BY DEF LatencyInv, LatencyTypeOK, TypeOK
<1>2. CASE ReadEnd(c)
  <2>1. UNCHANGED <<pc, clock, busy, start>>
    BY <1>2 DEF ReadEnd, vars
  <2>2. clock - start[c] \in Nat
    BY <1>1 DEF BusyInv
  <2> QED
    BY <1>1, <1>2, <2>1, <2>2 DEF ReadEnd, BusyInv
<1>3. CASE AddSum(c)
  BY <1>1, <1>3 DEF AddSum, Add, BusyInv, vars
<1>4. CASE AddCount(c)
  BY <1>1, <1>4 DEF AddCount, Add, BusyInv, vars
<1> QED
  BY <1>2, <1>3, <1>4 DEF Measure

LEMMA AddType ==
  ASSUME latency_map \in [Slots -> Nat], NEW slot \in Slots, NEW v \in Nat,
         Add(slot, v)
  PROVE  latency_map' \in [Slots -> Nat]
<1>1. latency_map' = [latency_map EXCEPT ![slot] = latency_map[slot] + v]
  BY DEF Add
<1>2. latency_map[slot] + v \in Nat
  OBVIOUS
<1> QED
  BY <1>1, <1>2

LEMMA ProbeHalf == ASSUME LatencyInv, ProbeStep PROVE LatencyInv'
<1>1. TypeOK /\ TypeOK'
  BY ProbeIsNext, TypeStep DEF LatencyInv, LatencyTypeOK
<1>2. ReadInv' /\ UNCHANGED <<monitor, visit, sum_read>> /\ sum_read' \in 0 .. total'
  BY DEF ProbeStep, monitorVars, reading, sampling, LatencyInv, LatencyTypeOK, ReadInv
<1> SUFFICES /\ latency_map' \in [Slots -> Nat]
             /\ start' \in [CPUs -> Nat] /\ latency' \in [CPUs -> Nat]
             /\ tail' \in [CPUs -> {"none", "end", "sum", "count"}]
             /\ \A c \in CPUs : tail'[c] # "none" => pc'[c] = "idle"
             /\ BusyInv'
  BY <1>1, <1>2 DEF LatencyInv, LatencyTypeOK
<1>3. /\ latency_map \in [Slots -> Nat]
      /\ start \in [CPUs -> Nat] /\ latency \in [CPUs -> Nat]
      /\ tail \in [CPUs -> {"none", "end", "sum", "count"}]
      /\ \A c \in CPUs : tail[c] # "none" => pc[c] = "idle"
  BY DEF LatencyInv, LatencyTypeOK
<1>4. clock \in Nat /\ pc \in [CPUs -> Labels]
  BY <1>1 DEF TypeOK
<1>5. CASE \E c \in CPUs : EnterIPv4(c)
  <2>1. PICK c \in CPUs : EnterIPv4(c)
    BY <1>5
  <2>2. BusyInv'
    BY <2>1, EnterStep
  <2> QED
    BY <1>3, <1>4, <2>1, <2>2 DEF EnterIPv4, Stamp, Receive, CountFrame, Goto
<1>6. CASE \E c \in CPUs : EnterOther(c)
  <2>1. PICK c \in CPUs : EnterOther(c)
    BY <1>6
  <2>2. BusyInv'
    BY <2>1, EnterStep
  <2> QED
    BY <1>3, <1>4, <2>1, <2>2 DEF EnterOther, Stamp, CountOnly, ReceiveOther, CountFrame
<1>7. CASE \E c \in CPUs : RunFilter(c)
  <2>1. PICK c \in CPUs : RunFilter(c)
    BY <1>7
  <2>2. BusyInv'
    BY <2>1, FilterStep
  <2>3. pc[c] # "idle" /\ \A d \in CPUs \ {c} : pc'[d] = pc[d]
    BY <1>1, <2>1, RunMoves DEF RunFilter
  <2> QED
    BY <1>3, <1>4, <2>1, <2>2, <2>3 DEF RunFilter
<1>8. CASE \E c \in CPUs : Measure(c)
  <2>1. PICK c \in CPUs : Measure(c)
    BY <1>8
  <2>2. BusyInv' /\ latency' \in [CPUs -> Nat]
    BY <2>1, MeasureStep
  <2>3. CASE ReadEnd(c)
    BY <1>3, <1>4, <2>2, <2>3 DEF ReadEnd, vars
  <2>4. CASE AddSum(c)
    <3>1. latency_map' \in [Slots -> Nat]
      BY <1>3, <2>4, AddType DEF AddSum, Slots
    <3> QED
      BY <1>3, <1>4, <2>2, <2>4, <3>1 DEF AddSum, Add, vars
  <2>5. CASE AddCount(c)
    <3>1. latency_map' \in [Slots -> Nat]
      BY <1>3, <2>5, AddType DEF AddCount, Slots
    <3> QED
      BY <1>3, <1>4, <2>2, <2>5, <3>1 DEF AddCount, Add, vars
  <2> QED
    BY <2>1, <2>3, <2>4, <2>5 DEF Measure
<1>9. CASE (Tick \/ \E p \in Ports : BlockPort(p)) /\ UNCHANGED probe
  <2>1. UNCHANGED <<pc, tail, start, latency, latency_map, busy>> /\ clock' \in {clock, clock + 1}
    BY <1>9 DEF Tick, BlockPort, probe
  <2> QED
    BY <1>3, <1>4, <2>1 DEF LatencyInv, BusyInv
<1> QED
  BY <1>5, <1>6, <1>7, <1>8, <1>9 DEF ProbeStep

LEMMA StepLatencyInv == LatencyInv /\ [LatencyNext]_latencyVars => LatencyInv'
<1> SUFFICES ASSUME LatencyInv, [LatencyNext]_latencyVars PROVE LatencyInv'
  OBVIOUS
<1>1. CASE UNCHANGED latencyVars
  BY <1>1 DEF latencyVars, allVars, vars, maps, locals, monitorVars, reading, probe,
     sampling, LatencyInv, LatencyTypeOK, ReadInv, BusyInv, TypeOK
<1> QED
  BY <1>1, ProbeHalf, MonitorHalf DEF LatencyNext

(* Every variable of the probe holds a value of its type, the part of the  *)
(* row that comes from key 0 is no more than the row, and a CPU is in the  *)
(* filter or in the measuring block, never in both.                        *)
THEOREM ProbeTypeCorrect == LatencySpec => []LatencyTypeOK
<1>1. LatencyInv => LatencyTypeOK
  BY DEF LatencyInv
<1> QED
  BY <1>1, InitLatencyInv, StepLatencyInv, PTL DEF LatencySpec

(* A CPU handles one frame at a time, so what it adds to key 0 with what   *)
(* the frame it holds has taken so far never exceeds the time gone by.     *)
THEOREM BusyIsBounded == LatencySpec => []BusyWithinTime
<1>1. LatencyInv => BusyWithinTime
  <2> SUFFICES ASSUME LatencyInv, NEW c \in CPUs
               PROVE  busy[c] + (IF c \in InFlight /\ tail[c] # "count"
                                 THEN clock - start[c] ELSE 0) <= clock - 1
    BY DEF BusyWithinTime
  <2>1. /\ busy[c] \in Nat /\ start[c] \in Nat /\ clock \in Nat
        /\ busy[c] <= clock - 1
        /\ tail[c] \in {"none", "end", "sum", "count"}
        /\ pc[c] # "idle" \/ tail[c] \in {"end", "sum"} => busy[c] + 1 <= start[c]
    BY DEF LatencyInv, LatencyTypeOK, TypeOK, BusyInv
  <2>2. c \in InFlight /\ tail[c] # "count"
          => pc[c] # "idle" \/ tail[c] \in {"end", "sum"}
    BY <2>1 DEF InFlight
  <2> QED
    BY <2>1, <2>2
<1> QED
  BY <1>1, InitLatencyInv, StepLatencyInv, PTL DEF LatencySpec
--------------------------------------------------------------------------------
(* Each frame is measured once: what is added to the invariant is only     *)
(* that measured counts.                                                   *)
MeasuredInv == measured \in [CPUs -> Nat] /\ EveryFrameMeasured

LEMMA InFlightFinite == IsFiniteSet(InFlight)
BY FloodAssumption, FS_Subset DEF InFlight

(* No step of the monitor touches what a CPU does with a frame.            *)
LEMMA MonitorLeavesFrames ==
  ASSUME \/ StartUp \/ ClearPpsMap \/ WakeUp \/ ReadItems \/ ClearLatency
         \/ Write \/ CleanUp \/ Ended
  PROVE  UNCHANGED <<pc, tail, received, measured, busy>>
BY DEF StartUp, Load, AttachXdp, ClearEntry, NextMap, ClearPpsMap, Zero, WakeUp,
   Wake, ReadItems, ClearLatency, Write, WriteRow, CleanUp, Interrupt, Detach,
   CloseAndExit, Ended, Over, allVars, vars, probe

LEMMA MeasuredKept ==
  ASSUME MeasuredInv, UNCHANGED <<pc, tail, received, measured>>
  PROVE  MeasuredInv'
BY DEF MeasuredInv, EveryFrameMeasured, InFlight, SumFunction

LEMMA InitMeasuredInv == LatencyInit => MeasuredInv
<1> SUFFICES ASSUME LatencyInit PROVE MeasuredInv
  OBVIOUS
<1>1. IsFiniteSet(CPUs) /\ IsFiniteSet(IPs \cup {NotIP})
  BY FloodAssumption, FS_Union, FS_Singleton
<1>2. /\ received = [k \in IPs \cup {NotIP} |-> 0]
      /\ measured = [c \in CPUs |-> 0]
      /\ InFlight = {}
  BY DEF LatencyInit, MonitorInit, Init, InFlight
<1>3. SumFunctionOnSet(received, DOMAIN received) = 0
  BY <1>1, <1>2, SumZero
<1>4. SumFunctionOnSet(measured, DOMAIN measured) = 0
  BY <1>1, <1>2, SumZero
<1> QED
  BY <1>2, <1>3, <1>4, FS_EmptySet DEF MeasuredInv, EveryFrameMeasured, SumFunction

(* The sums of a per-CPU history to which a CPU adds v.                    *)
LEMMA PerCpuSum ==
  ASSUME NEW f \in [CPUs -> Nat], NEW g \in [CPUs -> Nat], NEW c \in CPUs, NEW v \in Nat,
         g[c] = f[c] + v, \A d \in CPUs \ {c} : g[d] = f[d]
  PROVE  /\ SumFunction(f) \in Nat
         /\ SumFunction(g) = SumFunction(f) + v
<1>1. IsFiniteSet(CPUs)
  BY FloodAssumption
<1>2. DOMAIN f = CPUs /\ DOMAIN g = CPUs /\ f[c] \in Nat
  OBVIOUS
<1>3. /\ SumFunctionOnSet(f, CPUs) \in Nat /\ SumFunctionOnSet(g, CPUs) \in Nat
      /\ SumFunctionOnSet(g, CPUs) + f[c] = SumFunctionOnSet(f, CPUs) + g[c]
  BY <1>1, SumChange
<1> QED
  BY <1>2, <1>3 DEF SumFunction

LEMMA MeasuredStep ==
  LatencyInv /\ MeasuredInv /\ [LatencyNext]_latencyVars => MeasuredInv'
<1> SUFFICES ASSUME LatencyInv, MeasuredInv, [LatencyNext]_latencyVars PROVE MeasuredInv'
  OBVIOUS
<1>1. /\ TypeOK /\ pc \in [CPUs -> Labels]
      /\ tail \in [CPUs -> {"none", "end", "sum", "count"}]
      /\ \A c \in CPUs : tail[c] # "none" => pc[c] = "idle"
      /\ measured \in [CPUs -> Nat]
      /\ SumFunction(received) = SumFunction(measured) + Cardinality(InFlight)
  BY DEF LatencyInv, LatencyTypeOK, TypeOK, MeasuredInv, EveryFrameMeasured
<1>2. IsFiniteSet(InFlight) /\ Cardinality(InFlight) \in Nat
  BY InFlightFinite, FS_CardinalityType
<1>3. SumFunction(measured) \in Nat
  BY <1>1, FloodAssumption, SumType DEF SumFunction
(* A frame comes in.                                                       *)
<1>4. ASSUME NEW c \in CPUs, EnterIPv4(c) \/ EnterOther(c) PROVE MeasuredInv'
  <2>1. PICK k \in IPs \cup {NotIP} : CountFrame(c, k)
    BY <1>4 DEF EnterIPv4, EnterOther, Receive, CountOnly, ReceiveOther
  <2>2. SumFunction(received)' = SumFunction(received) + 1
    BY <1>1, <2>1, FrameCounted
  <2>3. measured' = measured /\ c \notin InFlight /\ InFlight' = InFlight \cup {c}
    BY <1>1, <1>4 DEF EnterIPv4, EnterOther, Stamp, Receive, CountOnly, ReceiveOther,
       CountFrame, Goto, InFlight
  <2>4. Cardinality(InFlight') = Cardinality(InFlight) + 1
    BY <1>2, <2>3, FS_AddElement
  <2> QED
    BY <1>1, <1>2, <1>3, <2>2, <2>3, <2>4 DEF MeasuredInv, EveryFrameMeasured
(* The filter ends where the measuring begins.                             *)
<1>5. ASSUME NEW c \in CPUs, RunFilter(c) PROVE MeasuredInv'
  <2>1. /\ pc[c] # "idle" /\ \A d \in CPUs \ {c} : pc'[d] = pc[d]
        /\ \A d \in CPUs \ {c} : tail'[d] = tail[d]
        /\ tail'[c] = IF pc'[c] = "idle" THEN "end" ELSE tail[c]
    BY <1>1, <1>5, RunMoves DEF RunFilter
  <2>2. InFlight' = InFlight
    BY <1>1, <2>1 DEF InFlight
  <2>3. UNCHANGED <<received, measured>>
    BY <1>5 DEF RunFilter, Run, CheckBlacklist, ReadCount, WriteCount, ReadFlood,
       WriteFlood, ReadClock, LookupTimestamp, Ban, ResetFlood, WriteTimestamp, CheckPort
  <2> QED
    BY <2>2, <2>3 DEF MeasuredInv, EveryFrameMeasured, SumFunction
<1>6. ASSUME NEW c \in CPUs, ReadEnd(c) \/ AddSum(c) PROVE MeasuredInv'
  <2>1. UNCHANGED <<pc, received, measured>>
    BY <1>6 DEF ReadEnd, AddSum, Add, vars
  <2>2. InFlight' = InFlight
    BY <1>1, <1>6, <2>1 DEF ReadEnd, AddSum, InFlight
  <2> QED
    BY <2>1, <2>2 DEF MeasuredInv, EveryFrameMeasured, SumFunction
(* A frame is done: it is counted, and its CPU is free.                    *)
<1>7. ASSUME NEW c \in CPUs, AddCount(c) PROVE MeasuredInv'
  <2>1. /\ measured' \in [CPUs -> Nat] /\ measured'[c] = measured[c] + 1
        /\ \A d \in CPUs \ {c} : measured'[d] = measured[d]
        /\ UNCHANGED <<pc, received>>
        /\ c \in InFlight /\ InFlight' = InFlight \ {c}
    BY <1>1, <1>7 DEF AddCount, Add, vars, InFlight
  <2>2. SumFunction(measured)' = SumFunction(measured) + 1
    BY <1>1, <2>1, PerCpuSum
  <2>3. Cardinality(InFlight') = Cardinality(InFlight) - 1
    BY <1>2, <2>1, FS_RemoveElement
  <2>4. SumFunction(received)' = SumFunction(received)
    BY <2>1 DEF SumFunction
  <2> QED
    BY <1>1, <1>2, <1>3, <2>1, <2>2, <2>3, <2>4 DEF MeasuredInv, EveryFrameMeasured
<1>8. CASE ProbeStep
  <2>1. CASE (Tick \/ \E p \in Ports : BlockPort(p)) /\ UNCHANGED probe
    BY <2>1, MeasuredKept DEF Tick, BlockPort, probe
  <2> QED
    BY <1>4, <1>5, <1>6, <1>7, <1>8, <2>1 DEF ProbeStep, Measure
<1>9. CASE \/ StartUp \/ ClearPpsMap \/ WakeUp \/ ReadItems \/ ClearLatency
           \/ Write \/ CleanUp \/ Ended
  BY <1>9, MonitorLeavesFrames, MeasuredKept
<1>10. CASE UNCHANGED latencyVars
  BY <1>10, MeasuredKept DEF latencyVars, allVars, vars, probe
<1> QED
  BY <1>8, <1>9, <1>10 DEF LatencyNext

(* Every frame, passed or dropped, is measured once: the frames received   *)
(* are those counted in key 1 and those still inside the program.          *)
THEOREM FramesAreMeasured == LatencySpec => []EveryFrameMeasured
<1>1. MeasuredInv => EveryFrameMeasured
  BY DEF MeasuredInv
<1>2. LatencyInv /\ MeasuredInv /\ [LatencyNext]_latencyVars => LatencyInv' /\ MeasuredInv'
  BY StepLatencyInv, MeasuredStep
<1> QED
  BY <1>1, <1>2, InitLatencyInv, InitMeasuredInv, PTL DEF LatencySpec
--------------------------------------------------------------------------------
(* The equation of LatencyAccounted, which already holds before measuring. *)
LatencyBalance ==
  reported + discarded + missed + total
    + SumFunctionOnSet(latency_map, Slots \ StaleSlots)
  = SumFunction(busy) + SumFunction(measured)

LatencyBooks ==
  /\ reported \in Nat /\ discarded \in Nat /\ missed \in Nat
  /\ monitor \notin {"read", "del", "row"} \cup Stopping => total = 0
  /\ monitor \notin Stopping => LatencyBalance

LEMMA SlotsFinite == IsFiniteSet(Slots)
<1>1. {SUM, COUNT} = {SUM} \cup {COUNT}
  OBVIOUS
<1>2. IsFiniteSet({SUM} \cup {COUNT})
  BY FS_Singleton, FS_AddElement
<1>3. IsFiniteSet({SUM, COUNT})
  BY <1>1, <1>2
<1> QED
  BY <1>3, FloodAssumption, FS_Product DEF Slots

LEMMA InitLatencyBooks == LatencyInit => LatencyBooks
<1> SUFFICES ASSUME LatencyInit PROVE LatencyBooks
  OBVIOUS
<1>1. IsFiniteSet(CPUs) /\ IsFiniteSet(Slots)
  BY FloodAssumption, SlotsFinite
<1>2. /\ latency_map = [s \in Slots |-> 0]
      /\ busy = [c \in CPUs |-> 0] /\ measured = [c \in CPUs |-> 0]
      /\ Slots \ StaleSlots = Slots
      /\ monitor = "load"
      /\ reported = 0 /\ discarded = 0 /\ missed = 0 /\ total = 0
  BY DEF LatencyInit, MonitorInit, StaleSlots
<1>3. SumFunctionOnSet(latency_map, Slots) = 0
  BY <1>1, <1>2, SumZero
<1>4. SumFunctionOnSet(busy, DOMAIN busy) = 0
  BY <1>1, <1>2, SumZero
<1>5. SumFunctionOnSet(measured, DOMAIN measured) = 0
  BY <1>1, <1>2, SumZero
<1> QED
  BY <1>2, <1>3, <1>4, <1>5 DEF LatencyBooks, LatencyBalance, SumFunction

LEMMA BooksKept ==
  ASSUME LatencyBooks,
         UNCHANGED <<reported, discarded, missed, total, latency_map, busy, measured>>,
         monitor' \notin Stopping => monitor \notin Stopping,
         monitor' \notin Stopping => Slots \ StaleSlots' = Slots \ StaleSlots,
         monitor' \notin {"read", "del", "row"} \cup Stopping
           => monitor \notin {"read", "del", "row"} \cup Stopping
  PROVE  LatencyBooks'
BY DEF LatencyBooks, LatencyBalance, SumFunction

(* What is added to a slot is in the slots not read yet, or missed.        *)
LEMMA AddBooked ==
  ASSUME latency_map \in [Slots -> Nat], missed \in Nat, NEW slot \in Slots, NEW v \in Nat,
         Add(slot, v), UNCHANGED <<monitor, visit>>
  PROVE  /\ missed' \in Nat
         /\ SumFunctionOnSet(latency_map, Slots \ StaleSlots) \in Nat
         /\ SumFunctionOnSet(latency_map, Slots \ StaleSlots)' \in Nat
         /\ missed' + SumFunctionOnSet(latency_map, Slots \ StaleSlots)'
              = missed + SumFunctionOnSet(latency_map, Slots \ StaleSlots) + v
<1>1. PICK S : S = Slots \ StaleSlots
  OBVIOUS
<1>2. S = (Slots \ StaleSlots)' /\ S \subseteq Slots /\ (slot \in S <=> slot \notin StaleSlots)
  BY <1>1 DEF StaleSlots
<1>3. /\ latency_map' \in [Slots -> Nat] /\ latency_map'[slot] = latency_map[slot] + v
      /\ \A s \in Slots \ {slot} : latency_map'[s] = latency_map[s]
      /\ latency_map[slot] \in Nat
  BY DEF Add
<1>4. missed' = IF slot \in StaleSlots THEN missed + v ELSE missed
  BY DEF Add
<1>5. SumFunctionOnSet(latency_map, S) \in Nat /\ SumFunctionOnSet(latency_map', S) \in Nat
  BY <1>2, <1>3, SlotsFinite, SumChange
<1>6. CASE slot \in S
  <2>1. SumFunctionOnSet(latency_map', S) + latency_map[slot]
          = SumFunctionOnSet(latency_map, S) + latency_map'[slot]
    BY <1>2, <1>3, <1>6, SlotsFinite, SumChange
  <2>2. SumFunctionOnSet(latency_map', S) = SumFunctionOnSet(latency_map, S) + v
    BY <1>3, <1>5, <2>1
  <2>3. missed' = missed
    BY <1>2, <1>4, <1>6
  <2> QED
    BY <1>1, <1>2, <1>5, <2>2, <2>3
<1>7. CASE slot \notin S
  <2>1. IsFiniteSet(S) /\ \A s \in S : latency_map'[s] = latency_map[s]
    BY <1>2, <1>3, <1>7, SlotsFinite, FS_Subset
  <2>2. SumFunctionOnSet(latency_map', S) = SumFunctionOnSet(latency_map, S)
    BY <2>1, SumSame
  <2>3. missed' = missed + v
    BY <1>2, <1>4, <1>7
  <2>4. missed' + SumFunctionOnSet(latency_map', S)
          = missed + SumFunctionOnSet(latency_map, S) + v
    BY <1>5, <2>2, <2>3
  <2>5. SumFunctionOnSet(latency_map, Slots \ StaleSlots)' = SumFunctionOnSet(latency_map', S)
    BY <1>2
  <2> QED
    BY <1>1, <1>5, <2>3, <2>4, <2>5
<1> QED
  BY <1>6, <1>7

LEMMA BooksMonitorStep ==
  ASSUME LatencyInv, LatencyBooks,
         \/ StartUp \/ ClearPpsMap \/ WakeUp \/ ReadItems \/ ClearLatency
         \/ Write \/ CleanUp \/ Ended
  PROVE  LatencyBooks'
<1>1. /\ latency_map \in [Slots -> Nat] /\ visit \subseteq Slots /\ total \in Nat
      /\ reported \in Nat /\ discarded \in Nat /\ missed \in Nat
      /\ IsFiniteSet(Slots)
  BY SlotsFinite DEF LatencyInv, LatencyTypeOK, ReadInv, LatencyBooks
<1>2. UNCHANGED <<busy, measured, missed>>
  BY MonitorLeavesFrames DEF StartUp, ClearPpsMap, WakeUp, ReadItems, ClearLatency,
     Write, CleanUp, Ended, probe
<1>3. SumFunction(busy)' = SumFunction(busy) /\ SumFunction(measured)' = SumFunction(measured)
  BY <1>2 DEF SumFunction
<1> USE DEF Stopping
<1>4. CASE StartUp
  <2>1. UNCHANGED <<reported, discarded, total, latency_map, visit>>
    BY <1>4 DEF StartUp, Load, AttachXdp, ClearEntry, NextMap, monitorVars, reading,
       probe, sampling
  <2>2. monitor \notin {"read", "del", "row"} \cup Stopping
        /\ monitor' \notin {"read", "del", "row"}
    BY <1>4, PhaseOrder DEF StartUp, Load, AttachXdp, ClearEntry, ClearPhases, monitorVars
  <2>3. Slots \ StaleSlots' = Slots \ StaleSlots
    BY <2>2 DEF StaleSlots
  <2> QED
    BY <1>2, <2>1, <2>2, <2>3, BooksKept
<1>5. CASE ClearPpsMap
  BY <1>2, <1>5, BooksKept DEF ClearPpsMap, Zero, StaleSlots, reading, probe
<1>6. CASE WakeUp
  <2>1. /\ total = 0 /\ total' = 0 /\ monitor = "sleep" /\ monitor' = "read"
        /\ UNCHANGED <<reported, discarded, latency_map>>
    BY <1>6 DEF WakeUp, Wake, LatencyBooks, probe
  <2>2. Slots \ StaleSlots = Slots /\ Slots \ StaleSlots' = Slots
    BY <1>6, <2>1 DEF WakeUp, StaleSlots
  <2> QED
    BY <1>1, <1>2, <1>3, <2>1, <2>2 DEF LatencyBooks, LatencyBalance
<1>7. CASE ReadItems
  <2>1. CASE visit = {} /\ monitor' = "del"
    BY <1>2, <1>7, <2>1, BooksKept DEF ReadItems, Visit, StaleSlots, probe
  <2>2. ASSUME NEW s \in Slots, Visit(s), total' = total + latency_map[s], UNCHANGED monitor
        PROVE  LatencyBooks'
    <3>1. /\ monitor = "read" /\ s \in visit /\ visit' = visit \ {s}
          /\ Slots \ StaleSlots = visit /\ Slots \ StaleSlots' = visit \ {s}
          /\ UNCHANGED <<reported, discarded, latency_map>>
      BY <1>1, <1>7, <2>2 DEF ReadItems, Visit, StaleSlots, probe
    <3>2. SumFunctionOnSet(latency_map, visit)
            = latency_map[s] + SumFunctionOnSet(latency_map, visit \ {s})
      <4>1. IsFiniteSet(visit) /\ \A x \in visit : latency_map[x] \in Nat
        BY <1>1, FS_Subset
      <4> QED
        BY <3>1, <4>1, SumSplit
    <3>3. latency_map[s] \in Nat /\ SumFunctionOnSet(latency_map, visit \ {s}) \in Nat
      <4>1. IsFiniteSet(visit \ {s}) /\ \A x \in visit \ {s} : latency_map[x] \in Nat
        BY <1>1, FS_Subset
      <4> QED
        BY <1>1, <4>1, SumType
    <3>4. reported + discarded + missed + total + SumFunctionOnSet(latency_map, visit)
            = SumFunction(busy) + SumFunction(measured)
      BY <3>1 DEF LatencyBooks, LatencyBalance
    <3>5. reported' + discarded' + missed' + total' + SumFunctionOnSet(latency_map', visit \ {s})
            = SumFunction(busy) + SumFunction(measured)
      BY <1>1, <1>2, <2>2, <3>1, <3>2, <3>3, <3>4
    <3>6. LatencyBalance'
      BY <1>3, <3>1, <3>5 DEF LatencyBalance
    <3> QED
      BY <1>1, <1>2, <2>2, <3>1, <3>6 DEF LatencyBooks
  <2> QED
    BY <1>7, <2>1, <2>2 DEF ReadItems
<1>8. CASE ClearLatency
  <2>1. CASE visit = {} /\ UNCHANGED <<latency_map, visit, discarded>>
               /\ monitor' = IF monitor = "del" THEN "row" ELSE "sleep"
    BY <1>2, <1>8, <2>1, BooksKept DEF ClearLatency, StaleSlots
  <2>2. ASSUME NEW s \in Slots, Visit(s), latency_map' = [latency_map EXCEPT ![s] = 0],
               discarded' = IF monitor = "del" THEN discarded
                                               ELSE discarded + latency_map[s],
               UNCHANGED monitor
        PROVE  LatencyBooks'
    <3>1. /\ s \in visit /\ visit' = visit \ {s}
          /\ latency_map' \in [Slots -> Nat] /\ latency_map'[s] = 0
          /\ \A x \in Slots \ {s} : latency_map'[x] = latency_map[x]
          /\ latency_map[s] \in Nat
          /\ UNCHANGED <<reported, total>>
      BY <1>1, <1>8, <2>2 DEF ClearLatency, Visit
    <3>2. CASE monitor = "del"
      <4>1. /\ Slots \ StaleSlots = Slots \ visit
            /\ Slots \ StaleSlots' = (Slots \ visit) \cup {s}
            /\ discarded' = discarded
        BY <1>1, <2>2, <3>1, <3>2 DEF StaleSlots
      <4>2. SumFunctionOnSet(latency_map', (Slots \ visit) \cup {s})
              = SumFunctionOnSet(latency_map, Slots \ visit)
        BY <1>1, <3>1, SumChange
      <4> QED
        BY <1>2, <1>3, <2>2, <3>1, <4>1, <4>2 DEF LatencyBooks, LatencyBalance
    <3>3. CASE monitor # "del"
      <4>1. /\ monitor = "clear_latency"
            /\ Slots \ StaleSlots = Slots /\ Slots \ StaleSlots' = Slots
            /\ discarded' = discarded + latency_map[s]
        BY <1>1, <1>8, <2>2, <3>3 DEF ClearLatency, StaleSlots
      <4>2. /\ SumFunctionOnSet(latency_map, Slots) \in Nat
            /\ SumFunctionOnSet(latency_map', Slots) \in Nat
            /\ SumFunctionOnSet(latency_map', Slots) + latency_map[s]
                 = SumFunctionOnSet(latency_map, Slots) + latency_map'[s]
        BY <1>1, <3>1, SumChange
      <4>3. reported + discarded + missed + total + SumFunctionOnSet(latency_map, Slots)
              = SumFunction(busy) + SumFunction(measured)
        BY <4>1 DEF LatencyBooks, LatencyBalance
      <4>4. reported' + discarded' + missed' + total' + SumFunctionOnSet(latency_map', Slots)
              = SumFunction(busy) + SumFunction(measured)
        BY <1>1, <1>2, <3>1, <4>1, <4>2, <4>3
      <4>5. LatencyBalance'
        BY <1>3, <4>1, <4>4 DEF LatencyBalance
      <4> QED
        BY <1>1, <1>2, <2>2, <3>1, <4>1, <4>5 DEF LatencyBooks
    <3> QED
      BY <3>2, <3>3
  <2> QED
    BY <1>8, <2>1, <2>2 DEF ClearLatency
<1>9. CASE Write
  <2>1. /\ monitor = "row" /\ monitor' = "sleep" /\ total' = 0
        /\ reported' = reported + total
        /\ UNCHANGED <<discarded, latency_map>>
        /\ Slots \ StaleSlots = Slots /\ Slots \ StaleSlots' = Slots
    BY <1>9 DEF Write, WriteRow, StaleSlots, probe
  <2>2. SumFunctionOnSet(latency_map, Slots) \in Nat
    BY <1>1, SumType
  <2>3. reported + discarded + missed + total + SumFunctionOnSet(latency_map, Slots)
          = SumFunction(busy) + SumFunction(measured)
    BY <2>1 DEF LatencyBooks, LatencyBalance, Stopping
  <2>4. reported' + discarded' + missed' + total' + SumFunctionOnSet(latency_map', Slots)
          = SumFunction(busy) + SumFunction(measured)
    BY <1>1, <1>2, <2>1, <2>2, <2>3
  <2>5. LatencyBalance'
    BY <1>3, <2>1, <2>4 DEF LatencyBalance
  <2> QED
    BY <1>1, <1>2, <2>1, <2>5 DEF LatencyBooks
<1>10. CASE CleanUp
  <2>1. monitor' \in Stopping /\ UNCHANGED <<reported, discarded>>
    BY <1>10 DEF CleanUp, Interrupt, Detach, CloseAndExit, reading
  <2>2. reported' \in Nat /\ discarded' \in Nat /\ missed' \in Nat
    BY <1>1, <1>2, <2>1
  <2>3. ~(monitor' \notin Stopping) /\ ~(monitor' \notin {"read", "del", "row"} \cup Stopping)
    BY <2>1
  <2>4. /\ (monitor \notin {"read", "del", "row"} \cup Stopping => total = 0)'
        /\ (monitor \notin Stopping => LatencyBalance)'
    BY <2>3
  <2> QED
    BY <2>2, <2>4 DEF LatencyBooks
<1>11. CASE Ended
  BY <1>2, <1>11, BooksKept DEF Ended, Over, allVars, monitorVars, reading, probe, sampling,
     StaleSlots
<1> QED
  BY <1>4, <1>5, <1>6, <1>7, <1>8, <1>9, <1>10, <1>11

LEMMA BooksProbeStep ==
  ASSUME LatencyInv, LatencyBooks, measured \in [CPUs -> Nat], ProbeStep
  PROVE  LatencyBooks'
<1>1. /\ latency_map \in [Slots -> Nat] /\ total \in Nat
      /\ reported \in Nat /\ discarded \in Nat /\ missed \in Nat
      /\ busy \in [CPUs -> Nat] /\ latency \in [CPUs -> Nat]
  BY DEF LatencyInv, LatencyTypeOK, ReadInv, BusyInv, LatencyBooks
<1>a. SumFunction(busy) \in Nat /\ SumFunction(measured) \in Nat
  BY <1>1, FloodAssumption, SumType DEF SumFunction
<1>2. /\ UNCHANGED <<monitor, visit, reported, discarded, total>>
      /\ StaleSlots' = StaleSlots
  BY DEF ProbeStep, monitorVars, reading, sampling, StaleSlots
<1>3. ASSUME UNCHANGED <<latency_map, busy, measured, missed>> PROVE LatencyBooks'
  BY <1>2, <1>3, BooksKept
<1>4. CASE \E c \in CPUs : AddSum(c)
  <2>1. PICK c \in CPUs : AddSum(c)
    BY <1>4
  <2>2. PICK v \in Nat : v = latency[c]
    BY <1>1
  <2>3. <<SUM, c>> \in Slots /\ Add(<<SUM, c>>, v)
    BY <2>1, <2>2 DEF AddSum, Slots
  <2>4. /\ missed' \in Nat
        /\ SumFunctionOnSet(latency_map, Slots \ StaleSlots) \in Nat
        /\ SumFunctionOnSet(latency_map, Slots \ StaleSlots)' \in Nat
        /\ missed' + SumFunctionOnSet(latency_map, Slots \ StaleSlots)'
             = missed + SumFunctionOnSet(latency_map, Slots \ StaleSlots) + v
    BY <1>1, <1>2, <2>3, AddBooked
  <2>5. /\ busy' \in [CPUs -> Nat] /\ busy'[c] = busy[c] + v
        /\ \A d \in CPUs \ {c} : busy'[d] = busy[d]
    BY <1>1, <2>1, <2>2 DEF AddSum
  <2>6. SumFunction(busy') = SumFunction(busy) + v
    BY <1>1, <2>5, PerCpuSum
  <2>7. SumFunction(measured)' = SumFunction(measured)
    BY <2>1 DEF SumFunction, AddSum
  <2>8. ASSUME LatencyBalance PROVE LatencyBalance'
    <3>1. reported + discarded + missed + total
            + SumFunctionOnSet(latency_map, Slots \ StaleSlots)
            = SumFunction(busy) + SumFunction(measured)
      BY <2>8 DEF LatencyBalance
    <3>2. reported + discarded + missed' + total
            + SumFunctionOnSet(latency_map, Slots \ StaleSlots)'
            = SumFunction(busy) + v + SumFunction(measured)
      BY <1>1, <1>a, <2>4, <3>1
    <3>3. SumFunction(busy) + v + SumFunction(measured)
            = SumFunction(busy)' + SumFunction(measured)'
      BY <2>6, <2>7
    <3> QED
      BY <1>2, <3>2, <3>3 DEF LatencyBalance
  <2> QED
    BY <1>1, <1>2, <2>4, <2>8 DEF LatencyBooks
<1>5. CASE \E c \in CPUs : AddCount(c)
  <2>1. PICK c \in CPUs : AddCount(c)
    BY <1>5
  <2>2. <<COUNT, c>> \in Slots /\ Add(<<COUNT, c>>, 1)
    BY <2>1 DEF AddCount, Slots
  <2>3. /\ missed' \in Nat
        /\ SumFunctionOnSet(latency_map, Slots \ StaleSlots) \in Nat
        /\ SumFunctionOnSet(latency_map, Slots \ StaleSlots)' \in Nat
        /\ missed' + SumFunctionOnSet(latency_map, Slots \ StaleSlots)'
             = missed + SumFunctionOnSet(latency_map, Slots \ StaleSlots) + 1
    BY <1>1, <1>2, <2>2, AddBooked
  <2>4. /\ measured' \in [CPUs -> Nat] /\ measured'[c] = measured[c] + 1
        /\ \A d \in CPUs \ {c} : measured'[d] = measured[d]
        /\ busy' = busy
    BY <2>1 DEF AddCount
  <2>5. SumFunction(measured)' = SumFunction(measured) + 1 /\ SumFunction(measured) \in Nat
    BY <2>4, PerCpuSum
  <2>6. SumFunction(busy)' = SumFunction(busy)
    BY <2>4 DEF SumFunction
  <2>7. ASSUME LatencyBalance PROVE LatencyBalance'
    BY <1>1, <1>a, <1>2, <2>3, <2>5, <2>6, <2>7 DEF LatencyBalance
  <2> QED
    BY <1>1, <1>2, <2>3, <2>7 DEF LatencyBooks
<1>6. CASE \E c \in CPUs : EnterIPv4(c) \/ EnterOther(c) \/ RunFilter(c) \/ ReadEnd(c)
  BY <1>3, <1>6 DEF EnterIPv4, EnterOther, Stamp, RunFilter, ReadEnd
<1>7. CASE UNCHANGED probe
  BY <1>3, <1>7 DEF probe
<1> QED
  BY <1>4, <1>5, <1>6, <1>7 DEF ProbeStep, Measure

LEMMA StepLatencyBooks ==
  LatencyInv /\ MeasuredInv /\ LatencyBooks /\ [LatencyNext]_latencyVars => LatencyBooks'
<1> SUFFICES ASSUME LatencyInv, MeasuredInv, LatencyBooks, [LatencyNext]_latencyVars
             PROVE  LatencyBooks'
  OBVIOUS
<1>1. CASE UNCHANGED latencyVars
  BY <1>1, BooksKept DEF latencyVars, allVars, monitorVars, reading, probe, sampling, StaleSlots
<1> QED
  BY <1>1, BooksMonitorStep, BooksProbeStep DEF LatencyNext, MeasuredInv

(* The rows, the reading in progress and the slots not read yet hold all   *)
(* that was ever added to latency_map, less what clear_maps threw away and *)
(* what was added between the read and the clear of a slot.                *)
THEOREM NoLatencyTwice == LatencySpec => []LatencyAccounted
<1>1. LatencyBooks => LatencyAccounted
  BY DEF LatencyBooks, LatencyBalance, LatencyAccounted, Loop, Stopping
<1>2. LatencyInv /\ MeasuredInv /\ LatencyBooks /\ [LatencyNext]_latencyVars
        => LatencyInv' /\ MeasuredInv' /\ LatencyBooks'
  BY StepLatencyInv, MeasuredStep, StepLatencyBooks
<1> QED
  BY <1>1, <1>2, InitLatencyInv, InitMeasuredInv, InitLatencyBooks, PTL DEF LatencySpec
================================================================================
