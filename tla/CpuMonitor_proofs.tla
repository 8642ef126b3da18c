--------------------------- MODULE CpuMonitor_proofs ---------------------------
(***************************************************************************)
(* The program of eBPF_Marine/cpu_monitor.c under cpu_monitor.py, for any  *)
(* number of CPUs, addresses and signals: what pointers into recycled map  *)
(* elements may read notwithstanding, no ban is premature, a count over    *)
(* the threshold is answered and a counted address is stamped; while no    *)
(* two CPUs meet on an address the first window lets MAX_PACKETS packets   *)
(* of it through; and every cleanup leaves nothing behind.                 *)
(***************************************************************************)
EXTENDS CpuMonitor, XdpFlood_proofs

(* The labels from the reading of the clock to the last use of its value.  *)
Timed == {"lookup", "flood", "flood_w", "clock", "first", "first_stamp", "ban",
          "reset", "stamp"}

(* The clock starts at 1, and stamps lie behind it.                        *)
ClockInv ==
  /\ clock >= 1
  /\ \A ip \in IPs : ip_timestamp_map[ip] <= clock
  /\ \A c \in CPUs : /\ now[c] <= clock
                     /\ pc[c] \in Timed => now[c] >= 1

TimedTypeOK == CpuTypeOK /\ ClockInv
--------------------------------------------------------------------------------
LEMMA InitTimed == CpuInit => TimedTypeOK
<1> SUFFICES ASSUME CpuInit PROVE TimedTypeOK
  OBVIOUS
<1>1. last_seen \in [CPUs -> SUBSET (1 .. clock)]
  BY DEF CpuInit
<1>2. received \in [IPs \cup {NotIP} -> Nat] /\ src_ip \in [CPUs -> IPs \cup {NotIP}]
  BY DEF CpuInit, Init
<1>3. clock = 1 /\ now = [c \in CPUs |-> 0] /\ pc = [c \in CPUs |-> "idle"]
      /\ ip_timestamp_map = [ip \in IPs |-> 0]
  BY DEF CpuInit, Init
<1>4. ClockInv
  BY <1>3 DEF ClockInv, Timed
<1> QED
  BY <1>1, <1>2, <1>4, FloodAssumption DEF CpuInit, Init, TimedTypeOK, CpuTypeOK, ClockInv, Labels, Timed

(* Whatever Recycle adds to a pointer is a past value of the clock.        *)
LEMMA RecycleType ==
  ASSUME TimedTypeOK, NEW c \in CPUs, pc[c] \in Timed, Recycle(c)
  PROVE  last_seen' \in [CPUs -> SUBSET (1 .. clock)]
<1>1. now[c] \in 1 .. clock
  BY DEF TimedTypeOK, CpuTypeOK, ClockInv
<1> QED
  BY <1>1 DEF Recycle, TimedTypeOK, CpuTypeOK

LEMMA TimedStep == TimedTypeOK /\ [CpuNext]_cpuVars => TimedTypeOK'
<1> SUFFICES ASSUME TimedTypeOK, [CpuNext]_cpuVars PROVE TimedTypeOK'
  OBVIOUS
<1> USE FloodAssumption DEF TimedTypeOK, CpuTypeOK, ClockInv, Timed
<1>1. ASSUME NEW c \in CPUs, Parse(c) PROVE TimedTypeOK'
  BY <1>1 DEF Parse, Receive, CountFrame, Goto, Labels, maps
<1>2. ASSUME NEW c \in CPUs, CountAndPass(c) PROVE TimedTypeOK'
  BY <1>2 DEF CountAndPass, ReceiveOther, CountFrame, maps
<1>3. ASSUME NEW c \in CPUs, CheckBlacklist(c), UNCHANGED <<last_seen, raced>>
      PROVE  TimedTypeOK'
  <2>1. /\ pc' \in [CPUs -> Labels \cup {"first", "first_stamp"}]
        /\ \A d \in CPUs : pc'[d] # "idle" => pc[d] # "idle" /\ src_ip'[d] = src_ip[d]
        /\ \A d \in CPUs : pc'[d] \in Timed => pc[d] \in Timed /\ now'[d] = now[d]
    BY <1>3 DEF CheckBlacklist, ReturnDrop, Return, Goto, Labels, locals
  <2>2. /\ src_ip' \in [CPUs -> IPs \cup {NotIP}]
        /\ new_flood_count' \in [CPUs -> Nat] /\ now' \in [CPUs -> Nat]
        /\ \A d \in CPUs : now'[d] <= clock
    <3>1. CASE ReturnDrop(c)
      BY <3>1 DEF ReturnDrop, Return
    <3>2. CASE UNCHANGED locals
      BY <3>2 DEF locals
    <3> QED
      BY <1>3, <3>1, <3>2 DEF CheckBlacklist
  <2>3. UNCHANGED <<maps, pps, clock, received, passed>>
    BY <1>3 DEF CheckBlacklist, ReturnDrop
  <2> QED
    BY <1>3, <2>1, <2>2, <2>3 DEF maps
<1>4. ASSUME NEW c \in CPUs, ReadNow(c), UNCHANGED raced PROVE TimedTypeOK'
  BY <1>4 DEF ReadNow, Goto, Labels, maps
<1>5. ASSUME NEW c \in CPUs, LookupSeen(c), UNCHANGED raced PROVE TimedTypeOK'
  <2>1. {ip_timestamp_map[src_ip[c]]} \ {0} \in SUBSET (1 .. clock)
    BY <1>5 DEF LookupSeen
  <2> QED
    BY <1>5, <2>1 DEF LookupSeen, Pointed, Goto, Labels, maps, locals
<1>6. ASSUME NEW c \in CPUs, LookupFlood(c), UNCHANGED raced PROVE TimedTypeOK'
  <2>1. /\ pc[c] = "flood" /\ pc' \in [CPUs -> Labels \cup {"first", "first_stamp"}]
        /\ pc'[c] \in Timed /\ \A d \in CPUs : d # c => pc'[d] = pc[d]
    BY <1>6 DEF LookupFlood, Goto, Labels
  <2>2. src_ip[c] \in IPs /\ ip_flood_count_map[src_ip[c]] \in Nat
    BY <1>6 DEF LookupFlood
  <2>3. new_flood_count' \in [CPUs -> Nat]
    BY <1>6, <2>2 DEF LookupFlood
  <2>4. last_seen' \in [CPUs -> SUBSET (1 .. clock)]
    BY <1>6 DEF LookupFlood, Pointed
  <2> QED
    BY <1>6, <2>1, <2>3, <2>4 DEF LookupFlood, maps
<1>7. ASSUME NEW c \in CPUs, WriteFlood(c), UNCHANGED <<last_seen, raced>>
      PROVE  TimedTypeOK'
  <2>1. ip_flood_count_map' \in [IPs -> Nat]
    BY <1>7, UpdateType DEF WriteFlood
  <2> QED
    BY <1>7, <2>1 DEF WriteFlood, Goto, Labels, locals
<1>8. ASSUME NEW c \in CPUs, WriteFirst(c), UNCHANGED raced PROVE TimedTypeOK'
  <2>1. ip_flood_count_map' \in [IPs -> Nat]
    BY <1>8, UpdateType DEF WriteFirst
  <2> QED
    BY <1>8, <2>1 DEF WriteFirst, Goto, Labels, locals
<1>9. ASSUME NEW c \in CPUs, pc[c] \in {"first_stamp", "stamp"},
             ip_timestamp_map' = Update(ip_timestamp_map, src_ip[c], now[c])
      PROVE  /\ ip_timestamp_map' \in [IPs -> Nat]
             /\ \A ip \in IPs : ip_timestamp_map'[ip] <= clock
  <2>1. src_ip[c] \in IPs /\ now[c] \in Nat /\ now[c] <= clock
    BY <1>9
  <2>2. /\ ip_timestamp_map' \in [IPs -> Nat]
        /\ ip_timestamp_map'[src_ip[c]] \in {ip_timestamp_map[src_ip[c]], now[c]}
        /\ \A k \in IPs \ {src_ip[c]} : ip_timestamp_map'[k] = ip_timestamp_map[k]
    BY <1>9, <2>1, UpdateType
  <2> QED
    BY <2>1, <2>2
<1>10. ASSUME NEW c \in CPUs, StampFirst(c), UNCHANGED raced PROVE TimedTypeOK'
  <2>1. last_seen' \in [CPUs -> SUBSET (1 .. clock)]
    BY <1>10, RecycleType DEF StampFirst
  <2>2. /\ ip_timestamp_map' \in [IPs -> Nat]
        /\ \A ip \in IPs : ip_timestamp_map'[ip] <= clock
    BY <1>9, <1>10 DEF StampFirst
  <2>3. /\ pc' = [pc EXCEPT ![c] = "idle"] /\ src_ip' = [src_ip EXCEPT ![c] = NotIP]
        /\ new_flood_count' = [new_flood_count EXCEPT ![c] = 0]
        /\ now' = [now EXCEPT ![c] = 0]
        /\ UNCHANGED <<ip_count_map, ip_flood_count_map, ip_blacklist_map,
                       port_blacklist_map, pps, clock, raced>>
    BY <1>10 DEF StampFirst, ReturnPass, Return, Goto
  <2>4. passed' \in [IPs -> Nat]
    BY <1>10 DEF StampFirst, ReturnPass
  <2>5. received' = received
    BY <1>10 DEF StampFirst
  <2> QED
    BY <2>1, <2>2, <2>3, <2>4, <2>5 DEF Labels
<1>11. ASSUME NEW c \in CPUs, Restamp(c), UNCHANGED raced PROVE TimedTypeOK'
  <2>1. last_seen' \in [CPUs -> SUBSET (1 .. clock)]
    BY <1>11, RecycleType DEF Restamp, WriteTimestamp
  <2> QED
    BY <1>9, <1>11, <2>1 DEF Restamp, WriteTimestamp, Goto, Labels, locals
<1>12. ASSUME NEW c \in CPUs, TestWindow(c), UNCHANGED raced PROVE TimedTypeOK'
  <2>1. /\ pc[c] = "clock"
        /\ \E label \in {"reset", "ban", "l4"} : pc' = [pc EXCEPT ![c] = label]
    BY <1>12 DEF TestWindow, Window, Goto
  <2> QED
    BY <1>12, <2>1 DEF TestWindow, Pointed, Labels, maps, locals
<1>13. ASSUME NEW c \in CPUs, Ban(c), UNCHANGED <<last_seen, raced>> PROVE TimedTypeOK'
  BY <1>13 DEF Ban, ReturnDrop, Return, Goto, Labels
<1>14. ASSUME NEW c \in CPUs, ResetFlood(c), UNCHANGED <<last_seen, raced>>
       PROVE  TimedTypeOK'
  <2>1. ip_flood_count_map' \in [IPs -> Nat]
    BY <1>14, UpdateType DEF ResetFlood
  <2> QED
    BY <1>14, <2>1 DEF ResetFlood, Goto, Labels
<1>15. ASSUME NEW c \in CPUs, CheckPort(c), UNCHANGED <<last_seen, raced>>
       PROVE  TimedTypeOK'
  <2>1. passed' \in [IPs -> Nat]
    BY <1>15 DEF CheckPort, ReturnDrop, ReturnPass
  <2>2. /\ Return(c) /\ UNCHANGED <<maps, pps, clock, received>>
    BY <1>15 DEF CheckPort, ReturnDrop, ReturnPass
  <2> QED
    BY <1>15, <2>1, <2>2 DEF Return, Goto, Labels, maps
<1>16. CASE Tick /\ UNCHANGED <<last_seen, raced>>
  BY <1>16 DEF Tick, maps, locals
<1>17. ASSUME NEW p \in Ports, BlockPort(p), UNCHANGED <<last_seen, raced>>
       PROVE  TimedTypeOK'
  BY <1>17 DEF BlockPort, locals
<1>18. CASE UNCHANGED cpuVars
  BY <1>18 DEF cpuVars, vars, maps, locals
<1> HIDE DEF TimedTypeOK
<1> QED
  BY <1>1, <1>2, <1>3, <1>4, <1>5, <1>6, <1>7, <1>8, <1>10, <1>11, <1>12, <1>13,
     <1>14, <1>15, <1>16, <1>17, <1>18 DEF CpuNext, RunCpu, Quiet, cpuVars
--------------------------------------------------------------------------------
(* The CPUs whose packet of ip has arrived and is in no flood count yet.   *)
Uncounted(ip) ==
  {c \in CPUs : /\ src_ip[c] = ip
                /\ pc[c] \in {"blacklist", "count", "lookup", "flood", "first"}}

(* The packets of ip that a flood count may stand for.                     *)
Countable(ip) == received[ip] - Cardinality(Uncounted(ip))

(* The labels at which new_flood_count is still going to be used.          *)
Held == {"flood_w", "clock", "ban", "reset"}

(* No count, stored or held, is larger than the traffic, so no ban is      *)
(* premature.                                                              *)
CountsInv ==
  /\ \A ip \in IPs : ip_flood_count_map[ip] <= Countable(ip)
  /\ \A c \in CPUs : pc[c] \in Held =>
       new_flood_count[c] >= 1 /\ new_flood_count[c] <= Countable(src_ip[c])
  /\ BanOverThreshold
  /\ NoPrematureBan

(* What a step may do to the counts without breaking that.                 *)
CountsFollow ==
  /\ \A k \in IPs : received'[k] >= received[k] /\ Countable(k)' >= Countable(k)
  /\ \A k \in IPs :
       \/ ip_flood_count_map'[k] = ip_flood_count_map[k]
       \/ \E c \in CPUs : /\ pc[c] \in Held /\ src_ip[c] = k
                          /\ ip_flood_count_map'[k] <= new_flood_count[c]
       \/ ip_flood_count_map'[k] <= Countable(k)'
  /\ \A c \in CPUs : pc'[c] \in Held =>
       \/ /\ pc[c] \in Held
          /\ new_flood_count'[c] = new_flood_count[c] /\ src_ip'[c] = src_ip[c]
       \/ \E k \in IPs : /\ src_ip'[c] = k /\ new_flood_count'[c] >= 1
                         /\ new_flood_count'[c] <= Countable(k)'
  /\ \A k \in ip_blacklist_map' \ ip_blacklist_map :
       \E c \in CPUs : pc[c] = "ban" /\ src_ip[c] = k

LEMMA CountableType ==
  ASSUME CpuTypeOK, NEW ip \in IPs
  PROVE  /\ Cardinality(Uncounted(ip)) \in Nat /\ IsFiniteSet(Uncounted(ip))
         /\ Countable(ip) \in Int /\ Countable(ip) <= received[ip]
<1>1. IsFiniteSet(Uncounted(ip)) /\ Cardinality(Uncounted(ip)) \in Nat
  BY FS_Subset, FS_CardinalityType, FloodAssumption DEF Uncounted
<1> QED
  BY <1>1 DEF Countable, CpuTypeOK

LEMMA CountsFollowKeeps ==
  ASSUME CpuTypeOK, CpuTypeOK', CountsInv, CountsFollow, BanOverThreshold'
  PROVE  CountsInv'
<1>1. ASSUME NEW k \in IPs
      PROVE  /\ Countable(k) \in Int /\ Countable(k)' \in Int
             /\ received[k] \in Nat /\ received'[k] \in Nat
             /\ Countable(k) <= received[k]
             /\ Countable(k) <= Countable(k)' /\ received[k] <= received'[k]
             /\ ip_flood_count_map[k] \in Nat /\ ip_flood_count_map'[k] \in Nat
             /\ ip_flood_count_map[k] <= Countable(k)
  <2>1. Cardinality(Uncounted(k)') \in Nat
    BY FS_Subset, FS_CardinalityType, FloodAssumption DEF Uncounted
  <2>2. Countable(k)' \in Int
    BY <2>1 DEF Countable, CpuTypeOK
  <2> QED
    BY <2>2, CountableType DEF CpuTypeOK, CountsInv, CountsFollow
<1>2. ASSUME NEW c \in CPUs, pc[c] \in Held
      PROVE  /\ src_ip[c] \in IPs /\ new_flood_count[c] \in Nat
             /\ new_flood_count[c] >= 1 /\ new_flood_count[c] <= Countable(src_ip[c])
  BY <1>2 DEF CpuTypeOK, CountsInv, Held
<1>3. ASSUME NEW k \in IPs PROVE ip_flood_count_map'[k] <= Countable(k)'
  <2>1. CASE ip_flood_count_map'[k] = ip_flood_count_map[k]
    BY <1>1, <2>1
  <2>2. ASSUME NEW c \in CPUs, pc[c] \in Held, src_ip[c] = k,
               ip_flood_count_map'[k] <= new_flood_count[c]
        PROVE  ip_flood_count_map'[k] <= Countable(k)'
    BY <1>1, <1>2, <2>2
  <2> QED
    BY <2>1, <2>2 DEF CountsFollow
<1>4. ASSUME NEW c \in CPUs, pc'[c] \in Held
      PROVE  new_flood_count'[c] >= 1 /\ (new_flood_count[c] <= Countable(src_ip[c]))'
  <2>1. new_flood_count'[c] \in Nat
    BY DEF CpuTypeOK
  <2>2. CASE /\ pc[c] \in Held
             /\ new_flood_count'[c] = new_flood_count[c] /\ src_ip'[c] = src_ip[c]
    <3>1. PICK k \in IPs : k = src_ip[c] /\ k = src_ip'[c]
      BY <1>2, <2>2
    <3>2. new_flood_count'[c] <= Countable(k)'
      BY <1>1, <1>2, <2>2, <3>1
    <3> QED
      BY <1>2, <2>2, <3>1, <3>2 DEF Countable, Uncounted
  <2>3. ASSUME NEW k \in IPs, src_ip'[c] = k, new_flood_count'[c] >= 1,
               new_flood_count'[c] <= Countable(k)'
        PROVE  new_flood_count'[c] >= 1 /\ (new_flood_count[c] <= Countable(src_ip[c]))'
    BY <2>3 DEF Countable, Uncounted
  <2> QED
    BY <1>4, <2>2, <2>3 DEF CountsFollow
<1>5. NoPrematureBan'
  <2> SUFFICES ASSUME NEW k \in ip_blacklist_map' PROVE received'[k] > MAX_PACKETS
    BY DEF NoPrematureBan
  <2>1. k \in IPs /\ MAX_PACKETS \in Nat
    BY FloodAssumption DEF CpuTypeOK
  <2>2. CASE k \in ip_blacklist_map
    BY <1>1, <2>1, <2>2 DEF CountsInv, NoPrematureBan
  <2>3. CASE k \notin ip_blacklist_map
    <3>1. PICK c \in CPUs : pc[c] = "ban" /\ src_ip[c] = k
      BY <2>3 DEF CountsFollow
    <3>2. new_flood_count[c] > MAX_PACKETS
      BY <3>1 DEF CountsInv, BanOverThreshold
    <3>3. new_flood_count[c] \in Nat /\ new_flood_count[c] <= Countable(k)
      BY <1>2, <3>1 DEF Held
    <3> QED
      BY <1>1, <2>1, <3>2, <3>3
  <2> QED
    BY <2>2, <2>3
<1> QED
  BY <1>3, <1>4, <1>5 DEF CountsInv, Held

LEMMA CountableKept ==
  ASSUME CpuTypeOK, CpuTypeOK', NEW k \in IPs, received'[k] = received[k],
         Uncounted(k)' \subseteq Uncounted(k)
  PROVE  /\ Countable(k)' >= Countable(k)
         /\ Uncounted(k)' # Uncounted(k) => Countable(k)' >= Countable(k) + 1
<1>1. Uncounted(k) \subseteq CPUs
  BY DEF Uncounted
<1>2. /\ Cardinality(Uncounted(k)) \in Nat /\ Cardinality(Uncounted(k)') \in Nat
      /\ Cardinality(Uncounted(k)') <= Cardinality(Uncounted(k))
      /\ Uncounted(k)' # Uncounted(k)
           => Cardinality(Uncounted(k)') < Cardinality(Uncounted(k))
  BY <1>1, Fewer
<1> QED
  BY <1>2 DEF Countable, CpuTypeOK

(* The steps that neither take a packet in nor count one.                  *)
CountsOnlyMoved ==
  /\ \A k \in IPs : received'[k] = received[k] /\ Uncounted(k)' \subseteq Uncounted(k)
  /\ \A k \in IPs :
       \/ ip_flood_count_map'[k] = ip_flood_count_map[k]
       \/ \E c \in CPUs : /\ pc[c] \in Held /\ src_ip[c] = k
                          /\ ip_flood_count_map'[k] <= new_flood_count[c]
  /\ \A c \in CPUs : pc'[c] \in Held =>
       /\ pc[c] \in Held
       /\ new_flood_count'[c] = new_flood_count[c] /\ src_ip'[c] = src_ip[c]
  /\ \A k \in ip_blacklist_map' \ ip_blacklist_map :
       \E c \in CPUs : pc[c] = "ban" /\ src_ip[c] = k
  /\ BanOverThreshold'

LEMMA CountsMovedKeeps ==
  ASSUME CpuTypeOK, CpuTypeOK', CountsInv, CountsOnlyMoved
  PROVE  CountsInv'
<1>1. \A k \in IPs : received'[k] >= received[k] /\ Countable(k)' >= Countable(k)
  BY CountableKept DEF CountsOnlyMoved, CpuTypeOK
<1>2. CountsFollow
  BY <1>1 DEF CountsFollow, CountsOnlyMoved
<1> QED
  BY <1>2, CountsFollowKeeps DEF CountsOnlyMoved

(* Steps that leave the counts, the addresses and the bans where they are, *)
(* and take no CPU to a place where a count matters more than it did.      *)
LEMMA CountsMoved ==
  ASSUME TimedTypeOK, TimedTypeOK', CountsInv,
         \/ \E c \in CPUs :
              \/ CountAndPass(c) \/ CheckBlacklist(c) \/ WriteFlood(c) \/ Ban(c)
              \/ ResetFlood(c) \/ CheckPort(c) \/ ReadNow(c) \/ LookupSeen(c)
              \/ StampFirst(c) \/ TestWindow(c) \/ Restamp(c)
         \/ Tick
         \/ \E p \in Ports : BlockPort(p)
         \/ UNCHANGED vars
  PROVE  CountsInv'
<1>0. CpuTypeOK /\ CpuTypeOK' /\ FloodAssumption
  BY FloodAssumption DEF TimedTypeOK
<1> USE DEF CpuTypeOK, CountsInv, CountsOnlyMoved, BanOverThreshold, Uncounted, Held
<1>1. ASSUME NEW c \in CPUs, CountAndPass(c) PROVE CountsOnlyMoved
  BY <1>0, <1>1 DEF CountAndPass, ReceiveOther, CountFrame, maps
<1>2. ASSUME NEW c \in CPUs, CheckBlacklist(c) PROVE CountsOnlyMoved
  <2>1. /\ pc[c] = "blacklist" /\ pc'[c] \in {"idle", "count"}
        /\ pc'[c] = "idle" \/ src_ip'[c] = src_ip[c]
        /\ \A d \in CPUs : d # c =>
             /\ pc'[d] = pc[d] /\ src_ip'[d] = src_ip[d]
             /\ new_flood_count'[d] = new_flood_count[d]
    <3>1. CASE ReturnDrop(c)
      BY <1>0, <1>2, <3>1 DEF CheckBlacklist, ReturnDrop, Return, Goto
    <3>2. CASE Goto(c, "count") /\ UNCHANGED locals
      BY <1>0, <1>2, <3>2 DEF CheckBlacklist, Goto, locals
    <3> QED
      BY <1>2, <3>1, <3>2 DEF CheckBlacklist
  <2>2. UNCHANGED <<maps, received>>
    BY <1>2 DEF CheckBlacklist
  <2>3. \A k \in IPs : Uncounted(k)' \subseteq Uncounted(k)
    BY <2>1
  <2> QED
    BY <1>0, <2>1, <2>2, <2>3 DEF maps
<1>3. ASSUME NEW c \in CPUs, NEW v \in Nat, src_ip[c] \in IPs,
             ip_flood_count_map' = Update(ip_flood_count_map, src_ip[c], v)
      PROVE  \A k \in IPs : \/ ip_flood_count_map'[k] = ip_flood_count_map[k]
                            \/ src_ip[c] = k /\ ip_flood_count_map'[k] = v
  BY <1>0, <1>3 DEF Update
<1>4. ASSUME NEW c \in CPUs, WriteFlood(c) PROVE CountsOnlyMoved
  <2>1. src_ip[c] \in IPs /\ new_flood_count[c] \in Nat
    BY <1>0, <1>4 DEF WriteFlood
  <2>2. \A k \in IPs : \/ ip_flood_count_map'[k] = ip_flood_count_map[k]
                       \/ src_ip[c] = k /\ ip_flood_count_map'[k] = new_flood_count[c]
    BY <1>3, <1>4, <2>1 DEF WriteFlood
  <2>3. \A k \in IPs : \/ ip_flood_count_map'[k] = ip_flood_count_map[k]
                       \/ src_ip[c] = k /\ ip_flood_count_map'[k] <= new_flood_count[c]
    BY <2>1, <2>2
  <2> QED
    BY <1>0, <1>4, <2>1, <2>3 DEF WriteFlood, Goto, locals
<1>5. ASSUME NEW c \in CPUs, ResetFlood(c) PROVE CountsOnlyMoved
  <2>1. src_ip[c] \in IPs /\ new_flood_count[c] \in Nat /\ new_flood_count[c] >= 1
    BY <1>0, <1>5 DEF ResetFlood
  <2>2. \A k \in IPs : \/ ip_flood_count_map'[k] = ip_flood_count_map[k]
                       \/ src_ip[c] = k /\ ip_flood_count_map'[k] = 1
    BY <1>3, <1>5, <2>1 DEF ResetFlood
  <2>3. \A k \in IPs : \/ ip_flood_count_map'[k] = ip_flood_count_map[k]
                       \/ src_ip[c] = k /\ ip_flood_count_map'[k] <= new_flood_count[c]
    BY <2>1, <2>2
  <2> QED
    BY <1>0, <1>5, <2>1, <2>3 DEF ResetFlood, Goto
<1>6. ASSUME NEW c \in CPUs, Ban(c) PROVE CountsOnlyMoved
  BY <1>0, <1>6 DEF Ban, ReturnDrop, Return, Goto
<1>7. ASSUME NEW c \in CPUs, CheckPort(c) PROVE CountsOnlyMoved
  <2>1. pc[c] = "l4" /\ Return(c) /\ UNCHANGED <<maps, received>>
    BY <1>7 DEF CheckPort, ReturnDrop, ReturnPass
  <2> QED
    BY <1>0, <2>1 DEF Return, Goto, maps
<1>8. ASSUME NEW c \in CPUs, ReadNow(c) \/ LookupSeen(c) PROVE CountsOnlyMoved
  BY <1>0, <1>8 DEF ReadNow, LookupSeen, Goto, maps, locals
<1>9. ASSUME NEW c \in CPUs, StampFirst(c) PROVE CountsOnlyMoved
  BY <1>0, <1>9 DEF StampFirst, ReturnPass, Return, Goto
<1>10. ASSUME NEW c \in CPUs, TestWindow(c) PROVE CountsOnlyMoved
  <2>1. /\ pc[c] = "clock"
        /\ \E label \in {"reset", "ban", "l4"} :
             /\ pc' = [pc EXCEPT ![c] = label]
             /\ label = "ban" => new_flood_count[c] > MAX_PACKETS
        /\ UNCHANGED <<maps, locals, received>>
    BY <1>10 DEF TestWindow, Window, Goto
  <2> QED
    BY <1>0, <2>1 DEF maps, locals
<1>11. ASSUME NEW c \in CPUs, Restamp(c) PROVE CountsOnlyMoved
  BY <1>0, <1>11 DEF Restamp, WriteTimestamp, Goto, locals
<1>12. ASSUME Tick \/ \E p \in Ports : BlockPort(p) PROVE CountsOnlyMoved
  BY <1>0, <1>12 DEF Tick, BlockPort, maps, locals
<1>13. ASSUME UNCHANGED vars PROVE CountsOnlyMoved
  BY <1>0, <1>13 DEF vars, maps, locals
<1> HIDE DEF CountsOnlyMoved, CountsInv, CpuTypeOK
<1> QED
  BY <1>0, <1>1, <1>2, <1>4, <1>5, <1>6, <1>7, <1>8, <1>9, <1>10, <1>11, <1>12,
     <1>13, CountsMovedKeeps

(* A packet comes in: its CPU is uncounted for its address.                *)
LEMMA CountsParse ==
  ASSUME CpuTypeOK, CpuTypeOK', CountsInv, NEW c \in CPUs, Parse(c)
  PROVE  CountsInv'
<1>1. PICK ip \in IPs : /\ pc[c] = "idle"
                        /\ received' = [received EXCEPT ![ip] = @ + 1]
                        /\ pc' = [pc EXCEPT ![c] = "blacklist"]
                        /\ src_ip' = [src_ip EXCEPT ![c] = ip]
                        /\ new_flood_count' = new_flood_count
                        /\ UNCHANGED maps
  BY DEF Parse, Receive, CountFrame, Goto
<1>2. ASSUME NEW k \in IPs
      PROVE  received'[k] >= received[k] /\ Countable(k)' >= Countable(k)
  <2>1. CASE k = ip
    <3>1. Uncounted(k)' = Uncounted(k) \cup {c} /\ c \notin Uncounted(k)
      BY <1>1, <2>1 DEF CpuTypeOK, Uncounted
    <3>2. IsFiniteSet(Uncounted(k)) /\ Cardinality(Uncounted(k)) \in Nat
      BY CountableType
    <3>3. Cardinality(Uncounted(k)') = Cardinality(Uncounted(k)) + 1
      BY <3>1, <3>2, FS_AddElement
    <3>4. received[k] \in Nat /\ received'[k] = received[k] + 1
      BY <1>1, <2>1 DEF CpuTypeOK
    <3> QED
      BY <3>2, <3>3, <3>4 DEF Countable
  <2>2. CASE k # ip
    <3>1. Uncounted(k)' = Uncounted(k) /\ received'[k] = received[k]
      BY <1>1, <2>2 DEF CpuTypeOK, Uncounted
    <3> QED
      BY <3>1, CountableKept DEF CpuTypeOK
  <2> QED
    BY <2>1, <2>2
<1>3. \A d \in CPUs : pc'[d] \in Held =>
        /\ pc[d] \in Held
        /\ new_flood_count'[d] = new_flood_count[d] /\ src_ip'[d] = src_ip[d]
  BY <1>1 DEF CpuTypeOK, Held
<1>4. CountsFollow
  BY <1>1, <1>2, <1>3 DEF CountsFollow, maps
<1>5. BanOverThreshold'
  BY <1>1 DEF CpuTypeOK, CountsInv, BanOverThreshold
<1> QED
  BY <1>4, <1>5, CountsFollowKeeps

(* A packet is counted: in the local, one more than the map, or in the map *)
(* itself if its address had no count.                                     *)
LEMMA CountsTaken ==
  ASSUME CpuTypeOK, CpuTypeOK', CountsInv, NEW c \in CPUs,
         LookupFlood(c) \/ WriteFirst(c)
  PROVE  CountsInv'
<1>1. /\ src_ip[c] \in IPs /\ pc[c] \in {"flood", "first"}
      /\ UNCHANGED <<src_ip, received, ip_blacklist_map>>
  BY DEF CpuTypeOK, LookupFlood, WriteFirst, maps, locals
<1>2. PICK ip \in IPs : ip = src_ip[c]
  BY <1>1
<1>3. \A d \in CPUs \ {c} : pc'[d] = pc[d] /\ new_flood_count'[d] = new_flood_count[d]
  BY DEF CpuTypeOK, LookupFlood, WriteFirst, Goto, locals
<1>4. \A k \in IPs : Uncounted(k)' \subseteq Uncounted(k)
  BY <1>1, <1>3 DEF Uncounted
<1>5. \A k \in IPs : received'[k] >= received[k] /\ Countable(k)' >= Countable(k)
  BY <1>1, <1>4, CountableKept DEF CpuTypeOK
<1>6. BanOverThreshold'
  BY <1>1, <1>3 DEF CpuTypeOK, CountsInv, BanOverThreshold, LookupFlood, WriteFirst, Goto
<1>7. /\ ip_flood_count_map[ip] \in Nat /\ ip_flood_count_map[ip] <= Countable(ip)
      /\ Countable(ip) \in Int /\ Countable(ip)' \in Int
      /\ received[ip] \in Nat /\ Cardinality(Uncounted(ip)) \in Nat
  <2>1. Cardinality(Uncounted(ip)') \in Nat
    BY FS_Subset, FS_CardinalityType, FloodAssumption DEF Uncounted
  <2>2. Countable(ip)' \in Int
    BY <2>1 DEF Countable, CpuTypeOK
  <2> QED
    BY <2>2, CountableType DEF CpuTypeOK, CountsInv
<1>8. ASSUME pc'[c] \notin {"flood", "first"}, pc'[c] \notin {"blacklist", "count", "lookup"}
      PROVE  Countable(ip)' >= Countable(ip) + 1
  <2>1. c \in Uncounted(ip) /\ c \notin Uncounted(ip)'
    BY <1>1, <1>2, <1>8 DEF Uncounted
  <2> QED
    BY <1>1, <1>4, <2>1, CountableKept
<1>9. CASE LookupFlood(c) /\ pc'[c] = "first"
  <2>1. UNCHANGED ip_flood_count_map /\ \A d \in CPUs : pc'[d] \in Held => d # c /\ pc[d] \in Held
    BY <1>3, <1>9 DEF LookupFlood, Held, maps
  <2>2. CountsFollow
    BY <1>1, <1>3, <1>5, <2>1 DEF CountsFollow
  <2> QED
    BY <1>6, <2>2, CountsFollowKeeps
<1>10. CASE LookupFlood(c) /\ pc'[c] # "first"
  <2>1. /\ pc'[c] = "flood_w" /\ UNCHANGED ip_flood_count_map
        /\ new_flood_count'[c] = ip_flood_count_map[ip] + 1
    BY <1>2, <1>10 DEF CpuTypeOK, LookupFlood, Goto, maps
  <2>2. new_flood_count'[c] >= 1 /\ new_flood_count'[c] <= Countable(ip)'
    BY <1>7, <1>8, <2>1
  <2>3. CountsFollow
    BY <1>1, <1>2, <1>3, <1>5, <2>1, <2>2 DEF CountsFollow
  <2> QED
    BY <1>6, <2>3, CountsFollowKeeps
<1>11. CASE WriteFirst(c)
  <2>1. /\ pc'[c] = "first_stamp"
        /\ ip_flood_count_map' = Update(ip_flood_count_map, ip, 1)
    BY <1>2, <1>11 DEF CpuTypeOK, WriteFirst, Goto
  <2>2. \A k \in IPs : \/ ip_flood_count_map'[k] = ip_flood_count_map[k]
                       \/ k = ip /\ ip_flood_count_map'[k] = 1
    BY <2>1 DEF Update, CpuTypeOK
  <2>3. 1 <= Countable(ip)'
    BY <1>7, <1>8, <2>1
  <2>4. \A d \in CPUs : pc'[d] \in Held => d # c /\ pc[d] \in Held
    BY <1>3, <2>1 DEF Held
  <2>5. CountsFollow
    BY <1>1, <1>3, <1>5, <2>2, <2>3, <2>4 DEF CountsFollow
  <2> QED
    BY <1>6, <2>5, CountsFollowKeeps
<1> QED
  BY <1>9, <1>10, <1>11

LEMMA CountsStep ==
  ASSUME TimedTypeOK, CountsInv, [CpuNext]_cpuVars
  PROVE  CountsInv'
<1>1. TimedTypeOK' /\ CpuTypeOK /\ CpuTypeOK'
  BY TimedStep DEF TimedTypeOK
<1> QED
  BY <1>1, CountsMoved, CountsParse, CountsTaken DEF CpuNext, RunCpu, Quiet, cpuVars
--------------------------------------------------------------------------------
(* The labels at which the address of the packet has a flood count.        *)
Entered == {"flood_w", "clock", "ban", "reset", "stamp", "first_stamp"}

(* With room in the maps: those CPUs' addresses are counted, an address    *)
(* counted and not stamped is about to be stamped, and somebody who knows  *)
(* is on the way to answer a count over the threshold.                     *)
Answering(c, ip) ==
  /\ src_ip[c] = ip
  /\ \/ pc[c] \in {"ban", "reset"}
     \/ pc[c] = "clock" /\ new_flood_count[c] > MAX_PACKETS

EntriesInv ==
  /\ \A c \in CPUs : pc[c] \in Entered => ip_flood_count_map[src_ip[c]] # 0
  /\ \A ip \in IPs :
       ip_flood_count_map[ip] # 0 /\ ip_timestamp_map[ip] = 0 =>
         \E c \in CPUs : src_ip[c] = ip /\ pc[c] = "first_stamp"
  /\ \A ip \in IPs :
       ip_flood_count_map[ip] > MAX_PACKETS =>
         ip \in ip_blacklist_map \/ \E c \in CPUs : Answering(c, ip)

LEMMA BanStored ==
  ASSUME Room, CpuTypeOK, NEW c \in CPUs, Ban(c)
  PROVE  ip_blacklist_map' = ip_blacklist_map \cup {src_ip[c]}
<1>1. src_ip[c] \in IPs /\ ip_blacklist_map \subseteq IPs
  BY DEF CpuTypeOK, Ban
<1>2. CASE src_ip[c] \in ip_blacklist_map
  BY <1>2 DEF Ban
<1>3. CASE src_ip[c] \notin ip_blacklist_map
  <2>1. Cardinality(ip_blacklist_map) < Cardinality(IPs)
    BY <1>1, <1>3, FewerAddresses
  <2>2. Cardinality(ip_blacklist_map) \in Nat /\ Cardinality(IPs) \in Nat
    BY <1>1, <1>3, FewerAddresses
  <2> QED
    BY <2>1, <2>2, FloodAssumption DEF Ban, Room
<1> QED
  BY <1>2, <1>3

(* Steps of one CPU that write no count and no stamp, and that neither     *)
(* leave an answer without giving it nor enter a label without a count.    *)
LEMMA EntriesLeft ==
  ASSUME CpuTypeOK, EntriesInv, NEW c \in CPUs,
         UNCHANGED <<ip_flood_count_map, ip_timestamp_map>>,
         \A d \in CPUs \ {c} : /\ pc'[d] = pc[d] /\ src_ip'[d] = src_ip[d]
                               /\ new_flood_count'[d] = new_flood_count[d],
         pc[c] # "first_stamp",
         pc'[c] \in Entered => /\ src_ip'[c] = src_ip[c] /\ src_ip[c] \in IPs
                               /\ ip_flood_count_map[src_ip[c]] # 0,
         ip_blacklist_map \subseteq ip_blacklist_map',
         \A ip \in IPs :
           Answering(c, ip) => Answering(c, ip)' \/ ip \in ip_blacklist_map'
  PROVE  EntriesInv'
<1>1. \A d \in CPUs : pc'[d] \in Entered => ip_flood_count_map'[src_ip'[d]] # 0
  BY DEF EntriesInv
<1>2. ASSUME NEW ip \in IPs, ip_flood_count_map'[ip] # 0, ip_timestamp_map'[ip] = 0
      PROVE  \E d \in CPUs : src_ip'[d] = ip /\ pc'[d] = "first_stamp"
  BY <1>2 DEF EntriesInv
<1>3. ASSUME NEW ip \in IPs, ip_flood_count_map'[ip] > MAX_PACKETS
      PROVE  ip \in ip_blacklist_map' \/ \E d \in CPUs : Answering(d, ip)'
  <2>1. CASE ip \in ip_blacklist_map
    BY <2>1
  <2>2. ASSUME NEW d \in CPUs, Answering(d, ip)
        PROVE  ip \in ip_blacklist_map' \/ Answering(d, ip)'
    BY <2>2 DEF Answering
  <2> QED
    BY <1>3, <2>1, <2>2 DEF EntriesInv
<1> QED
  BY <1>1, <1>2, <1>3 DEF EntriesInv

LEMMA EntriesRead ==
  ASSUME Room, TimedTypeOK, EntriesInv, NEW c \in CPUs,
         \/ Parse(c) \/ CountAndPass(c) \/ CheckBlacklist(c) \/ Ban(c) \/ CheckPort(c)
         \/ ReadNow(c) \/ LookupSeen(c) \/ LookupFlood(c) \/ TestWindow(c)
  PROVE  EntriesInv'
<1>0. CpuTypeOK
  BY DEF TimedTypeOK
<1> USE DEF CpuTypeOK, Entered, Answering
<1>1. CASE Parse(c)
  BY <1>0, <1>1, EntriesLeft DEF Parse, Receive, CountFrame, Goto, maps
<1>2. CASE CountAndPass(c)
  BY <1>0, <1>2, EntriesLeft DEF CountAndPass, ReceiveOther, CountFrame, maps
<1>3. CASE CheckBlacklist(c)
  BY <1>0, <1>3, EntriesLeft DEF CheckBlacklist, ReturnDrop, Return, Goto, maps, locals
<1>4. CASE Ban(c)
  BY <1>0, <1>4, BanStored, EntriesLeft DEF Ban, ReturnDrop, Return, Goto
<1>5. CASE CheckPort(c)
  <2>1. pc[c] = "l4" /\ Return(c) /\ UNCHANGED maps
    BY <1>5 DEF CheckPort, ReturnDrop, ReturnPass
  <2> QED
    BY <1>0, <2>1, EntriesLeft DEF Return, Goto, maps
<1>6. CASE ReadNow(c) \/ LookupSeen(c)
  BY <1>0, <1>6, EntriesLeft DEF ReadNow, LookupSeen, Goto, maps, locals
<1>7. CASE LookupFlood(c)
  BY <1>0, <1>7, EntriesLeft DEF LookupFlood, Goto, maps
<1>8. CASE TestWindow(c)
  <2>1. /\ pc[c] = "clock"
        /\ \E label \in {"reset", "ban", "l4"} :
             /\ pc' = [pc EXCEPT ![c] = label]
             /\ new_flood_count[c] > MAX_PACKETS => label \in {"reset", "ban"}
        /\ UNCHANGED <<maps, locals>>
    BY <1>8 DEF TestWindow, Window, Goto
  <2>2. ip_flood_count_map[src_ip[c]] # 0 /\ src_ip[c] \in IPs
    BY <1>0, <2>1 DEF EntriesInv
  <2>3. \A ip \in IPs : Answering(c, ip) => Answering(c, ip)'
    BY <1>0, <2>1 DEF locals
  <2> HIDE DEF Answering
  <2> QED
    BY <1>0, <2>1, <2>2, <2>3, EntriesLeft DEF maps, locals
<1> QED
  BY <1>1, <1>2, <1>3, <1>4, <1>5, <1>6, <1>7, <1>8

LEMMA EntriesWritten ==
  ASSUME Room, TimedTypeOK, CountsInv, EntriesInv, NEW c \in CPUs,
         WriteFlood(c) \/ ResetFlood(c) \/ WriteFirst(c)
  PROVE  EntriesInv'
<1>0. CpuTypeOK
  BY DEF TimedTypeOK
<1> DEFINE v == IF pc[c] = "flood_w" THEN new_flood_count[c] ELSE 1
<1>1. /\ src_ip[c] \in IPs /\ v \in Nat /\ v >= 1
  BY <1>0 DEF CpuTypeOK, CountsInv, Held, WriteFlood, ResetFlood, WriteFirst
<1>2. ip_flood_count_map' = [ip_flood_count_map EXCEPT ![src_ip[c]] = v]
  <2>1. ip_flood_count_map' = Update(ip_flood_count_map, src_ip[c], v)
    BY DEF WriteFlood, ResetFlood, WriteFirst
  <2>2. ip_flood_count_map \in [IPs -> Nat]
    BY <1>0 DEF CpuTypeOK
  <2> HIDE DEF v
  <2> QED
    BY <1>1, <2>1, <2>2, UpdateRoom DEF Room
<1>3. /\ UNCHANGED <<src_ip, ip_timestamp_map, ip_blacklist_map>>
      /\ \A d \in CPUs \ {c} : pc'[d] = pc[d] /\ new_flood_count'[d] = new_flood_count[d]
      /\ \/ pc[c] = "flood_w" /\ pc'[c] = "clock" /\ new_flood_count'[c] = v
         \/ pc[c] = "reset" /\ pc'[c] = "stamp"
         \/ pc[c] = "first" /\ pc'[c] = "first_stamp"
  BY <1>0 DEF CpuTypeOK, WriteFlood, ResetFlood, WriteFirst, Goto, locals
<1>4. pc[c] # "flood_w" => v <= MAX_PACKETS
  BY FloodAssumption
<1> HIDE DEF v
<1>5. ip_flood_count_map'[src_ip[c]] = v
      /\ \A k \in IPs \ {src_ip[c]} : ip_flood_count_map'[k] = ip_flood_count_map[k]
  BY <1>0, <1>1, <1>2 DEF CpuTypeOK
<1>6. \A d \in CPUs : pc[d] # "idle" => src_ip[d] \in IPs
  BY <1>0 DEF CpuTypeOK
<1>7. ASSUME NEW d \in CPUs, pc'[d] \in Entered
      PROVE  ip_flood_count_map'[src_ip'[d]] # 0
  <2>1. CASE src_ip[d] = src_ip[c]
    BY <1>1, <1>3, <1>5, <2>1
  <2>2. CASE src_ip[d] # src_ip[c]
    <3>1. d # c /\ pc[d] \in Entered
      BY <1>3, <1>7, <2>2
    <3>2. src_ip[d] \in IPs /\ ip_flood_count_map[src_ip[d]] # 0
      BY <1>6, <3>1 DEF EntriesInv, Entered
    <3> QED
      BY <1>3, <1>5, <2>2, <3>2
  <2> QED
    BY <2>1, <2>2
<1>8. ASSUME NEW ip \in IPs, ip_flood_count_map'[ip] # 0, ip_timestamp_map'[ip] = 0
      PROVE  \E d \in CPUs : src_ip'[d] = ip /\ pc'[d] = "first_stamp"
  <2>1. CASE ip = src_ip[c] /\ pc[c] = "first"
    BY <1>3, <2>1
  <2>2. CASE ip # src_ip[c] \/ pc[c] # "first"
    <3>1. ip_flood_count_map[ip] # 0
      <4>1. CASE ip # src_ip[c]
        BY <1>5, <1>8, <4>1
      <4>2. CASE ip = src_ip[c]
        BY <1>3, <2>2, <4>2 DEF EntriesInv, Entered
      <4> QED
        BY <4>1, <4>2
    <3>2. PICK d \in CPUs : src_ip[d] = ip /\ pc[d] = "first_stamp"
      BY <1>3, <1>8, <3>1 DEF EntriesInv
    <3> QED
      BY <1>3, <3>2
  <2> QED
    BY <2>1, <2>2
<1>9. ASSUME NEW ip \in IPs, ip_flood_count_map'[ip] > MAX_PACKETS
      PROVE  ip \in ip_blacklist_map' \/ \E d \in CPUs : Answering(d, ip)'
  <2>1. CASE ip = src_ip[c]
    <3>1. v > MAX_PACKETS /\ pc[c] = "flood_w"
      BY <1>1, <1>4, <1>5, <1>9, <2>1, FloodAssumption
    <3> QED
      BY <1>3, <2>1, <3>1 DEF Answering
  <2>2. CASE ip # src_ip[c]
    <3>1. ip_flood_count_map[ip] > MAX_PACKETS
      BY <1>5, <1>9, <2>2
    <3>2. ASSUME NEW d \in CPUs, Answering(d, ip) PROVE Answering(d, ip)'
      BY <1>3, <2>2, <3>2 DEF Answering
    <3> QED
      BY <1>3, <3>1, <3>2 DEF EntriesInv
  <2> QED
    BY <2>1, <2>2
<1> QED
  BY <1>7, <1>8, <1>9 DEF EntriesInv

LEMMA EntriesStamped ==
  ASSUME Room, TimedTypeOK, EntriesInv, NEW c \in CPUs, StampFirst(c) \/ Restamp(c)
  PROVE  EntriesInv'
<1>0. CpuTypeOK
  BY DEF TimedTypeOK
<1>1. /\ src_ip[c] \in IPs /\ now[c] \in Nat /\ now[c] >= 1
      /\ pc[c] \in {"first_stamp", "stamp"} /\ pc'[c] \in {"idle", "l4"}
      /\ UNCHANGED <<ip_flood_count_map, ip_blacklist_map>>
      /\ \A d \in CPUs \ {c} : /\ pc'[d] = pc[d] /\ src_ip'[d] = src_ip[d]
                               /\ new_flood_count'[d] = new_flood_count[d]
  BY <1>0 DEF TimedTypeOK, CpuTypeOK, ClockInv, Timed, StampFirst, Restamp,
     WriteTimestamp, ReturnPass, Return, Goto, locals
<1>2. ip_timestamp_map' = [ip_timestamp_map EXCEPT ![src_ip[c]] = now[c]]
  BY <1>0, <1>1, UpdateRoom DEF CpuTypeOK, Room, StampFirst, Restamp, WriteTimestamp
<1>3. /\ ip_timestamp_map'[src_ip[c]] # 0
      /\ \A k \in IPs \ {src_ip[c]} : ip_timestamp_map'[k] = ip_timestamp_map[k]
  BY <1>0, <1>1, <1>2 DEF CpuTypeOK
<1>4. ASSUME NEW d \in CPUs, pc'[d] \in Entered
      PROVE  ip_flood_count_map'[src_ip'[d]] # 0
  BY <1>1, <1>4 DEF EntriesInv, Entered
<1>5. ASSUME NEW ip \in IPs, ip_flood_count_map'[ip] # 0, ip_timestamp_map'[ip] = 0
      PROVE  \E d \in CPUs : src_ip'[d] = ip /\ pc'[d] = "first_stamp"
  <2>1. PICK d \in CPUs : src_ip[d] = ip /\ pc[d] = "first_stamp"
    BY <1>1, <1>3, <1>5 DEF EntriesInv
  <2> QED
    BY <1>1, <1>3, <1>5, <2>1
<1>6. ASSUME NEW ip \in IPs, ip_flood_count_map'[ip] > MAX_PACKETS
      PROVE  ip \in ip_blacklist_map' \/ \E d \in CPUs : Answering(d, ip)'
  <2>1. ASSUME NEW d \in CPUs, Answering(d, ip) PROVE Answering(d, ip)'
    BY <1>1, <2>1 DEF Answering
  <2> QED
    BY <1>1, <1>6, <2>1 DEF EntriesInv
<1> QED
  BY <1>4, <1>5, <1>6 DEF EntriesInv

LEMMA EntriesStep ==
  ASSUME Room, TimedTypeOK, CountsInv, EntriesInv, [CpuNext]_cpuVars
  PROVE  EntriesInv'
<1>1. CASE Tick \/ (\E p \in Ports : BlockPort(p)) \/ UNCHANGED vars
  BY <1>1 DEF Tick, BlockPort, EntriesInv, Answering, vars, maps, locals
<1> QED
  BY <1>1, EntriesRead, EntriesWritten, EntriesStamped
  DEF CpuNext, RunCpu, Quiet, cpuVars
--------------------------------------------------------------------------------
(* While no two CPUs have met on an address.  The pointer a CPU holds      *)
(* leads to the stamp of its address, which is not younger than its clock. *)
PointerFits(c) ==
  /\ last_seen[c] = IF pc[c] \in {"flood", "flood_w", "clock"}
                    THEN {ip_timestamp_map[src_ip[c]]} \ {0} ELSE {}
  /\ pc[c] \in {"lookup", "flood", "flood_w", "clock"} =>
       ip_timestamp_map[src_ip[c]] <= now[c]
  /\ pc[c] = "idle" => src_ip[c] = NotIP

(* In the first window no count is restarted, and each packet is counted   *)
(* before it passes: one that is about to pass is in the count already.    *)
CountedFirst(c) ==
  LET count == ip_flood_count_map[src_ip[c]]
  IN  /\ pc[c] \notin {"reset", "stamp"}
      /\ pc[c] = "flood_w" => new_flood_count[c] = count + 1
      /\ pc[c] \in {"clock", "ban", "l4"} => new_flood_count[c] = count
      /\ pc[c] \in {"clock", "l4", "first_stamp"} => passed[src_ip[c]] + 1 <= count
      /\ pc[c] = "l4" => count <= MAX_PACKETS
      /\ pc[c] = "first" => count = 0
      /\ pc[c] = "first_stamp" => count = 1

PassedCountedFirst(ip) ==
  passed[ip] <= ip_flood_count_map[ip] /\ passed[ip] <= MAX_PACKETS

UnracedInv ==
  ~ raced =>
    /\ \A c, d \in CPUs : c # d /\ src_ip[c] \in IPs => src_ip[c] # src_ip[d]
    /\ \A c \in CPUs : PointerFits(c)
    /\ clock <= TIME_WINDOW => /\ \A c \in CPUs : CountedFirst(c)
                               /\ \A ip \in IPs : PassedCountedFirst(ip)

(* A step of one CPU moves only what is about its own address.             *)
LEMMA UnracedOthers ==
  ASSUME CpuTypeOK, UnracedInv, ~ raced, UNCHANGED <<raced, clock>>,
         NEW c \in CPUs, src_ip[c] \in IPs, src_ip'[c] \in {src_ip[c], NotIP},
         \A d \in CPUs \ {c} :
            /\ pc'[d] = pc[d] /\ src_ip'[d] = src_ip[d]
            /\ new_flood_count'[d] = new_flood_count[d]
            /\ now'[d] = now[d] /\ last_seen'[d] = last_seen[d],
         \A k \in IPs \ {src_ip[c]} :
            /\ ip_flood_count_map'[k] = ip_flood_count_map[k]
            /\ ip_timestamp_map'[k] = ip_timestamp_map[k] /\ passed'[k] = passed[k],
         PointerFits(c)',
         clock <= TIME_WINDOW =>
           CountedFirst(c)' /\ \A ip \in {src_ip[c]} : PassedCountedFirst(ip)'
  PROVE  UnracedInv'
<1>1. ASSUME NEW d, NEW e \in CPUs, d \in CPUs, d # e, src_ip'[d] \in IPs
      PROVE  src_ip'[d] # src_ip'[e]
  BY <1>1, FloodAssumption DEF UnracedInv
<1>2. ASSUME NEW d \in CPUs \ {c}, pc[d] # "idle"
      PROVE  src_ip[d] \in IPs \ {src_ip[c]}
  BY <1>2 DEF UnracedInv, CpuTypeOK
<1>3. ASSUME NEW d \in CPUs \ {c} PROVE PointerFits(d)'
  <2>1. PointerFits(d)
    BY DEF UnracedInv
  <2>2. CASE pc[d] = "idle"
    BY <2>1, <2>2 DEF PointerFits
  <2>3. CASE pc[d] # "idle"
    <3>1. ip_timestamp_map'[src_ip'[d]] = ip_timestamp_map[src_ip[d]]
      BY <1>2, <2>3
    <3> QED
      BY <2>1, <2>3, <3>1 DEF PointerFits
  <2> QED
    BY <2>2, <2>3
<1>4. ASSUME NEW d \in CPUs \ {c}, clock <= TIME_WINDOW PROVE CountedFirst(d)'
  <2>1. CountedFirst(d)
    BY <1>4 DEF UnracedInv
  <2>2. CASE pc[d] = "idle"
    BY <2>2 DEF CountedFirst
  <2>3. CASE pc[d] # "idle"
    BY <1>2, <2>1, <2>3 DEF CountedFirst
  <2> QED
    BY <2>2, <2>3
<1>5. ASSUME NEW ip \in IPs, clock <= TIME_WINDOW PROVE PassedCountedFirst(ip)'
  <2>1. CASE ip = src_ip[c]
    BY <1>5, <2>1
  <2>2. CASE ip # src_ip[c]
    BY <1>5, <2>2 DEF UnracedInv, PassedCountedFirst
  <2> QED
    BY <2>1, <2>2
<1> QED
  BY <1>1, <1>3, <1>4, <1>5 DEF UnracedInv

LEMMA UnracedParse ==
  ASSUME CpuTypeOK, UnracedInv, NEW c \in CPUs, Parse(c)
  PROVE  UnracedInv'
<1> SUFFICES ASSUME ~ raced' PROVE UnracedInv'
  BY DEF UnracedInv
<1>1. ~ raced /\ \A d \in CPUs \ {c} : src_ip'[d] # src_ip'[c]
  <2>1. raced' = (raced \/ \E d \in CPUs \ {c} : src_ip'[d] = src_ip'[c])
    BY DEF Parse
  <2> QED
    BY <2>1
<1>2. /\ pc[c] = "idle" /\ pc' = [pc EXCEPT ![c] = "blacklist"]
      /\ \A d \in CPUs \ {c} : src_ip'[d] = src_ip[d]
      /\ UNCHANGED <<ip_flood_count_map, ip_timestamp_map, clock, new_flood_count,
                     now, passed, last_seen>>
  BY DEF CpuTypeOK, Parse, Receive, CountFrame, Goto, maps
<1>3. \A d \in CPUs : PointerFits(d)'
  BY <1>1, <1>2 DEF CpuTypeOK, UnracedInv, PointerFits
<1>4. clock <= TIME_WINDOW => \A d \in CPUs : CountedFirst(d)'
  BY <1>1, <1>2 DEF CpuTypeOK, UnracedInv, CountedFirst
<1>5. \A d, e \in CPUs : d # e /\ src_ip'[d] \in IPs => src_ip'[d] # src_ip'[e]
  BY <1>1, <1>2 DEF UnracedInv
<1>6. clock <= TIME_WINDOW => \A ip \in IPs : PassedCountedFirst(ip)'
  BY <1>1, <1>2 DEF UnracedInv, PassedCountedFirst
<1> QED
  BY <1>2, <1>3, <1>4, <1>5, <1>6 DEF UnracedInv

(* Nobody else holds a pointer that a stamp of c's address could disturb.  *)
LEMMA RecycleAlone ==
  ASSUME CpuTypeOK, UnracedInv, ~ raced, NEW c \in CPUs, src_ip[c] \in IPs, Recycle(c)
  PROVE  \A d \in CPUs : last_seen'[d] = last_seen[d]
<1> SUFFICES ASSUME NEW d \in CPUs, d # c PROVE last_seen'[d] = last_seen[d]
  BY DEF Recycle
<1>1. src_ip[d] # src_ip[c]
  BY DEF UnracedInv
<1>2. last_seen[d] = {} \/ last_seen[d] = {ip_timestamp_map[src_ip[d]]}
  BY DEF UnracedInv, PointerFits
<1>3. \A x : Cardinality({x}) = 1
  BY FS_Singleton
<1>4. last_seen[d] # {} => ~ (Cardinality(last_seen[d]) > 1)
  BY <1>2, <1>3
<1> QED
  BY <1>1, <1>4 DEF Recycle

LEMMA UnracedReads ==
  ASSUME Room, TimedTypeOK, EntriesInv, UnracedInv, ~ raced, NEW c \in CPUs,
         UNCHANGED raced,
         \/ ReadNow(c) \/ LookupSeen(c) \/ LookupFlood(c) \/ TestWindow(c)
  PROVE  UnracedInv'
<1>0. /\ CpuTypeOK /\ PointerFits(c) /\ pc[c] # "idle" /\ src_ip[c] \in IPs
      /\ UNCHANGED <<src_ip, clock, maps, passed>>
      /\ pc' = [pc EXCEPT ![c] = pc'[c]]
      /\ \A d \in CPUs \ {c} : /\ pc'[d] = pc[d] /\ now'[d] = now[d]
                               /\ new_flood_count'[d] = new_flood_count[d]
                               /\ last_seen'[d] = last_seen[d]
  BY DEF TimedTypeOK, CpuTypeOK, UnracedInv, ReadNow, LookupSeen, LookupFlood,
     TestWindow, Pointed, Goto, locals
<1>1. PICK ip \in IPs : ip = src_ip[c] /\ ip = src_ip'[c]
  BY <1>0
<1>2. /\ ip_timestamp_map[ip] \in Nat /\ ip_timestamp_map[ip] <= clock
      /\ ip_flood_count_map[ip] \in Nat /\ passed[ip] \in Nat
      /\ clock \in Nat /\ now[c] \in Nat /\ now[c] <= clock
      /\ new_flood_count[c] \in Nat
  BY DEF TimedTypeOK, CpuTypeOK, ClockInv
<1>3. ASSUME clock <= TIME_WINDOW
      PROVE  /\ CountedFirst(c) /\ PassedCountedFirst(ip) /\ PassedCountedFirst(ip)'
             /\ pc[c] # "l4"
  BY <1>0, <1>3 DEF UnracedInv, PassedCountedFirst, ReadNow, LookupSeen, LookupFlood,
     TestWindow, maps
<1>4. ASSUME PointerFits(c)', clock <= TIME_WINDOW => CountedFirst(c)'
      PROVE  UnracedInv'
  BY <1>0, <1>1, <1>3, <1>4, UnracedOthers DEF maps
<1>5. CASE ReadNow(c)
  <2>1. pc[c] = "count" /\ pc'[c] = "lookup" /\ now'[c] = clock /\ last_seen'[c] = last_seen[c]
    BY <1>0, <1>5 DEF CpuTypeOK, ReadNow, Goto
  <2>2. PointerFits(c)'
    BY <1>0, <1>1, <1>2, <2>1 DEF PointerFits, maps
  <2>3. CountedFirst(c)'
    BY <2>1 DEF CountedFirst
  <2> QED
    BY <1>4, <2>2, <2>3
<1>6. CASE LookupSeen(c)
  <2>1. /\ pc[c] = "lookup" /\ pc'[c] = "flood" /\ now'[c] = now[c]
        /\ last_seen'[c] = {ip_timestamp_map[src_ip[c]]} \ {0}
    BY <1>0, <1>6 DEF CpuTypeOK, LookupSeen, Pointed, Goto, locals
  <2>2. PointerFits(c)'
    BY <1>0, <1>1, <1>2, <2>1 DEF PointerFits, maps
  <2>3. CountedFirst(c)'
    BY <2>1 DEF CountedFirst
  <2> QED
    BY <1>4, <2>2, <2>3
<1>7. CASE LookupFlood(c)
  <2>1. /\ pc[c] = "flood" /\ now'[c] = now[c]
        /\ \/ /\ ip_flood_count_map[ip] = 0 /\ last_seen'[c] = {} /\ pc'[c] = "first"
           \/ /\ new_flood_count'[c] = ip_flood_count_map[ip] + 1
              /\ pc'[c] = "flood_w" /\ last_seen'[c] = last_seen[c]
    BY <1>0, <1>1, <1>7 DEF CpuTypeOK, LookupFlood, Pointed, Goto
  <2>2. PointerFits(c)'
    BY <1>0, <1>1, <1>2, <2>1 DEF PointerFits, maps
  <2>3. CountedFirst(c)'
    BY <1>0, <1>1, <2>1 DEF CountedFirst, maps
  <2> QED
    BY <1>4, <2>2, <2>3
<1>8. CASE TestWindow(c)
  <2>1. /\ pc[c] = "clock" /\ now'[c] = now[c] /\ last_seen'[c] = {}
        /\ new_flood_count'[c] = new_flood_count[c]
        /\ \/ last_seen[c] = {} /\ pc'[c] = "reset"
           \/ \E last \in last_seen[c] : pc'[c] = Window(c, last)
    BY <1>0, <1>8 DEF CpuTypeOK, TestWindow, Pointed, Goto, locals
  <2>2. pc'[c] \in {"reset", "ban", "l4"}
    BY <2>1 DEF Window
  <2>3. PointerFits(c)'
    BY <2>1, <2>2 DEF PointerFits
  <2>4. ip_flood_count_map[ip] # 0
    BY <1>1, <2>1 DEF EntriesInv, Entered
  <2>5. ip_timestamp_map[ip] # 0
    <3> SUFFICES ASSUME ip_timestamp_map[ip] = 0 PROVE FALSE
      OBVIOUS
    <3>1. PICK d \in CPUs : src_ip[d] = ip /\ pc[d] = "first_stamp"
      BY <2>4 DEF EntriesInv
    <3> QED
      BY <1>1, <2>1, <3>1 DEF UnracedInv
  <2>6. last_seen[c] = {ip_timestamp_map[ip]} /\ ip_timestamp_map[ip] <= now[c]
    BY <1>0, <1>1, <2>1, <2>5 DEF PointerFits
  <2>7. pc'[c] = Window(c, ip_timestamp_map[ip])
    BY <2>1, <2>6
  <2>8. ASSUME clock <= TIME_WINDOW
        PROVE  pc'[c] = IF new_flood_count[c] > MAX_PACKETS THEN "ban" ELSE "l4"
    <3>1. Elapsed(now[c], ip_timestamp_map[ip]) = now[c] - ip_timestamp_map[ip]
      BY <1>2, <2>6 DEF Elapsed
    <3>2. ~ (now[c] - ip_timestamp_map[ip] >= TIME_WINDOW)
      BY <1>2, <2>5, <2>6, <2>8, FloodAssumption
    <3> QED
      BY <2>7, <3>1, <3>2 DEF Window
  <2>9. ASSUME clock <= TIME_WINDOW PROVE CountedFirst(c)'
    BY <1>0, <1>1, <1>2, <1>3, <2>1, <2>8, <2>9, FloodAssumption DEF CountedFirst, maps
  <2> QED
    BY <1>4, <2>3, <2>9
<1> QED
  BY <1>5, <1>6, <1>7, <1>8

(* The steps that end the program.                                         *)
LEMMA UnracedReturns ==
  ASSUME Room, TimedTypeOK, UnracedInv, ~ raced, NEW c \in CPUs, UNCHANGED raced,
         \/ (CheckBlacklist(c) \/ Ban(c) \/ CheckPort(c)) /\ UNCHANGED last_seen
         \/ StampFirst(c)
  PROVE  UnracedInv'
<1>0. /\ CpuTypeOK /\ PointerFits(c) /\ src_ip[c] \in IPs /\ clock' = clock
      /\ UNCHANGED ip_flood_count_map
      /\ \/ pc[c] = "blacklist" /\ pc'[c] = "count" /\ UNCHANGED <<locals, passed>>
         \/ Return(c)
      /\ \A d \in CPUs \ {c} : pc'[d] = pc[d]
  BY DEF TimedTypeOK, CpuTypeOK, UnracedInv, CheckBlacklist, Ban, CheckPort, StampFirst,
     ReturnDrop, ReturnPass, Return, Goto, maps
<1>1. PICK ip \in IPs : ip = src_ip[c]
  BY <1>0
<1>2. /\ \A d \in CPUs \ {c} : /\ src_ip'[d] = src_ip[d] /\ now'[d] = now[d]
                               /\ new_flood_count'[d] = new_flood_count[d]
      /\ src_ip'[c] \in {src_ip[c], NotIP}
      /\ \/ pc'[c] = "count" /\ src_ip'[c] = src_ip[c]
         \/ pc'[c] = "idle" /\ src_ip'[c] = NotIP
  BY <1>0 DEF CpuTypeOK, Return, Goto, locals
<1>3. \A d \in CPUs : last_seen'[d] = last_seen[d]
  BY <1>0, RecycleAlone DEF StampFirst
<1>4. last_seen[c] = {}
  BY <1>0 DEF PointerFits, CheckBlacklist, Ban, CheckPort, StampFirst
<1>5. PointerFits(c)' /\ CountedFirst(c)'
  BY <1>2, <1>3, <1>4 DEF PointerFits, CountedFirst
<1>6. \A k \in IPs \ {ip} : /\ ip_timestamp_map'[k] = ip_timestamp_map[k]
                            /\ passed'[k] = passed[k]
  <2>1. CASE StampFirst(c)
    <3>1. ip_timestamp_map' = Update(ip_timestamp_map, ip, now[c])
          /\ passed' = [passed EXCEPT ![ip] = @ + 1]
      BY <1>1, <2>1 DEF StampFirst, ReturnPass
    <3> QED
      BY <1>0, <3>1 DEF Update, CpuTypeOK
  <2>2. CASE CheckBlacklist(c) \/ Ban(c) \/ CheckPort(c)
    BY <1>0, <1>1, <2>2 DEF CpuTypeOK, CheckBlacklist, Ban, CheckPort, ReturnDrop,
       ReturnPass, maps
  <2> QED
    BY <2>1, <2>2
<1>7. ASSUME clock <= TIME_WINDOW PROVE PassedCountedFirst(ip)'
  <2>1. /\ CountedFirst(c) /\ PassedCountedFirst(ip)
        /\ passed[ip] \in Nat /\ ip_flood_count_map[ip] \in Nat
        /\ MAX_PACKETS \in Nat \ {0}
    BY <1>0, <1>7, FloodAssumption DEF UnracedInv, CpuTypeOK
  <2>2. \/ passed'[ip] = passed[ip]
        \/ pc[c] \in {"l4", "first_stamp"} /\ passed'[ip] = passed[ip] + 1
    BY <1>0, <1>1 DEF CpuTypeOK, CheckBlacklist, Ban, CheckPort, StampFirst, ReturnDrop,
       ReturnPass
  <2>3. ip_flood_count_map'[ip] = ip_flood_count_map[ip]
    BY <1>0
  <2>4. CASE passed'[ip] = passed[ip]
    BY <2>1, <2>3, <2>4 DEF PassedCountedFirst
  <2>5. CASE pc[c] \in {"l4", "first_stamp"} /\ passed'[ip] = passed[ip] + 1
    <3>1. /\ passed[ip] + 1 <= ip_flood_count_map[ip]
          /\ ip_flood_count_map[ip] <= MAX_PACKETS
      BY <1>1, <2>1, <2>5 DEF CountedFirst
    <3> QED
      BY <2>1, <2>3, <2>5, <3>1 DEF PassedCountedFirst
  <2> QED
    BY <2>2, <2>4, <2>5
<1> QED
  BY <1>0, <1>1, <1>2, <1>3, <1>5, <1>6, <1>7, UnracedOthers

(* The steps that write a count or a stamp and go on.                      *)
LEMMA UnracedWrites ==
  ASSUME Room, TimedTypeOK, UnracedInv, ~ raced, NEW c \in CPUs, UNCHANGED raced,
         \/ (WriteFlood(c) \/ ResetFlood(c)) /\ UNCHANGED last_seen
         \/ WriteFirst(c) \/ Restamp(c)
  PROVE  UnracedInv'
<1>0. /\ CpuTypeOK /\ PointerFits(c) /\ src_ip[c] \in IPs
      /\ UNCHANGED <<clock, src_ip, now, passed>>
      /\ \A d \in CPUs \ {c} : pc'[d] = pc[d] /\ new_flood_count'[d] = new_flood_count[d]
  BY DEF TimedTypeOK, CpuTypeOK, UnracedInv, WriteFlood, ResetFlood, WriteFirst,
     Restamp, WriteTimestamp, Goto, locals
<1>1. PICK ip \in IPs : ip = src_ip[c]
  BY <1>0
<1>2. \A d \in CPUs : last_seen'[d] = last_seen[d]
  BY <1>0, RecycleAlone DEF WriteFirst, Restamp
<1>3. /\ ip_flood_count_map \in [IPs -> Nat] /\ ip_timestamp_map \in [IPs -> Nat]
      /\ new_flood_count[c] \in Nat /\ passed[ip] \in Nat /\ now[c] \in Nat
  BY <1>0 DEF CpuTypeOK
<1>4. ASSUME clock <= TIME_WINDOW PROVE CountedFirst(c) /\ PassedCountedFirst(ip)
  BY <1>4 DEF UnracedInv
<1>5. CASE WriteFlood(c)
  <2>1. /\ pc[c] = "flood_w" /\ pc'[c] = "clock" /\ UNCHANGED ip_timestamp_map
        /\ new_flood_count'[c] = new_flood_count[c]
    BY <1>0, <1>5 DEF CpuTypeOK, WriteFlood, Goto, locals
  <2>2. ip_flood_count_map' = [ip_flood_count_map EXCEPT ![ip] = new_flood_count[c]]
    <3>1. ip_flood_count_map' = Update(ip_flood_count_map, ip, new_flood_count[c])
      BY <1>1, <1>5 DEF WriteFlood
    <3> QED
      BY <1>3, <3>1, UpdateRoom DEF Room
  <2>3. PointerFits(c)'
    BY <1>0, <1>2, <2>1 DEF PointerFits
  <2>4. ASSUME clock <= TIME_WINDOW PROVE CountedFirst(c)' /\ PassedCountedFirst(ip)'
    <3>1. /\ new_flood_count[c] = ip_flood_count_map[ip] + 1
          /\ ip_flood_count_map'[ip] = new_flood_count[c] /\ passed'[ip] = passed[ip]
          /\ passed[ip] <= ip_flood_count_map[ip] /\ passed[ip] <= MAX_PACKETS
          /\ ip_flood_count_map[ip] \in Nat
      BY <1>0, <1>1, <1>3, <1>4, <2>1, <2>2, <2>4 DEF CountedFirst, PassedCountedFirst
    <3>2. PassedCountedFirst(ip)'
      BY <1>3, <3>1 DEF PassedCountedFirst
    <3>3. CountedFirst(c)'
      BY <1>0, <1>1, <1>3, <2>1, <3>1 DEF CountedFirst
    <3> QED
      BY <3>2, <3>3
  <2>5. \A k \in IPs \ {ip} : ip_flood_count_map'[k] = ip_flood_count_map[k]
    BY <1>3, <2>2
  <2> QED
    BY <1>0, <1>1, <1>2, <2>1, <2>3, <2>4, <2>5, UnracedOthers
<1>6. CASE ResetFlood(c)
  <2>1. pc[c] = "reset" /\ pc'[c] = "stamp" /\ UNCHANGED ip_timestamp_map
    BY <1>0, <1>6 DEF CpuTypeOK, ResetFlood, Goto
  <2>2. ip_flood_count_map' = Update(ip_flood_count_map, ip, 1)
    BY <1>1, <1>6 DEF ResetFlood
  <2>3. \A k \in IPs \ {ip} : ip_flood_count_map'[k] = ip_flood_count_map[k]
    BY <1>3, <2>2 DEF Update
  <2>4. PointerFits(c)'
    BY <1>0, <1>2, <2>1 DEF PointerFits
  <2>5. ~ (clock <= TIME_WINDOW)
    BY <1>4, <2>1 DEF CountedFirst
  <2> QED
    BY <1>0, <1>1, <1>2, <2>1, <2>3, <2>4, <2>5, UnracedOthers
<1>7. CASE WriteFirst(c)
  <2>1. pc[c] = "first" /\ pc'[c] = "first_stamp" /\ UNCHANGED ip_timestamp_map
    BY <1>0, <1>7 DEF CpuTypeOK, WriteFirst, Goto
  <2>2. ip_flood_count_map' = [ip_flood_count_map EXCEPT ![ip] = 1]
    <3>1. ip_flood_count_map' = Update(ip_flood_count_map, ip, 1)
      BY <1>1, <1>7 DEF WriteFirst
    <3> QED
      BY <1>3, <3>1, UpdateRoom DEF Room
  <2>3. PointerFits(c)'
    BY <1>0, <1>2, <2>1 DEF PointerFits
  <2>4. ASSUME clock <= TIME_WINDOW PROVE CountedFirst(c)' /\ PassedCountedFirst(ip)'
    <3>1. /\ ip_flood_count_map[ip] = 0
          /\ ip_flood_count_map'[ip] = 1 /\ passed'[ip] = passed[ip]
          /\ passed[ip] <= ip_flood_count_map[ip] /\ passed[ip] <= MAX_PACKETS
      BY <1>0, <1>1, <1>3, <1>4, <2>1, <2>2, <2>4 DEF CountedFirst, PassedCountedFirst
    <3>2. PassedCountedFirst(ip)'
      BY <1>3, <3>1 DEF PassedCountedFirst
    <3>3. CountedFirst(c)'
      BY <1>0, <1>1, <1>3, <2>1, <3>1 DEF CountedFirst
    <3> QED
      BY <3>2, <3>3
  <2>5. \A k \in IPs \ {ip} : ip_flood_count_map'[k] = ip_flood_count_map[k]
    BY <1>3, <2>2
  <2> QED
    BY <1>0, <1>1, <1>2, <2>1, <2>3, <2>4, <2>5, UnracedOthers
<1>8. CASE Restamp(c)
  <2>1. pc[c] = "stamp" /\ pc'[c] = "l4" /\ UNCHANGED ip_flood_count_map
    BY <1>0, <1>8 DEF CpuTypeOK, Restamp, WriteTimestamp, Goto
  <2>2. ip_timestamp_map' = Update(ip_timestamp_map, ip, now[c])
    BY <1>1, <1>8 DEF Restamp, WriteTimestamp
  <2>3. \A k \in IPs \ {ip} : ip_timestamp_map'[k] = ip_timestamp_map[k]
    BY <1>3, <2>2 DEF Update
  <2>4. PointerFits(c)'
    BY <1>0, <1>2, <2>1 DEF PointerFits
  <2>5. ~ (clock <= TIME_WINDOW)
    BY <1>4, <2>1 DEF CountedFirst
  <2> QED
    BY <1>0, <1>1, <1>2, <2>1, <2>3, <2>4, <2>5, UnracedOthers
<1> QED
  BY <1>5, <1>6, <1>7, <1>8

LEMMA UnracedStep ==
  ASSUME Room, TimedTypeOK, EntriesInv, UnracedInv, [CpuNext]_cpuVars
  PROVE  UnracedInv'
<1>0. CpuTypeOK
  BY DEF TimedTypeOK
<1>1. ASSUME NEW c \in CPUs, Parse(c) PROVE UnracedInv'
  BY <1>0, <1>1, UnracedParse
<1>2. ASSUME NEW c \in CPUs, RunCpu(c) PROVE UnracedInv'
  <2>1. CASE raced
    BY <1>2, <2>1 DEF RunCpu, UnracedInv
  <2>2. CASE ~ raced
    BY <1>2, <2>2, UnracedReads, UnracedReturns, UnracedWrites DEF RunCpu
  <2> QED
    BY <2>1, <2>2
<1>3. ASSUME UNCHANGED <<ip_flood_count_map, ip_timestamp_map, pc, locals, passed,
                         last_seen, raced>>,
             clock' \in {clock, clock + 1}
      PROVE  UnracedInv'
  <2>1. clock' <= TIME_WINDOW => clock <= TIME_WINDOW
    BY <1>0, <1>3, FloodAssumption DEF CpuTypeOK
  <2> QED
    BY <1>3, <2>1 DEF UnracedInv, PointerFits, CountedFirst, PassedCountedFirst, locals
<1>4. ASSUME NEW c \in CPUs, CountAndPass(c) PROVE UnracedInv'
  BY <1>3, <1>4 DEF CountAndPass, ReceiveOther, CountFrame, maps, locals
<1>5. CASE (Tick \/ \E p \in Ports : BlockPort(p)) /\ UNCHANGED <<last_seen, raced>>
  BY <1>3, <1>5 DEF Tick, BlockPort, maps, locals
<1>6. CASE UNCHANGED cpuVars
  BY <1>3, <1>6 DEF cpuVars, vars, maps
<1> QED
  BY <1>1, <1>2, <1>4, <1>5, <1>6 DEF CpuNext, Quiet, cpuVars
--------------------------------------------------------------------------------
(* All that the program keeps true, under any monitor.                     *)
CpuInv ==
  /\ TimedTypeOK
  /\ CountsInv
  /\ Room => EntriesInv /\ UnracedInv

LEMMA InitCpuInv == CpuInit => CpuInv
<1> SUFFICES ASSUME CpuInit PROVE CpuInv
  OBVIOUS
<1> USE FloodAssumption
<1>1. TimedTypeOK
  BY InitTimed
<1>2. \A ip \in IPs : Countable(ip) = 0
  <2> SUFFICES ASSUME NEW ip \in IPs PROVE Countable(ip) = 0
    OBVIOUS
  <2>1. Uncounted(ip) = {}
    BY DEF Uncounted, CpuInit, Init
  <2> QED
    BY <2>1, FS_EmptySet DEF Countable, CpuInit, Init
<1>3. CountsInv
  BY <1>2 DEF CountsInv, Held, BanOverThreshold, NoPrematureBan, CpuInit, Init
<1>4. EntriesInv
  BY DEF EntriesInv, Entered, CpuInit, Init
<1>5. \A c \in CPUs : pc[c] = "idle" /\ last_seen[c] = {} /\ src_ip[c] = NotIP
  BY DEF CpuInit, Init
<1>6. UnracedInv
  BY <1>5 DEF UnracedInv, PointerFits, CountedFirst, PassedCountedFirst, CpuInit, Init
<1> QED
  BY <1>1, <1>3, <1>4, <1>6 DEF CpuInv

LEMMA CpuInvStep == CpuInv /\ [CpuNext]_cpuVars => CpuInv'
BY TimedStep, CountsStep, EntriesStep, UnracedStep DEF CpuInv, Room

(* What has been set up before the sampler starts, and what cleanup has    *)
(* done at each of its stages.                                             *)
CleanInv ==
  /\ main \in {"handlers", "thread"} => csv # "none"
  /\ main = "thread" => handled = Signals
  /\ main \in {"remove", "close", "raise"} => ~ running
  /\ main \in {"close", "raise", "exited"} => ~ attached
  /\ main \in {"raise", "exited"} => csv = "closed"
  /\ main = "killed" => handled # Signals

ProcessInv == MonitorTypeOK /\ CpuInv /\ CleanInv
--------------------------------------------------------------------------------
LEMMA ProcessCpuStep == [MonitorNext]_allVars => [CpuNext]_cpuVars
BY DEF MonitorNext, MainStep, AttachXdp, OpenLog, InstallHandlers, StartThread, Poll,
   CleanUp, Stop, RemoveXdp, CloseLog, RaiseSystemExit, Proceed, Signal, SamplerStep,
   XdpStep, CpuNext, Over, allVars

LEMMA InitProcess == MonitorInit => ProcessInv
<1> SUFFICES ASSUME MonitorInit PROVE ProcessInv
  OBVIOUS
<1>1. CpuInv /\ CpuTypeOK
  BY InitCpuInv DEF MonitorInit, CpuInv, TimedTypeOK
<1>2. signals \in 0 .. MaxSignals /\ rows \in 0 .. MaxRows
  BY MonitorAssumption DEF MonitorInit
<1> QED
  BY <1>1, <1>2 DEF MonitorInit, ProcessInv, MonitorTypeOK, CleanInv, Gone

LEMMA ProcessStep == ProcessInv /\ [MonitorNext]_allVars => ProcessInv'
<1> SUFFICES ASSUME ProcessInv, [MonitorNext]_allVars PROVE ProcessInv'
  OBVIOUS
<1>1. CpuInv' /\ CpuTypeOK'
  BY ProcessCpuStep, CpuInvStep DEF ProcessInv, CpuInv, TimedTypeOK
<1> SUFFICES CleanInv' /\ (CpuTypeOK' => MonitorTypeOK')
  BY <1>1 DEF ProcessInv
<1> USE MonitorAssumption DEF ProcessInv, MonitorTypeOK, CleanInv, Gone
<1>2. CASE AttachXdp \/ OpenLog
  BY <1>2 DEF AttachXdp, OpenLog, Proceed
<1>3. CASE InstallHandlers
  BY <1>3 DEF InstallHandlers, Proceed, Signals
<1>4. CASE StartThread
  BY <1>4 DEF StartThread, Proceed
<1>5. CASE Poll
  BY <1>5 DEF Poll, Proceed
<1>6. CASE CleanUp
  <2>1. UNCHANGED <<handled, sampler, signals, rows>>
    BY <1>6 DEF CleanUp, Stop, RemoveXdp, CloseLog, RaiseSystemExit, Proceed
  <2>2. CASE Stop
    BY <2>1, <2>2 DEF Stop, Proceed
  <2>3. CASE RemoveXdp
    BY <2>1, <2>3 DEF RemoveXdp, Proceed
  <2>4. CASE CloseLog
    BY <2>1, <2>4 DEF CloseLog, Proceed
  <2>5. CASE RaiseSystemExit
    BY <2>1, <2>5 DEF RaiseSystemExit, Proceed
  <2> QED
    BY <1>6, <2>2, <2>3, <2>4, <2>5 DEF CleanUp
<1>7. CASE SamplerStep
  <2>1. UNCHANGED <<process, signals>> /\ main \notin Gone
    BY <1>7 DEF SamplerStep
  <2>2. /\ sampler \in {"test", "row"}
        /\ sampler' \in {"test", "row", "ended", "failed"}
        /\ rows' \in 0 .. MaxRows
    BY <1>7 DEF SamplerStep, TestFlag, WriteRow
  <2> QED
    BY <2>1, <2>2 DEF process
<1>8. CASE Signal
  <2>1. PICK s \in Signals : main' = IF s \in handled THEN "stop" ELSE "killed"
    BY <1>8 DEF Signal
  <2>2. UNCHANGED <<handled, guarded, running, attached, csv, sampler, rows>>
    BY <1>8 DEF Signal
  <2>3. signals' \in 0 .. MaxSignals
    BY <1>8 DEF Signal
  <2>4. main' = "stop" \/ (main' = "killed" /\ handled # Signals)
    BY <2>1
  <2> QED
    BY <2>2, <2>3, <2>4
<1>9. CASE XdpStep
  BY <1>9 DEF XdpStep, monitorVars, process
<1>10. CASE UNCHANGED allVars
  BY <1>10 DEF allVars, monitorVars, process
<1> HIDE DEF ProcessInv, MonitorTypeOK, CleanInv
<1> QED
  BY <1>2, <1>3, <1>4, <1>5, <1>6, <1>7, <1>8, <1>9, <1>10 DEF MonitorNext, MainStep, Over

LEMMA ProcessAlways == MonitorSpec => []ProcessInv
BY InitProcess, ProcessStep, PTL DEF MonitorSpec

(* Maps, locals, pointers and threads hold values of their types, and the  *)
(* sampler exists only once the log and both handlers do.                  *)
THEOREM ProcessTypeCorrect == MonitorSpec => []MonitorTypeOK
<1>1. ProcessInv => MonitorTypeOK
  BY DEF ProcessInv
<1> QED
  BY <1>1, ProcessAlways, PTL

(* Whatever stamps the CPUs' stale pointers read and whichever updates of  *)
(* full maps fail, no address is banned before it has been sent more than  *)
(* MAX_PACKETS packets.                                                    *)
THEOREM CpuNeverPremature == MonitorSpec => []NoPrematureBan
<1>1. ProcessInv => NoPrematureBan
  BY DEF ProcessInv, CpuInv, CountsInv
<1> QED
  BY <1>1, ProcessAlways, PTL

(* With room in the maps an address is counted without being stamped only  *)
(* while the CPU that counted it first is about to stamp it.               *)
THEOREM CountsAreStamped == MonitorSpec => []CountedIsStamped
<1>1. ProcessInv => CountedIsStamped
  BY DEF ProcessInv, CpuInv, EntriesInv, CountedIsStamped
<1> QED
  BY <1>1, ProcessAlways, PTL

(* With room in the maps a count over the threshold is answered: by a ban, *)
(* or by a CPU on its way to one or to a restart of the count.             *)
THEOREM FloodsAreHandled == MonitorSpec => []FloodHandled
<1>1. ProcessInv => FloodHandled
  BY DEF ProcessInv, CpuInv, EntriesInv, Answering, FloodHandled
<1> QED
  BY <1>1, ProcessAlways, PTL

(* With room in the maps, while no two CPUs have met on an address nobody  *)
(* gets more than MAX_PACKETS packets through in the first window.         *)
THEOREM UnracedPassesAtMost ==
  ASSUME Room PROVE MonitorSpec => []AtMostMaxPassUnraced
<1>1. ProcessInv => AtMostMaxPassUnraced
  BY DEF ProcessInv, CpuInv, UnracedInv, PassedCountedFirst, AtMostMaxPassUnraced,
     AtMostMaxPass
<1> QED
  BY <1>1, ProcessAlways, PTL

(* A process that ends by cleanup, during another cleanup or the second    *)
(* one included, leaves neither the program nor the log; it is killed only *)
(* before its handlers are in place.                                       *)
THEOREM ProcessEndsClean == MonitorSpec => []CleanExit
<1>1. ProcessInv => CleanExit
  BY DEF ProcessInv, CleanInv, CleanExit
<1> QED
  BY <1>1, ProcessAlways, PTL

(* Once cleanup has lowered the flag no row is begun.                      *)
THEOREM SamplerStops == MonitorSpec => NoRowAfterStop
<1>1. ProcessInv /\ [MonitorNext]_allVars
        => [rows' # rows => main \notin {"remove", "close", "raise"}]_allVars
  <2> SUFFICES ASSUME ProcessInv, [MonitorNext]_allVars, rows' # rows
               PROVE  main \notin {"remove", "close", "raise"}
    OBVIOUS
  <2>1. SamplerStep /\ TestFlag /\ running
    BY DEF MonitorNext, MainStep, AttachXdp, OpenLog, InstallHandlers, StartThread,
       Poll, CleanUp, Stop, RemoveXdp, CloseLog, RaiseSystemExit, Proceed, Signal,
       SamplerStep, TestFlag, WriteRow, XdpStep, Over, allVars, monitorVars
  <2> QED
    BY <2>1 DEF ProcessInv, CleanInv
<1> QED
  BY <1>1, ProcessAlways, PTL DEF MonitorSpec, NoRowAfterStop
================================================================================
