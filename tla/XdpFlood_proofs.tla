----------------------------- MODULE XdpFlood_proofs ---------------------------
(***************************************************************************)
(* For any number of CPUs and addresses, any threshold, window and map     *)
(* capacity, and whatever the CPUs' lookups and updates interleave to:     *)
(* the program keeps its types, never bans an address that has sent no     *)
(* more than MAX_PACKETS packets, and lets no packet in after the ban.  On *)
(* one CPU, with room in the maps, it implements the abstract filter and   *)
(* lets at most MAX_PACKETS packets through in the first window.           *)
(***************************************************************************)
EXTENDS FloodRefinement, FiniteSetTheorems, TLAPS

(* The CPUs whose packet of ip has arrived and is not in a flood count yet *)
Behind(ip) ==
  {c \in CPUs : /\ src_ip[c] = ip
                /\ pc[c] \in {"blacklist", "count", "count_w", "flood"}}

(* The labels at which new_flood_count is still going to be used.          *)
Carrying == {"flood_w", "clock", "lookup", "ban", "reset"}

(* Let B be what was received of each address before some moment.  A flood *)
(* count, in the map or in a CPU's local, stands for that many packets     *)
(* received since, and before the ones that are still behind.              *)
MapWithinTraffic(B) ==
  \A ip \in IPs :
    B[ip] + ip_flood_count_map[ip] + Cardinality(Behind(ip)) <= received[ip]

LocalWithinTraffic(B) ==
  \A c \in CPUs : pc[c] \in Carrying =>
    /\ new_flood_count[c] >= 1
    /\ B[src_ip[c]] + new_flood_count[c] + Cardinality(Behind(src_ip[c]))
         <= received[src_ip[c]]

BanOverThreshold ==
  \A c \in CPUs : pc[c] = "ban" => new_flood_count[c] > MAX_PACKETS

(* Only the bans in old may have been earned before.                       *)
BansEarned(B, old) ==
  \A ip \in ip_blacklist_map \ old : received[ip] > B[ip] + MAX_PACKETS

(* The inductive strengthening of NoPrematureBan, which is the case of a B *)
(* that is 0 everywhere and no old bans: a lost update makes a count too   *)
(* small, and no sequence of steps makes one too large.                    *)
FloodInv(B, old) ==
  /\ TypeOK
  /\ MapWithinTraffic(B)
  /\ LocalWithinTraffic(B)
  /\ BanOverThreshold
  /\ BansEarned(B, old)

Zeros == [ip \in IPs |-> 0]
--------------------------------------------------------------------------------
(* Update touches one key and leaves it or gives it the new value.         *)
LEMMA UpdateType ==
  ASSUME NEW map \in [IPs -> Nat], NEW ip \in IPs, NEW v \in Nat
  PROVE  /\ Update(map, ip, v) \in [IPs -> Nat]
         /\ Update(map, ip, v)[ip] \in {map[ip], v}
         /\ \A k \in IPs \ {ip} : Update(map, ip, v)[k] = map[k]
BY DEF Update

LEMMA AfterLookupLabel ==
  ASSUME NEW c, NEW last
  PROVE  /\ AfterLookup(c, last) \in {"stamp", "reset", "ban", "l4"}
         /\ AfterLookup(c, last) = "ban" => new_flood_count[c] > MAX_PACKETS
BY DEF AfterLookup

LEMMA TypeInit == Init => TypeOK
BY FloodAssumption DEF Init, TypeOK, Labels

LEMMA TypeStep == TypeOK /\ [Next]_vars => TypeOK'
<1> SUFFICES ASSUME TypeOK, [Next]_vars PROVE TypeOK'
  OBVIOUS
<1> USE FloodAssumption
<1>1. ASSUME NEW c \in CPUs, Receive(c) PROVE TypeOK'
  BY <1>1 DEF TypeOK, Receive, CountFrame, Goto, Labels, maps
<1>2. ASSUME NEW c \in CPUs, ReceiveOther(c) PROVE TypeOK'
  BY <1>2 DEF TypeOK, ReceiveOther, CountFrame, maps
<1>3. ASSUME NEW c \in CPUs, CheckBlacklist(c) PROVE TypeOK'
  BY <1>3 DEF TypeOK, CheckBlacklist, ReturnDrop, Return, Goto, Labels, maps, locals
<1>4. ASSUME NEW c \in CPUs, ReadCount(c) PROVE TypeOK'
  BY <1>4 DEF TypeOK, ReadCount, Goto, Labels, maps
<1>5. ASSUME NEW c \in CPUs, WriteCount(c) PROVE TypeOK'
  <2>1. ip_count_map' \in [IPs -> Nat]
    BY <1>5, UpdateType DEF TypeOK, WriteCount
  <2> QED
    BY <1>5, <2>1 DEF TypeOK, WriteCount, Goto, Labels, locals
<1>6. ASSUME NEW c \in CPUs, ReadFlood(c) PROVE TypeOK'
  BY <1>6 DEF TypeOK, ReadFlood, Goto, Labels, maps
<1>7. ASSUME NEW c \in CPUs, WriteFlood(c) PROVE TypeOK'
  <2>1. ip_flood_count_map' \in [IPs -> Nat]
    BY <1>7, UpdateType DEF TypeOK, WriteFlood
  <2> QED
    BY <1>7, <2>1 DEF TypeOK, WriteFlood, Goto, Labels, locals
<1>8. ASSUME NEW c \in CPUs, ReadClock(c) PROVE TypeOK'
  BY <1>8 DEF TypeOK, ReadClock, Goto, Labels, maps
<1>9. ASSUME NEW c \in CPUs, LookupTimestamp(c) PROVE TypeOK'
  <2>1. pc' \in [CPUs -> Labels]
    BY <1>9, AfterLookupLabel DEF TypeOK, LookupTimestamp, Goto, Labels
  <2>2. pc[c] # "idle" /\ \A d \in CPUs \ {c} : pc'[d] = pc[d]
    BY <1>9 DEF TypeOK, LookupTimestamp, Goto
  <2> QED
    BY <1>9, <2>1, <2>2 DEF TypeOK, LookupTimestamp, maps, locals
<1>10. ASSUME NEW c \in CPUs, Ban(c) PROVE TypeOK'
  BY <1>10 DEF TypeOK, Ban, ReturnDrop, Return, Goto, Labels
<1>11. ASSUME NEW c \in CPUs, ResetFlood(c) PROVE TypeOK'
  <2>1. ip_flood_count_map' \in [IPs -> Nat]
    BY <1>11, UpdateType DEF TypeOK, ResetFlood
  <2> QED
    BY <1>11, <2>1 DEF TypeOK, ResetFlood, Goto, Labels
<1>12. ASSUME NEW c \in CPUs, WriteTimestamp(c) PROVE TypeOK'
  <2>1. ip_timestamp_map' \in [IPs -> Nat]
    BY <1>12, UpdateType DEF TypeOK, WriteTimestamp
  <2> QED
    BY <1>12, <2>1 DEF TypeOK, WriteTimestamp, Goto, Labels, locals
<1>13. ASSUME NEW c \in CPUs, CheckPort(c) PROVE TypeOK'
  BY <1>13 DEF TypeOK, CheckPort, ReturnDrop, ReturnPass, Return, Goto, Labels, maps
<1>14. CASE Tick
  BY <1>14 DEF TypeOK, Tick, maps, locals
<1>15. ASSUME NEW p \in Ports, BlockPort(p) PROVE TypeOK'
  BY <1>15 DEF TypeOK, BlockPort, locals
<1>16. CASE UNCHANGED vars
  BY <1>16 DEF TypeOK, vars, maps, locals
<1> QED
  BY <1>1, <1>2, <1>3, <1>4, <1>5, <1>6, <1>7, <1>8, <1>9, <1>10, <1>11,
     <1>12, <1>13, <1>14, <1>15, <1>16
  DEF Next, Run, Quiet

(* Every reachable state is well typed, and a CPU inside the program holds *)
(* an IPv4 source address.                                                 *)
THEOREM TypeCorrect == Spec => []TypeOK
BY TypeInit, TypeStep, PTL DEF Spec
--------------------------------------------------------------------------------
LEMMA BehindFinite ==
  ASSUME NEW ip
  PROVE  IsFiniteSet(Behind(ip)) /\ Cardinality(Behind(ip)) \in Nat
BY FS_Subset, FS_CardinalityType, FloodAssumption DEF Behind

(* Among finite sets of CPUs a subset is not larger.                       *)
LEMMA Fewer ==
  ASSUME NEW S \in SUBSET CPUs, NEW T \in SUBSET S
  PROVE  /\ IsFiniteSet(S) /\ IsFiniteSet(T)
         /\ Cardinality(S) \in Nat /\ Cardinality(T) \in Nat
         /\ Cardinality(T) <= Cardinality(S)
         /\ T # S => Cardinality(T) < Cardinality(S)
BY FS_Subset, FS_CardinalityType, FloodAssumption

(* A step that neither receives a packet nor reads a flood count into a    *)
(* local leaves no more packets behind than there were.                    *)
LEMMA BehindShrinks ==
  ASSUME TypeOK, NEW ip, Behind(ip)' \subseteq Behind(ip)
  PROVE  /\ Cardinality(Behind(ip)) \in Nat
         /\ Cardinality(Behind(ip)') \in Nat
         /\ Cardinality(Behind(ip)') <= Cardinality(Behind(ip))
BY Fewer DEF Behind

LEMMA FloodInit == Init => FloodInv(Zeros, {})
<1> SUFFICES ASSUME Init PROVE FloodInv(Zeros, {})
  OBVIOUS
<1>1. \A ip \in IPs : Behind(ip) = {}
  BY DEF Init, Behind
<1>2. MapWithinTraffic(Zeros)
  BY <1>1, FS_EmptySet DEF MapWithinTraffic, Init, Zeros
<1>3. LocalWithinTraffic(Zeros) /\ BanOverThreshold /\ BansEarned(Zeros, {})
  BY DEF LocalWithinTraffic, BanOverThreshold, BansEarned, Carrying, Init
<1> QED
  BY <1>2, <1>3, TypeInit DEF FloodInv

(* What every step but Receive and ReadFlood does to the flood counts: it  *)
(* stores a local count or a smaller one, or leaves the map alone; it      *)
(* bans only what a CPU at "ban" works on.                                 *)
CountsOnlyStored ==
  /\ \A k \in IPs : received'[k] = received[k]
  /\ \A k \in IPs :
       \/ ip_flood_count_map'[k] = ip_flood_count_map[k]
       \/ \E c \in CPUs : /\ pc[c] \in Carrying /\ src_ip[c] = k
                          /\ ip_flood_count_map'[k] <= new_flood_count[c]
  /\ \A c \in CPUs : pc'[c] \in Carrying =>
       /\ pc[c] \in Carrying
       /\ new_flood_count'[c] = new_flood_count[c]
       /\ src_ip'[c] = src_ip[c]
  /\ \A k \in ip_blacklist_map' \ ip_blacklist_map :
       \E c \in CPUs : pc[c] = "ban" /\ src_ip[c] = k
  /\ \A k \in IPs : Behind(k)' \subseteq Behind(k)

LEMMA StoreStep ==
  ASSUME NEW B \in [IPs -> Nat], NEW old, FloodInv(B, old),
         TypeOK', BanOverThreshold', CountsOnlyStored
  PROVE  FloodInv(B, old)'
<1> USE FloodAssumption
<1>1. TypeOK
  BY DEF FloodInv
<1>2. ASSUME NEW k \in IPs
      PROVE  /\ Cardinality(Behind(k)) \in Nat
             /\ Cardinality(Behind(k)') \in Nat
             /\ Cardinality(Behind(k)') <= Cardinality(Behind(k))
  BY <1>1, BehindShrinks DEF CountsOnlyStored
<1>3. ASSUME NEW c \in CPUs, pc[c] \in Carrying
      PROVE  /\ src_ip[c] \in IPs /\ new_flood_count[c] \in Nat \ {0}
             /\ B[src_ip[c]] + new_flood_count[c] + Cardinality(Behind(src_ip[c]))
                  <= received[src_ip[c]]
             /\ B[src_ip[c]] \in Nat
  <2>1. src_ip[c] \in IPs /\ new_flood_count[c] \in Nat
    BY <1>1, <1>3 DEF TypeOK, Carrying
  <2>2. /\ new_flood_count[c] >= 1
        /\ B[src_ip[c]] + new_flood_count[c] + Cardinality(Behind(src_ip[c]))
             <= received[src_ip[c]]
    BY <1>3 DEF FloodInv, LocalWithinTraffic
  <2> QED
    BY <2>1, <2>2
<1>4. MapWithinTraffic(B)'
  <2> SUFFICES ASSUME NEW k \in IPs
               PROVE  B[k] + ip_flood_count_map'[k] + Cardinality(Behind(k)') <= received'[k]
    BY DEF MapWithinTraffic
  <2>1. /\ ip_flood_count_map[k] \in Nat /\ ip_flood_count_map'[k] \in Nat
        /\ received[k] \in Nat /\ received'[k] = received[k]
    BY <1>1 DEF TypeOK, CountsOnlyStored
  <2>2. CASE ip_flood_count_map'[k] = ip_flood_count_map[k]
    <3>1. B[k] + ip_flood_count_map[k] + Cardinality(Behind(k)) <= received[k]
      BY DEF FloodInv, MapWithinTraffic
    <3> QED
      BY <1>2, <2>1, <2>2, <3>1
  <2>3. CASE ip_flood_count_map'[k] # ip_flood_count_map[k]
    <3>1. PICK c \in CPUs : /\ pc[c] \in Carrying /\ src_ip[c] = k
                            /\ ip_flood_count_map'[k] <= new_flood_count[c]
      BY <2>3 DEF CountsOnlyStored
    <3> QED
      BY <1>2, <1>3, <2>1, <3>1
  <2> QED
    BY <2>2, <2>3
<1>5. LocalWithinTraffic(B)'
  <2> SUFFICES ASSUME NEW c \in CPUs, pc'[c] \in Carrying
               PROVE  (/\ new_flood_count[c] >= 1
                       /\ B[src_ip[c]] + new_flood_count[c] + Cardinality(Behind(src_ip[c]))
                            <= received[src_ip[c]])'
    BY DEF LocalWithinTraffic, Carrying
  <2>1. /\ pc[c] \in Carrying
        /\ new_flood_count'[c] = new_flood_count[c]
        /\ src_ip'[c] = src_ip[c]
    BY DEF CountsOnlyStored
  <2>2. PICK k \in IPs : k = src_ip[c] /\ k = src_ip'[c]
    BY <1>3, <2>1
  <2>3. received[k] \in Nat /\ received'[k] = received[k]
    BY <1>1 DEF TypeOK, CountsOnlyStored
  <2>4. /\ new_flood_count'[c] \in Nat \ {0}
        /\ B[k] + new_flood_count'[c] + Cardinality(Behind(k)') <= received'[k]
    BY <1>2, <1>3, <2>1, <2>2, <2>3
  <2> QED
    BY <2>2, <2>4
<1>6. BansEarned(B, old)'
  <2> SUFFICES ASSUME NEW k \in ip_blacklist_map' \ old PROVE received'[k] > B[k] + MAX_PACKETS
    BY DEF BansEarned
  <2>1. /\ k \in IPs /\ received[k] \in Nat /\ received'[k] = received[k]
    BY <1>1 DEF TypeOK, CountsOnlyStored
  <2>2. CASE k \in ip_blacklist_map
    BY <2>1, <2>2 DEF FloodInv, BansEarned
  <2>3. CASE k \notin ip_blacklist_map
    <3>1. PICK c \in CPUs : pc[c] = "ban" /\ src_ip[c] = k
      BY <2>3 DEF CountsOnlyStored
    <3>2. new_flood_count[c] > MAX_PACKETS
      BY <3>1 DEF FloodInv, BanOverThreshold
    <3> QED
      BY <1>2, <1>3, <2>1, <3>1, <3>2 DEF Carrying
  <2> QED
    BY <2>2, <2>3
<1> QED
  BY <1>4, <1>5, <1>6 DEF FloodInv

(* Every step but Receive and ReadFlood is such a step.                    *)
LEMMA OtherSteps ==
  ASSUME NEW B \in [IPs -> Nat], NEW old, FloodInv(B, old), TypeOK',
         \/ \E c \in CPUs :
               \/ ReceiveOther(c) \/ CheckBlacklist(c) \/ ReadCount(c)
               \/ WriteCount(c) \/ WriteFlood(c) \/ ReadClock(c)
               \/ LookupTimestamp(c) \/ Ban(c) \/ ResetFlood(c)
               \/ WriteTimestamp(c) \/ CheckPort(c)
         \/ Tick
         \/ \E p \in Ports : BlockPort(p)
         \/ UNCHANGED vars
  PROVE  FloodInv(B, old)'
<1>0. TypeOK /\ TypeOK' /\ FloodAssumption
  BY FloodAssumption DEF FloodInv
<1>1. ASSUME NEW c \in CPUs, ReceiveOther(c) PROVE CountsOnlyStored /\ BanOverThreshold'
  BY <1>1, <1>0 DEF TypeOK, FloodInv, CountsOnlyStored, BanOverThreshold,
     Behind, Carrying, ReceiveOther, CountFrame, maps
<1>2. ASSUME NEW c \in CPUs, CheckBlacklist(c) PROVE CountsOnlyStored /\ BanOverThreshold'
  BY <1>2, <1>0 DEF TypeOK, FloodInv, CountsOnlyStored, BanOverThreshold,
     Behind, Carrying, CheckBlacklist, ReturnDrop, Return, Goto, maps, locals
<1>3. ASSUME NEW c \in CPUs, ReadCount(c) PROVE CountsOnlyStored /\ BanOverThreshold'
  BY <1>3, <1>0 DEF TypeOK, FloodInv, CountsOnlyStored, BanOverThreshold,
     Behind, Carrying, ReadCount, Goto, maps
<1>4. ASSUME NEW c \in CPUs, WriteCount(c) PROVE CountsOnlyStored /\ BanOverThreshold'
  BY <1>4, <1>0 DEF TypeOK, FloodInv, CountsOnlyStored, BanOverThreshold,
     Behind, Carrying, WriteCount, Goto, locals
<1>5. ASSUME NEW c \in CPUs, WriteFlood(c) PROVE CountsOnlyStored /\ BanOverThreshold'
  <2>1. \A k \in IPs : \/ ip_flood_count_map'[k] = ip_flood_count_map[k]
                       \/ /\ src_ip[c] = k
                          /\ ip_flood_count_map'[k] <= new_flood_count[c]
    <3>1. src_ip[c] \in IPs /\ new_flood_count[c] \in Nat
      BY <1>5, <1>0 DEF TypeOK, WriteFlood
    <3>2. /\ ip_flood_count_map \in [IPs -> Nat]
          /\ ip_flood_count_map' = Update(ip_flood_count_map, src_ip[c], new_flood_count[c])
      BY <1>5, <1>0 DEF TypeOK, WriteFlood
    <3>3. \A k \in IPs :
             \/ ip_flood_count_map'[k] = ip_flood_count_map[k]
             \/ k = src_ip[c] /\ ip_flood_count_map'[k] = new_flood_count[c]
      BY <3>1, <3>2 DEF Update
    <3> QED
      BY <3>1, <3>3
  <2>2. pc[c] = "flood_w" /\ pc' = [pc EXCEPT ![c] = "clock"] /\ src_ip' = src_ip
    BY <1>5 DEF WriteFlood, Goto, locals
  <2>3. /\ received' = received /\ new_flood_count' = new_flood_count
        /\ ip_blacklist_map' = ip_blacklist_map
    BY <1>5 DEF WriteFlood, locals
  <2>4. \A k \in IPs : Behind(k)' \subseteq Behind(k)
    BY <1>0, <2>2 DEF TypeOK, Behind
  <2>5. \A d \in CPUs : pc'[d] \in Carrying => pc[d] \in Carrying
    BY <1>0, <2>2 DEF TypeOK, Carrying
  <2>6. BanOverThreshold'
    BY <1>0, <2>2, <2>3 DEF TypeOK, FloodInv, BanOverThreshold
  <2>7. pc[c] \in Carrying
    BY <2>2 DEF Carrying
  <2> QED
    BY <2>1, <2>2, <2>3, <2>4, <2>5, <2>6, <2>7 DEF CountsOnlyStored
<1>6. ASSUME NEW c \in CPUs, ReadClock(c) PROVE CountsOnlyStored /\ BanOverThreshold'
  BY <1>6, <1>0 DEF TypeOK, FloodInv, CountsOnlyStored, BanOverThreshold,
     Behind, Carrying, ReadClock, Goto, maps
<1>7. ASSUME NEW c \in CPUs, LookupTimestamp(c) PROVE CountsOnlyStored /\ BanOverThreshold'
  BY <1>7, <1>0, AfterLookupLabel DEF TypeOK, FloodInv, CountsOnlyStored, BanOverThreshold,
     Behind, Carrying, LookupTimestamp, Goto, maps, locals
<1>8. ASSUME NEW c \in CPUs, Ban(c) PROVE CountsOnlyStored /\ BanOverThreshold'
  BY <1>8, <1>0 DEF TypeOK, FloodInv, CountsOnlyStored, BanOverThreshold,
     Behind, Carrying, Ban, ReturnDrop, Return, Goto
<1>9. ASSUME NEW c \in CPUs, ResetFlood(c) PROVE CountsOnlyStored /\ BanOverThreshold'
  <2>1. \A k \in IPs : \/ ip_flood_count_map'[k] = ip_flood_count_map[k]
                       \/ /\ src_ip[c] = k
                          /\ ip_flood_count_map'[k] <= new_flood_count[c]
    <3>1. src_ip[c] \in IPs /\ new_flood_count[c] \in Nat /\ new_flood_count[c] >= 1
      BY <1>9, <1>0 DEF TypeOK, FloodInv, LocalWithinTraffic, Carrying, ResetFlood
    <3>2. /\ ip_flood_count_map \in [IPs -> Nat]
          /\ ip_flood_count_map' = Update(ip_flood_count_map, src_ip[c], 1)
      BY <1>9, <1>0 DEF TypeOK, ResetFlood
    <3>3. /\ ip_flood_count_map'[src_ip[c]] \in {ip_flood_count_map[src_ip[c]], 1}
          /\ \A k \in IPs \ {src_ip[c]} : ip_flood_count_map'[k] = ip_flood_count_map[k]
      BY <3>1, <3>2 DEF Update
    <3> QED
      BY <3>1, <3>3
  <2>2. pc[c] = "reset" /\ pc' = [pc EXCEPT ![c] = "stamp"] /\ src_ip' = src_ip
    BY <1>9 DEF ResetFlood, Goto
  <2> QED
    BY <1>9, <1>0, <2>1 DEF TypeOK, FloodInv, CountsOnlyStored, BanOverThreshold,
       Behind, Carrying, ResetFlood, Goto
<1>10. ASSUME NEW c \in CPUs, WriteTimestamp(c) PROVE CountsOnlyStored /\ BanOverThreshold'
  BY <1>10, <1>0 DEF TypeOK, FloodInv, CountsOnlyStored, BanOverThreshold,
     Behind, Carrying, WriteTimestamp, Goto, locals
<1>11. ASSUME NEW c \in CPUs, CheckPort(c) PROVE CountsOnlyStored /\ BanOverThreshold'
  <2>1. /\ UNCHANGED <<maps, received>>
        /\ pc[c] = "l4" /\ pc' = [pc EXCEPT ![c] = "idle"]
        /\ src_ip' = [src_ip EXCEPT ![c] = NotIP]
        /\ new_flood_count' = [new_flood_count EXCEPT ![c] = 0]
    BY <1>11 DEF CheckPort, ReturnDrop, ReturnPass, Return, Goto
  <2>2. /\ pc'[c] = "idle"
        /\ \A d \in CPUs : d # c =>
             /\ pc'[d] = pc[d] /\ src_ip'[d] = src_ip[d]
             /\ new_flood_count'[d] = new_flood_count[d]
    BY <2>1, <1>0 DEF TypeOK
  <2>3. \A k \in IPs : Behind(k)' = Behind(k)
    BY <2>1, <2>2 DEF Behind
  <2> QED
    BY <2>1, <2>2, <2>3, <1>0
       DEF FloodInv, CountsOnlyStored, BanOverThreshold, Carrying, maps
<1>12. ASSUME Tick PROVE CountsOnlyStored /\ BanOverThreshold'
  BY <1>12, <1>0 DEF FloodInv, CountsOnlyStored, BanOverThreshold, Behind, Tick, maps, locals
<1>13. ASSUME NEW p \in Ports, BlockPort(p) PROVE CountsOnlyStored /\ BanOverThreshold'
  BY <1>13, <1>0 DEF FloodInv, CountsOnlyStored, BanOverThreshold, Behind, BlockPort, locals
<1>14. ASSUME UNCHANGED vars PROVE CountsOnlyStored /\ BanOverThreshold'
  BY <1>14, <1>0 DEF FloodInv, CountsOnlyStored, BanOverThreshold, Behind, vars, maps, locals
<1>15. CountsOnlyStored /\ BanOverThreshold'
  BY <1>1, <1>2, <1>3, <1>4, <1>5, <1>6, <1>7, <1>8, <1>9, <1>10, <1>11,
     <1>12, <1>13, <1>14
<1> QED
  BY <1>15, StoreStep

(* A new packet puts its CPU behind for its address, and for no other.     *)
LEMMA ReceiveStep ==
  ASSUME NEW B \in [IPs -> Nat], NEW old, FloodInv(B, old), TypeOK', NEW c \in CPUs, Receive(c)
  PROVE  FloodInv(B, old)'
<1>0. TypeOK /\ TypeOK' /\ FloodAssumption
  BY FloodAssumption DEF FloodInv
<1>1. PICK ip \in IPs : /\ pc[c] = "idle"
                        /\ received' = [received EXCEPT ![ip] = @ + 1]
                        /\ pc' = [pc EXCEPT ![c] = "blacklist"]
                        /\ src_ip' = [src_ip EXCEPT ![c] = ip]
                        /\ new_flood_count' = new_flood_count
                        /\ ip_flood_count_map' = ip_flood_count_map
                        /\ ip_blacklist_map' = ip_blacklist_map
  BY DEF Receive, CountFrame, Goto, maps
<1>2. ASSUME NEW k \in IPs
      PROVE  /\ Cardinality(Behind(k)) \in Nat
             /\ Cardinality(Behind(k)') \in Nat
             /\ received[k] \in Nat /\ received'[k] \in Nat
             /\ received'[k] - Cardinality(Behind(k)')
                  = received[k] - Cardinality(Behind(k))
             /\ received'[k] >= received[k]
  <2>1. IsFiniteSet(Behind(k)) /\ Cardinality(Behind(k)) \in Nat
    BY BehindFinite
  <2>2. received[k] \in Nat
    BY <1>0 DEF TypeOK
  <2>3. CASE k = ip
    <3>1. c \notin Behind(k) /\ Behind(k)' = Behind(k) \cup {c}
      BY <1>0, <1>1, <2>3 DEF TypeOK, Behind
    <3>2. Cardinality(Behind(k)') = Cardinality(Behind(k)) + 1
      BY <2>1, <3>1, FS_AddElement
    <3>3. received'[k] = received[k] + 1
      BY <1>0, <1>1, <2>3 DEF TypeOK
    <3> QED
      BY <2>1, <2>2, <3>2, <3>3
  <2>4. CASE k # ip
    <3>1. Behind(k)' = Behind(k)
      BY <1>0, <1>1, <2>4 DEF TypeOK, Behind
    <3>2. received'[k] = received[k]
      BY <1>0, <1>1, <2>4 DEF TypeOK
    <3> QED
      BY <2>1, <2>2, <3>1, <3>2
  <2> QED
    BY <2>3, <2>4
<1>3. MapWithinTraffic(B)'
  <2> SUFFICES ASSUME NEW k \in IPs
               PROVE  B[k] + ip_flood_count_map'[k] + Cardinality(Behind(k)') <= received'[k]
    BY DEF MapWithinTraffic
  <2>1. /\ ip_flood_count_map[k] \in Nat /\ ip_flood_count_map'[k] = ip_flood_count_map[k]
        /\ B[k] + ip_flood_count_map[k] + Cardinality(Behind(k)) <= received[k]
    BY <1>0, <1>1 DEF TypeOK, FloodInv, MapWithinTraffic
  <2> QED
    BY <1>2, <2>1
<1>4. LocalWithinTraffic(B)'
  <2> SUFFICES ASSUME NEW d \in CPUs, pc'[d] \in Carrying
               PROVE  (/\ new_flood_count[d] >= 1
                       /\ B[src_ip[d]] + new_flood_count[d] + Cardinality(Behind(src_ip[d]))
                            <= received[src_ip[d]])'
    BY DEF LocalWithinTraffic, Carrying
  <2>1. d # c /\ pc[d] \in Carrying
    BY <1>0, <1>1 DEF TypeOK, Carrying
  <2>2. PICK k \in IPs : k = src_ip[d] /\ k = src_ip'[d]
    BY <1>0, <1>1, <2>1 DEF TypeOK, Carrying
  <2>3. /\ new_flood_count[d] \in Nat /\ new_flood_count'[d] = new_flood_count[d]
        /\ new_flood_count[d] >= 1
        /\ B[k] + new_flood_count[d] + Cardinality(Behind(k)) <= received[k]
    BY <1>0, <1>1, <2>1, <2>2 DEF TypeOK, FloodInv, LocalWithinTraffic
  <2>4. B[k] + new_flood_count[d] + Cardinality(Behind(k)') <= received'[k]
    BY <1>2, <2>3
  <2> QED
    BY <2>2, <2>3, <2>4
<1>5. BanOverThreshold'
  BY <1>0, <1>1 DEF TypeOK, FloodInv, BanOverThreshold
<1>6. BansEarned(B, old)'
  <2> SUFFICES ASSUME NEW k \in ip_blacklist_map \ old PROVE received'[k] > B[k] + MAX_PACKETS
    BY <1>1 DEF BansEarned
  <2>1. k \in IPs /\ received[k] > B[k] + MAX_PACKETS
    BY <1>0 DEF TypeOK, FloodInv, BansEarned
  <2> QED
    BY <1>0, <1>2, <2>1
<1> QED
  BY <1>0, <1>3, <1>4, <1>5, <1>6 DEF FloodInv

(* Reading a count makes its packet part of that count: the CPU is behind  *)
(* no longer and its local is one more than the map.                       *)
LEMMA ReadFloodStep ==
  ASSUME NEW B \in [IPs -> Nat], NEW old, FloodInv(B, old), TypeOK', NEW c \in CPUs, ReadFlood(c)
  PROVE  FloodInv(B, old)'
<1>0. TypeOK /\ TypeOK' /\ FloodAssumption
  BY FloodAssumption DEF FloodInv
<1> DEFINE ip == src_ip[c]
<1>1. /\ ip \in IPs /\ pc[c] = "flood" /\ pc' = [pc EXCEPT ![c] = "flood_w"]
      /\ new_flood_count' = [new_flood_count EXCEPT ![c] = ip_flood_count_map[ip] + 1]
      /\ src_ip' = src_ip /\ received' = received
      /\ ip_flood_count_map' = ip_flood_count_map
      /\ ip_blacklist_map' = ip_blacklist_map
  BY <1>0 DEF TypeOK, ReadFlood, Goto, maps
<1>2. ASSUME NEW k \in IPs
      PROVE  /\ Cardinality(Behind(k)) \in Nat
             /\ Cardinality(Behind(k)') \in Nat
             /\ Cardinality(Behind(k)') <= Cardinality(Behind(k))
  <2>1. Behind(k)' \subseteq Behind(k)
    BY <1>0, <1>1 DEF TypeOK, Behind
  <2> QED
    BY <1>0, <2>1, BehindShrinks
<1>3. Cardinality(Behind(ip)') + 1 <= Cardinality(Behind(ip))
  <2>1. /\ c \in Behind(ip) /\ c \notin Behind(ip)' /\ Behind(ip)' \subseteq Behind(ip)
        /\ Behind(ip) \subseteq CPUs
    BY <1>0, <1>1 DEF TypeOK, Behind
  <2>2. Cardinality(Behind(ip)') < Cardinality(Behind(ip))
    BY <2>1, Fewer
  <2> QED
    BY <1>1, <1>2, <2>2
<1>4. MapWithinTraffic(B)'
  <2> SUFFICES ASSUME NEW k \in IPs
               PROVE  B[k] + ip_flood_count_map[k] + Cardinality(Behind(k)') <= received[k]
    BY <1>1 DEF MapWithinTraffic
  <2>1. /\ ip_flood_count_map[k] \in Nat /\ received[k] \in Nat
        /\ B[k] + ip_flood_count_map[k] + Cardinality(Behind(k)) <= received[k]
    BY <1>0 DEF TypeOK, FloodInv, MapWithinTraffic
  <2> QED
    BY <1>2, <2>1
<1>5. LocalWithinTraffic(B)'
  <2> SUFFICES ASSUME NEW d \in CPUs, pc'[d] \in Carrying
               PROVE  (/\ new_flood_count[d] >= 1
                       /\ B[src_ip[d]] + new_flood_count[d] + Cardinality(Behind(src_ip[d]))
                            <= received[src_ip[d]])'
    BY DEF LocalWithinTraffic, Carrying
  <2>1. CASE d = c
    <3>1. /\ ip_flood_count_map[ip] \in Nat /\ received[ip] \in Nat
          /\ B[ip] + ip_flood_count_map[ip] + Cardinality(Behind(ip)) <= received[ip]
      BY <1>0, <1>1 DEF TypeOK, FloodInv, MapWithinTraffic
    <3>2. new_flood_count'[c] = ip_flood_count_map[ip] + 1
      BY <1>0, <1>1 DEF TypeOK
    <3>3. B[ip] + new_flood_count'[c] + Cardinality(Behind(ip)') <= received[ip]
      BY <1>1, <1>2, <1>3, <3>1, <3>2
    <3>4. PICK k \in IPs : k = src_ip[c] /\ k = src_ip'[c]
      BY <1>1
    <3> HIDE DEF ip
    <3> QED
      BY <1>1, <2>1, <3>1, <3>2, <3>3, <3>4 DEF ip
  <2>2. CASE d # c
    <3>1. pc[d] \in Carrying
      BY <1>0, <1>1, <2>2 DEF TypeOK
    <3>2. PICK k \in IPs : k = src_ip[d] /\ k = src_ip'[d]
      BY <1>0, <1>1, <3>1 DEF TypeOK, Carrying
    <3>3. /\ new_flood_count[d] \in Nat /\ new_flood_count'[d] = new_flood_count[d]
          /\ new_flood_count[d] >= 1 /\ received[k] \in Nat
          /\ B[k] + new_flood_count[d] + Cardinality(Behind(k)) <= received[k]
      BY <1>0, <1>1, <2>2, <3>1, <3>2 DEF TypeOK, FloodInv, LocalWithinTraffic
    <3>4. B[k] + new_flood_count[d] + Cardinality(Behind(k)') <= received[k]
      BY <1>2, <3>3
    <3> QED
      BY <1>1, <3>2, <3>3, <3>4
  <2> QED
    BY <2>1, <2>2
<1>6. BanOverThreshold' /\ BansEarned(B, old)'
  BY <1>0, <1>1 DEF TypeOK, FloodInv, BanOverThreshold, BansEarned
<1> QED
  BY <1>0, <1>4, <1>5, <1>6 DEF FloodInv

LEMMA FloodStep ==
  ASSUME NEW B \in [IPs -> Nat], NEW old, FloodInv(B, old), [Next]_vars
  PROVE  FloodInv(B, old)'
<1>1. TypeOK'
  BY TypeStep DEF FloodInv
<1>2. CASE \E c \in CPUs : Receive(c)
  BY <1>1, <1>2, ReceiveStep
<1>3. CASE \E c \in CPUs : ReadFlood(c)
  BY <1>1, <1>3, ReadFloodStep
<1> QED
  BY <1>1, <1>2, <1>3, OtherSteps DEF Next, Run, Quiet

(* No address is blacklisted before it has sent more than MAX_PACKETS      *)
(* packets, however many CPUs race on its counters and whichever updates   *)
(* of full maps fail.                                                      *)
THEOREM NeverPremature == Spec => []NoPrematureBan
<1>1. FloodInv(Zeros, {}) => NoPrematureBan
  BY FloodAssumption DEF FloodInv, BansEarned, NoPrematureBan, TypeOK, Zeros
<1>2. FloodInv(Zeros, {}) /\ [Next]_vars => FloodInv(Zeros, {})'
  BY FloodStep DEF Zeros
<1> QED
  BY <1>1, <1>2, FloodInit, PTL DEF Spec
--------------------------------------------------------------------------------
LEMMA NoEntryStep == TypeOK /\ [Next]_vars => NoEntry
<1> SUFFICES ASSUME TypeOK, [Next]_vars PROVE NoEntry
  OBVIOUS
<1> USE FloodAssumption DEF TypeOK, NoEntry, PastBlacklist
<1>1. ASSUME NEW c \in CPUs, Receive(c) \/ ReceiveOther(c) PROVE NoEntry
  BY <1>1 DEF Receive, ReceiveOther, CountFrame, Goto, maps
<1>2. ASSUME NEW c \in CPUs, CheckBlacklist(c) PROVE NoEntry
  BY <1>2 DEF CheckBlacklist, ReturnDrop, Return, Goto, maps, locals
<1>3. ASSUME NEW c \in CPUs, ReadCount(c) \/ WriteCount(c) PROVE NoEntry
  BY <1>3 DEF ReadCount, WriteCount, Goto, maps, locals
<1>4. ASSUME NEW c \in CPUs, ReadFlood(c) \/ WriteFlood(c) PROVE NoEntry
  BY <1>4 DEF ReadFlood, WriteFlood, Goto, maps, locals
<1>5. ASSUME NEW c \in CPUs, ReadClock(c) \/ LookupTimestamp(c) PROVE NoEntry
  BY <1>5 DEF ReadClock, LookupTimestamp, Goto, maps, locals
<1>6. ASSUME NEW c \in CPUs, Ban(c) PROVE NoEntry
  BY <1>6 DEF Ban, ReturnDrop, Return, Goto
<1>7. ASSUME NEW c \in CPUs, ResetFlood(c) \/ WriteTimestamp(c) PROVE NoEntry
  BY <1>7 DEF ResetFlood, WriteTimestamp, Goto, locals
<1>8. ASSUME NEW c \in CPUs, CheckPort(c) PROVE NoEntry
  BY <1>8 DEF CheckPort, ReturnDrop, ReturnPass, Return, Goto, maps
<1>9. CASE Tick \/ (\E p \in Ports : BlockPort(p)) \/ UNCHANGED vars
  BY <1>9 DEF Tick, BlockPort, vars, maps, locals
<1> QED
  BY <1>1, <1>2, <1>3, <1>4, <1>5, <1>6, <1>7, <1>8, <1>9 DEF Next, Run, Quiet

(* A ban is permanent, and once it stands no further packet of its address *)
(* gets past the blacklist lookup on any CPU.                              *)
THEOREM BanHolds == Spec => NoEntryAfterBan
BY TypeInit, TypeStep, NoEntryStep, PTL DEF Spec, NoEntryAfterBan
--------------------------------------------------------------------------------
(* The rest of the module is about one CPU, and maps with room for every    *)
(* address: the program then implements the abstract filter.               *)
Alone(c) == CPUs = {c} /\ Cardinality(IPs) <= MAX_ENTRIES

(* The labels between the write of a flood count and the end of the window *)
(* test, where count and stamp of the address do not fit together yet.     *)
Deciding == {"clock", "lookup", "ban", "reset", "stamp"}

StampsPast(c) ==
  /\ clock >= 1
  /\ \A ip \in IPs : ip_timestamp_map[ip] <= clock
  /\ pc[c] \in Deciding \ {"clock"} =>
       1 <= now[c] /\ now[c] <= clock /\ ip_timestamp_map[src_ip[c]] <= now[c]

(* Between two packets an address has a stamp when it has a count, and a   *)
(* count over the threshold only when it is banned.                        *)
Settled(ip) ==
  /\ ip_flood_count_map[ip] = 0 <=> ip_timestamp_map[ip] = 0
  /\ ip \notin ip_blacklist_map => ip_flood_count_map[ip] <= MAX_PACKETS

OthersSettled(c) ==
  \A ip \in IPs :
    /\ ip_flood_count_map[ip] <= MAX_PACKETS + 1
    /\ ~ (src_ip[c] = ip /\ pc[c] \in Deciding) => Settled(ip)

(* What the program knows of its own address on the way.                   *)
Progress(c) ==
  LET count == ip_flood_count_map[src_ip[c]]
      stamp == ip_timestamp_map[src_ip[c]]
  IN  /\ pc[c] \notin {"idle", "blacklist", "l4"} => src_ip[c] \notin ip_blacklist_map
      /\ pc[c] = "flood_w" => new_flood_count[c] = count + 1
      /\ pc[c] \in {"clock", "lookup", "ban"} =>
           /\ new_flood_count[c] = count /\ count >= 1
           /\ count = 1 <=> stamp = 0
      /\ pc[c] = "ban" => stamp # 0 /\ count > MAX_PACKETS
      /\ pc[c] = "reset" => stamp # 0 /\ now[c] - stamp >= TIME_WINDOW
      /\ pc[c] = "stamp" => count = 1

AloneInv(c) == TypeOK /\ StampsPast(c) /\ OthersSettled(c) /\ Progress(c)

--------------------------------------------------------------------------------
LEMMA FewerAddresses ==
  ASSUME NEW S \in SUBSET IPs, S # IPs
  PROVE  /\ Cardinality(S) \in Nat /\ Cardinality(IPs) \in Nat
         /\ Cardinality(S) < Cardinality(IPs)
<1>1. IsFiniteSet(IPs) /\ IsFiniteSet(S)
  BY FS_Subset, FloodAssumption
<1>2. Cardinality(S) \in Nat /\ Cardinality(IPs) \in Nat
  BY <1>1, FS_CardinalityType
<1>3. Cardinality(S) <= Cardinality(IPs) /\ Cardinality(S) # Cardinality(IPs)
  BY <1>1, FS_Subset
<1> QED
  BY <1>2, <1>3

(* With room for every address no update fails.                            *)
LEMMA UpdateRoom ==
  ASSUME Cardinality(IPs) <= MAX_ENTRIES,
         NEW map \in [IPs -> Nat], NEW ip \in IPs, NEW v
  PROVE  Update(map, ip, v) = [map EXCEPT ![ip] = v]
<1> DEFINE full == {k \in IPs : map[k] # 0}
<1>1. CASE map[ip] # 0
  BY <1>1 DEF Update
<1>2. CASE map[ip] = 0
  <2>1. full \subseteq IPs /\ full # IPs
    BY <1>2
  <2>2. Cardinality(full) < Cardinality(IPs)
    BY <2>1, FewerAddresses
  <2>3. Cardinality(full) \in Nat /\ Cardinality(IPs) \in Nat
    BY <2>1, FewerAddresses
  <2> QED
    BY <2>2, <2>3, FloodAssumption DEF Update
<1> QED
  BY <1>1, <1>2

LEMMA BanRoom ==
  ASSUME TypeOK, Cardinality(IPs) <= MAX_ENTRIES, NEW c \in CPUs, Ban(c)
  PROVE  ip_blacklist_map' = ip_blacklist_map \cup {src_ip[c]}
<1>1. src_ip[c] \in IPs /\ ip_blacklist_map \subseteq IPs
  BY DEF TypeOK, Ban
<1>2. CASE src_ip[c] \in ip_blacklist_map
  BY <1>2 DEF Ban
<1>3. CASE src_ip[c] \notin ip_blacklist_map
  <2>1. Cardinality(ip_blacklist_map) < Cardinality(IPs)
    BY <1>1, <1>3, FewerAddresses
  <2>2. Cardinality(ip_blacklist_map) \in Nat /\ Cardinality(IPs) \in Nat
    BY <1>1, <1>3, FewerAddresses
  <2> QED
    BY <2>1, <2>2, FloodAssumption DEF Ban
<1> QED
  BY <1>2, <1>3

LEMMA AloneInit ==
  ASSUME NEW c, Alone(c), Init PROVE AloneInv(c)
BY TypeInit, FloodAssumption
   DEF Alone, Init, AloneInv, StampsPast, OthersSettled, Settled, Progress, Deciding

LEMMA AloneStep ==
  ASSUME NEW c, Alone(c), AloneInv(c), [Next]_vars
  PROVE  AloneInv(c)'
<1> USE FloodAssumption
<1>a. TypeOK /\ TypeOK' /\ StampsPast(c) /\ OthersSettled(c) /\ Progress(c)
  BY TypeStep DEF AloneInv
<1>b. c \in CPUs /\ \A d \in CPUs : d = c
  BY DEF Alone
<1> DEFINE Goal == StampsPast(c)' /\ OthersSettled(c)' /\ Progress(c)'
<1> SUFFICES Goal
  BY <1>a DEF AloneInv
<1>1. CASE Receive(c)
  BY <1>a, <1>b, <1>1 DEF Receive, CountFrame, Goto, maps, TypeOK,
     StampsPast, OthersSettled, Settled, Progress, Deciding
<1>2. CASE ReceiveOther(c)
  BY <1>a, <1>b, <1>2 DEF ReceiveOther, CountFrame, Goto, maps, TypeOK,
     StampsPast, OthersSettled, Settled, Progress, Deciding
<1>3. CASE CheckBlacklist(c)
  BY <1>a, <1>b, <1>3 DEF CheckBlacklist, ReturnDrop, Return, Goto, maps, locals, TypeOK,
     StampsPast, OthersSettled, Settled, Progress, Deciding
<1>4. CASE ReadCount(c) \/ WriteCount(c)
  BY <1>a, <1>b, <1>4 DEF ReadCount, WriteCount, Goto, maps, locals, TypeOK,
     StampsPast, OthersSettled, Settled, Progress, Deciding
<1>5. CASE ReadFlood(c)
  BY <1>a, <1>b, <1>5 DEF ReadFlood, Goto, maps, locals, TypeOK,
     StampsPast, OthersSettled, Settled, Progress, Deciding
<1>6. CASE WriteFlood(c)
  <2>1. ip_flood_count_map' =
          [ip_flood_count_map EXCEPT ![src_ip[c]] = new_flood_count[c]]
    BY <1>a, <1>b, <1>6, UpdateRoom DEF WriteFlood, TypeOK, Alone
  <2> QED
    BY <1>a, <1>b, <1>6, <2>1 DEF WriteFlood, Goto, maps, locals, TypeOK,
       StampsPast, OthersSettled, Settled, Progress, Deciding
<1>7. CASE ReadClock(c)
  BY <1>a, <1>b, <1>7 DEF ReadClock, Goto, maps, locals, TypeOK,
     StampsPast, OthersSettled, Settled, Progress, Deciding
<1>8. CASE LookupTimestamp(c)
  BY <1>a, <1>b, <1>8 DEF LookupTimestamp, AfterLookup, Elapsed, Goto, maps, locals, TypeOK,
     StampsPast, OthersSettled, Settled, Progress, Deciding
<1>9. CASE Ban(c)
  <2>1. ip_blacklist_map' = ip_blacklist_map \cup {src_ip[c]}
    BY <1>a, <1>b, <1>9, BanRoom DEF Alone
  <2> QED
    BY <1>a, <1>b, <1>9, <2>1 DEF Ban, ReturnDrop, Return, Goto, TypeOK,
       StampsPast, OthersSettled, Settled, Progress, Deciding
<1>10. CASE ResetFlood(c)
  <2>1. ip_flood_count_map' = [ip_flood_count_map EXCEPT ![src_ip[c]] = 1]
    BY <1>a, <1>b, <1>10, UpdateRoom DEF ResetFlood, TypeOK, Alone
  <2> QED
    BY <1>a, <1>b, <1>10, <2>1 DEF ResetFlood, Goto, maps, locals, TypeOK,
       StampsPast, OthersSettled, Settled, Progress, Deciding
<1>11. CASE WriteTimestamp(c)
  <2>1. ip_timestamp_map' = [ip_timestamp_map EXCEPT ![src_ip[c]] = now[c]]
    BY <1>a, <1>b, <1>11, UpdateRoom DEF WriteTimestamp, TypeOK, Alone
  <2> QED
    BY <1>a, <1>b, <1>11, <2>1 DEF WriteTimestamp, Goto, maps, locals, TypeOK,
       StampsPast, OthersSettled, Settled, Progress, Deciding
<1>12. CASE CheckPort(c)
  BY <1>a, <1>b, <1>12 DEF CheckPort, ReturnDrop, ReturnPass, Return, Goto, maps, TypeOK,
     StampsPast, OthersSettled, Settled, Progress, Deciding
<1>13. CASE Tick
  BY <1>a, <1>b, <1>13 DEF Tick, maps, locals, TypeOK,
     StampsPast, OthersSettled, Settled, Progress, Deciding
<1>14. ASSUME NEW p \in Ports, BlockPort(p) PROVE Goal
  BY <1>a, <1>b, <1>14 DEF BlockPort, maps, locals, TypeOK,
     StampsPast, OthersSettled, Settled, Progress, Deciding
<1>15. CASE UNCHANGED vars
  BY <1>a, <1>b, <1>15 DEF vars, maps, locals, TypeOK,
     StampsPast, OthersSettled, Settled, Progress, Deciding
<1> QED
  BY <1>b, <1>1, <1>2, <1>3, <1>4, <1>5, <1>6, <1>7, <1>8, <1>9, <1>10, <1>11,
     <1>12, <1>13, <1>14, <1>15
  DEF Next, Run, Quiet
--------------------------------------------------------------------------------
(* The mapping of FloodRefinement when there is one CPU to look at.        *)
View(c) ==
  /\ countedBar =
       [ip \in IPs |-> IF src_ip[c] # ip THEN ip_flood_count_map[ip]
                       ELSE IF pc[c] = "clock" THEN ip_flood_count_map[ip] - 1
                       ELSE IF Outcome(c) = "reset" THEN 1
                       ELSE ip_flood_count_map[ip]]
  /\ sinceBar =
       [ip \in IPs |-> IF src_ip[c] = ip /\ Outcome(c) \in {"reset", "stamp"}
                       THEN now[c] ELSE ip_timestamp_map[ip]]
  /\ bannedBar =
       ip_blacklist_map \cup {ip \in IPs : src_ip[c] = ip /\ Outcome(c) = "ban"}

LEMMA AloneView ==
  ASSUME NEW c, Alone(c) PROVE View(c) /\ View(c)'
<1> DEFINE Moving(labels, ip) == src_ip[c] = ip /\ Outcome(c) \in labels
<1>1. ASSUME NEW ip \in IPs
      PROVE  /\ At(ip, {"clock"}) # {} <=> src_ip[c] = ip /\ pc[c] = "clock"
             /\ Bound(ip, {"reset"}) # {} <=> Moving({"reset"}, ip)
             /\ Bound(ip, {"ban"}) # {} <=> Moving({"ban"}, ip)
             /\ Bound(ip, {"reset", "stamp"}) =
                  IF Moving({"reset", "stamp"}, ip) THEN {c} ELSE {}
  BY DEF Alone, At, Bound, Outcome, AfterLookup
<1>2. ASSUME NEW ip \in IPs
      PROVE  (/\ At(ip, {"clock"}) # {} <=> src_ip[c] = ip /\ pc[c] = "clock"
              /\ Bound(ip, {"reset"}) # {} <=> Moving({"reset"}, ip)
              /\ Bound(ip, {"ban"}) # {} <=> Moving({"ban"}, ip)
              /\ Bound(ip, {"reset", "stamp"}) =
                   IF Moving({"reset", "stamp"}, ip) THEN {c} ELSE {})'
  BY DEF Alone, At, Bound, Outcome, AfterLookup
<1>3. (CHOOSE d \in {c} : TRUE) = c
  OBVIOUS
<1>4. View(c)
  BY <1>1, <1>3 DEF View, countedBar, sinceBar, bannedBar
<1>5. View(c)'
  BY <1>2, <1>3 DEF View, countedBar, sinceBar, bannedBar
<1> QED
  BY <1>4, <1>5

(* Once a packet has its stamp, and until the next one has, the mapping    *)
(* shows the same state whatever the program does.                         *)
LEMMA AloneStutter ==
  ASSUME NEW c, Alone(c), AloneInv(c), TypeOK',
         \/ Receive(c) \/ ReceiveOther(c) \/ CheckBlacklist(c)
         \/ ReadCount(c) \/ WriteCount(c) \/ ReadFlood(c) \/ WriteFlood(c)
         \/ LookupTimestamp(c) \/ Ban(c) \/ ResetFlood(c) \/ WriteTimestamp(c)
         \/ CheckPort(c) \/ (\E p \in Ports : BlockPort(p)) \/ UNCHANGED vars
  PROVE  UNCHANGED Filter!filterVars
<1> USE FloodAssumption
<1>a. TypeOK /\ TypeOK' /\ Progress(c) /\ c \in CPUs
  BY DEF AloneInv, Alone
<1>b. View(c) /\ View(c)'
  BY AloneView
<1> SUFFICES UNCHANGED <<clock, countedBar, sinceBar, bannedBar>>
  BY DEF Filter!filterVars
<1>1. CASE Receive(c) \/ ReceiveOther(c)
  BY <1>a, <1>b, <1>1 DEF Receive, ReceiveOther, CountFrame, Goto, maps,
     View, Outcome, Progress, TypeOK
<1>2. CASE CheckBlacklist(c) \/ CheckPort(c)
  BY <1>a, <1>b, <1>2 DEF CheckBlacklist, CheckPort, ReturnDrop, ReturnPass, Return, Goto, maps, locals,
     View, Outcome, Progress, TypeOK
<1>3. CASE ReadCount(c) \/ WriteCount(c) \/ ReadFlood(c)
  BY <1>a, <1>b, <1>3 DEF ReadCount, WriteCount, ReadFlood, Goto, maps, locals,
     View, Outcome, Progress, TypeOK
<1>4. CASE WriteFlood(c)
  <2>1. ip_flood_count_map' =
          [ip_flood_count_map EXCEPT ![src_ip[c]] = new_flood_count[c]]
    BY <1>a, <1>4, UpdateRoom DEF WriteFlood, TypeOK, Alone
  <2> QED
    BY <1>a, <1>b, <1>4, <2>1 DEF WriteFlood, Goto, locals,
       View, Outcome, Progress, TypeOK
<1>5. CASE LookupTimestamp(c)
  BY <1>a, <1>b, <1>5, AfterLookupLabel DEF LookupTimestamp, Goto, maps, locals,
     View, Outcome, TypeOK
<1>6. CASE Ban(c)
  <2>1. ip_blacklist_map' = ip_blacklist_map \cup {src_ip[c]}
    BY <1>a, <1>6, BanRoom DEF Alone
  <2> QED
    BY <1>a, <1>b, <1>6, <2>1 DEF Ban, ReturnDrop, Return, Goto,
       View, Outcome, TypeOK
<1>7. CASE ResetFlood(c)
  <2>1. ip_flood_count_map' = [ip_flood_count_map EXCEPT ![src_ip[c]] = 1]
    BY <1>a, <1>7, UpdateRoom DEF ResetFlood, TypeOK, Alone
  <2> QED
    BY <1>a, <1>b, <1>7, <2>1 DEF ResetFlood, Goto, View, Outcome, TypeOK
<1>8. CASE WriteTimestamp(c)
  <2>1. ip_timestamp_map' = [ip_timestamp_map EXCEPT ![src_ip[c]] = now[c]]
    BY <1>a, <1>8, UpdateRoom DEF WriteTimestamp, TypeOK, Alone
  <2> QED
    BY <1>a, <1>b, <1>8, <2>1 DEF WriteTimestamp, Goto, locals, View, Outcome, TypeOK
<1>9. CASE (\E p \in Ports : BlockPort(p)) \/ UNCHANGED vars
  BY <1>a, <1>b, <1>9 DEF BlockPort, vars, maps, locals, View, Outcome, AfterLookup
<1> QED
  BY <1>1, <1>2, <1>3, <1>4, <1>5, <1>6, <1>7, <1>8, <1>9

(* The reading of the clock is the step in which a packet opens a window,  *)
(* is admitted or exceeds the allowance.                                   *)
LEMMA AloneReadClock ==
  ASSUME NEW c, Alone(c), AloneInv(c), TypeOK', ReadClock(c)
  PROVE  Filter!FilterNext
<1> USE FloodAssumption
<1> DEFINE ip == src_ip[c]
           n == countedBar[ip]
           u == sinceBar[ip]
<1>a. TypeOK /\ TypeOK' /\ StampsPast(c) /\ OthersSettled(c) /\ Progress(c) /\ c \in CPUs
  BY DEF AloneInv, Alone
<1>b. View(c) /\ View(c)'
  BY AloneView
<1>c. /\ pc[c] = "clock" /\ ip \in IPs /\ pc' = [pc EXCEPT ![c] = "lookup"]
      /\ now' = [now EXCEPT ![c] = clock]
      /\ UNCHANGED <<clock, src_ip, new_flood_count, ip_flood_count_map,
                     ip_timestamp_map, ip_blacklist_map>>
  BY <1>a DEF ReadClock, Goto, maps, TypeOK
<1>1. /\ n = ip_flood_count_map[ip] - 1 /\ u = ip_timestamp_map[ip]
      /\ n \in Nat /\ u \in Nat /\ u <= clock /\ clock \in Nat
      /\ new_flood_count[c] = n + 1
      /\ n = 0 <=> u = 0
      /\ n <= MAX_PACKETS
      /\ ip \notin bannedBar
  BY <1>a, <1>b, <1>c DEF TypeOK, StampsPast, OthersSettled, Progress, View, Outcome
<1>2. \/ u = 0 /\ Outcome(c)' = "stamp"
      \/ u # 0 /\ Filter!Expired(ip) /\ Outcome(c)' = "reset"
      \/ u # 0 /\ ~ Filter!Expired(ip) /\ n = MAX_PACKETS /\ Outcome(c)' = "ban"
      \/ u # 0 /\ ~ Filter!Expired(ip) /\ n < MAX_PACKETS /\ Outcome(c)' = "l4"
  BY <1>a, <1>b, <1>c, <1>1
     DEF Outcome, AfterLookup, Elapsed, Filter!Expired, TypeOK
<1>3. /\ clock' = clock
      /\ countedBar' = [countedBar EXCEPT ![ip] = IF Outcome(c)' = "reset" THEN 1
                                                  ELSE n + 1]
      /\ sinceBar' = [sinceBar EXCEPT ![ip] = IF Outcome(c)' \in {"reset", "stamp"}
                                              THEN clock ELSE u]
      /\ bannedBar' = bannedBar \cup {k \in {ip} : Outcome(c)' = "ban"}
  <2> DEFINE out == Outcome(c)'
  <2>1. /\ pc'[c] = "lookup" /\ now'[c] = clock /\ src_ip'[c] = ip
        /\ Outcome(c) = "clock"
    BY <1>a, <1>c DEF TypeOK, Outcome
  <2>2. View(c)'
    BY <1>b
  <2> HIDE DEF out, ip
  <2>3. countedBar' = [k \in IPs |-> IF k # ip THEN ip_flood_count_map[k]
                                     ELSE IF out = "reset" THEN 1
                                     ELSE ip_flood_count_map[k]]
    BY <1>c, <2>1, <2>2 DEF View, out
  <2>4. sinceBar' = [k \in IPs |-> IF k = ip /\ out \in {"reset", "stamp"}
                                   THEN clock ELSE ip_timestamp_map[k]]
    BY <1>c, <2>1, <2>2 DEF View, out
  <2>5. bannedBar' = ip_blacklist_map \cup {k \in IPs : k = ip /\ out = "ban"}
    BY <1>c, <2>1, <2>2 DEF View, out
  <2>6. /\ countedBar = [k \in IPs |-> IF k # ip THEN ip_flood_count_map[k]
                                       ELSE ip_flood_count_map[k] - 1]
        /\ sinceBar = ip_timestamp_map
        /\ bannedBar = ip_blacklist_map
    BY <1>a, <1>b, <1>c, <2>1 DEF View, ip, TypeOK
  <2>7. countedBar' = [countedBar EXCEPT ![ip] = IF out = "reset" THEN 1 ELSE n + 1]
    <3>1. n + 1 = ip_flood_count_map[ip]
      BY <1>a, <1>c, <2>6 DEF TypeOK
    <3> HIDE DEF n
    <3> QED
      BY <1>c, <2>3, <2>6, <3>1
  <2>8. sinceBar' = [sinceBar EXCEPT ![ip] = IF out \in {"reset", "stamp"}
                                             THEN clock ELSE u]
    BY <1>a, <1>c, <2>4, <2>6 DEF TypeOK
  <2>9. bannedBar' = bannedBar \cup {k \in {ip} : out = "ban"}
    BY <1>c, <2>5, <2>6
  <2> QED
    BY <1>c, <2>7, <2>8, <2>9 DEF out
<1>4. ip \in IPs /\ sinceBar = [sinceBar EXCEPT ![ip] = u]
  BY <1>c DEF sinceBar
<1> DEFINE out == Outcome(c)'
<1> HIDE DEF n, u, ip, out
<1>5. CASE out \in {"stamp", "reset"}
  <2>1. ip \notin bannedBar /\ (n = 0 \/ Filter!Expired(ip))
    BY <1>1, <1>2, <1>5 DEF out
  <2>2. n + 1 = 1 \/ out = "reset"
    BY <1>1, <1>2, <1>5 DEF out
  <2>3. /\ countedBar' = [countedBar EXCEPT ![ip] = 1]
        /\ sinceBar' = [sinceBar EXCEPT ![ip] = clock]
        /\ bannedBar' = bannedBar
    BY <1>3, <1>5, <2>2 DEF out
  <2>4. Filter!OpenWindow(ip)
    BY <1>3, <2>1, <2>3 DEF Filter!OpenWindow, n
  <2> QED
    BY <1>4, <2>4 DEF Filter!FilterNext
<1>6. CASE out = "ban"
  <2>1. n = MAX_PACKETS /\ ~ Filter!Expired(ip)
    BY <1>2, <1>6 DEF out
  <2>2. /\ countedBar' = [countedBar EXCEPT ![ip] = n + 1]
        /\ sinceBar' = sinceBar /\ bannedBar' = bannedBar \cup {ip}
    BY <1>3, <1>4, <1>6 DEF out
  <2>3. Filter!Exceed(ip)
    BY <1>1, <1>3, <2>1, <2>2 DEF Filter!Exceed, n
  <2> QED
    BY <1>4, <2>3 DEF Filter!FilterNext
<1>7. CASE out = "l4"
  <2>1. u # 0 /\ n < MAX_PACKETS /\ ~ Filter!Expired(ip)
    BY <1>2, <1>7 DEF out
  <2>2. /\ countedBar' = [countedBar EXCEPT ![ip] = n + 1]
        /\ sinceBar' = sinceBar /\ bannedBar' = bannedBar
    BY <1>3, <1>4, <1>7 DEF out
  <2>3. n \in 1 .. MAX_PACKETS - 1
    <3>1. n \in Nat /\ n # 0 /\ n < MAX_PACKETS /\ MAX_PACKETS \in Nat
      BY <1>1, <2>1
    <3> QED
      BY <3>1
  <2>4. Filter!Admit(ip)
    BY <1>1, <1>3, <2>1, <2>2, <2>3 DEF Filter!Admit, n
  <2> QED
    BY <1>4, <2>4 DEF Filter!FilterNext
<1> QED
  BY <1>2, <1>5, <1>6, <1>7 DEF out

LEMMA AloneTick ==
  ASSUME NEW c, Alone(c), TypeOK, Tick
  PROVE  Filter!PassTime
<1>1. View(c) /\ View(c)'
  BY AloneView
<1>2. UNCHANGED <<countedBar, sinceBar, bannedBar>>
  BY <1>1 DEF View, Outcome, AfterLookup, Elapsed, Tick, maps, locals
<1> QED
  BY <1>2 DEF Tick, Filter!PassTime

LEMMA AloneStart ==
  ASSUME NEW c, Alone(c), Init
  PROVE  Filter!FilterInit
<1>1. View(c)
  BY AloneView
<1>2. c \in CPUs /\ pc[c] = "idle" /\ Outcome(c) = "idle"
  BY DEF Alone, Init, Outcome
<1> QED
  BY <1>1, <1>2 DEF View, Init, Filter!FilterInit

LEMMA AloneFilter ==
  ASSUME NEW c, Alone(c), AloneInv(c), TypeOK', [Next]_vars
  PROVE  [Filter!FilterNext]_(Filter!filterVars)
<1>1. CASE ReadClock(c)
  BY <1>1, AloneReadClock
<1>2. CASE Tick
  BY <1>2, AloneTick DEF AloneInv, Filter!FilterNext
<1>3. CASE \/ Receive(c) \/ ReceiveOther(c) \/ CheckBlacklist(c)
           \/ ReadCount(c) \/ WriteCount(c) \/ ReadFlood(c) \/ WriteFlood(c)
           \/ LookupTimestamp(c) \/ Ban(c) \/ ResetFlood(c) \/ WriteTimestamp(c)
           \/ CheckPort(c) \/ (\E p \in Ports : BlockPort(p)) \/ UNCHANGED vars
  BY <1>3, AloneStutter
<1> QED
  BY <1>1, <1>2, <1>3 DEF Alone, Next, Run, Quiet

(* On a single CPU, with maps that have room for every address, pps.c is   *)
(* the abstract filter: one window per address, a ban exactly at packet    *)
(* MAX_PACKETS + 1 of a window, a restart only when the window is over.    *)
THEOREM ProgramIsFilter ==
  ASSUME NEW c, Alone(c)
  PROVE  Spec => ImplementsFilter
<1>1. Init => AloneInv(c) /\ Filter!FilterInit
  BY AloneInit, AloneStart
<1>2. AloneInv(c) /\ [Next]_vars => AloneInv(c)'
  BY AloneStep
<1>3. AloneInv(c) => TypeOK
  BY DEF AloneInv
<1>4. AloneInv(c) /\ TypeOK' /\ [Next]_vars => [Filter!FilterNext]_(Filter!filterVars)
  BY AloneFilter
<1> QED
  BY <1>1, <1>2, <1>3, <1>4, PTL DEF Spec, ImplementsFilter, Filter!FilterSpec
--------------------------------------------------------------------------------
One(P) == IF P THEN 1 ELSE 0

(* In the first window no count is restarted, so a packet that passed is   *)
(* still in the flood count of its address, beside the one on its way and  *)
(* the one that brought the ban.                                           *)
PassedCounted(c) ==
  clock <= TIME_WINDOW =>
    \A ip \in IPs :
      passed[ip] + One(src_ip[c] = ip /\ pc[c] \in Deciding \cup {"l4"})
                 + One(ip \in ip_blacklist_map)
        <= ip_flood_count_map[ip]

LEMMA NoReset ==
  ASSUME NEW c, Alone(c), AloneInv(c), clock <= TIME_WINDOW
  PROVE  pc[c] # "reset"
BY FloodAssumption DEF Alone, AloneInv, TypeOK, StampsPast, Progress, Deciding

LEMMA PassedStep ==
  ASSUME NEW c, Alone(c), AloneInv(c), PassedCounted(c), [Next]_vars
  PROVE  PassedCounted(c)'
<1> USE FloodAssumption
<1>a. TypeOK /\ TypeOK' /\ Progress(c)
  BY TypeStep DEF AloneInv
<1>b. c \in CPUs /\ \A d \in CPUs : d = c
  BY DEF Alone
<1> SUFFICES ASSUME clock' <= TIME_WINDOW
             PROVE  (\A ip \in IPs :
                       passed[ip] + One(src_ip[c] = ip /\ pc[c] \in Deciding \cup {"l4"})
                                  + One(ip \in ip_blacklist_map)
                         <= ip_flood_count_map[ip])'
  BY DEF PassedCounted
<1>c. /\ clock <= TIME_WINDOW
      /\ \A ip \in IPs :
           passed[ip] + One(src_ip[c] = ip /\ pc[c] \in Deciding \cup {"l4"})
                      + One(ip \in ip_blacklist_map)
             <= ip_flood_count_map[ip]
  <2>1. clock \in Nat /\ clock' \in Nat /\ clock <= clock'
    BY <1>a DEF Next, Run, Quiet, Receive, ReceiveOther, CountFrame, CheckBlacklist, ReadCount,
       WriteCount, ReadFlood, WriteFlood, ReadClock, LookupTimestamp, Ban, ResetFlood,
       WriteTimestamp, CheckPort, Tick, BlockPort, vars, TypeOK
  <2> QED
    BY <2>1 DEF PassedCounted
<1>1. CASE Receive(c) \/ ReceiveOther(c)
  BY <1>a, <1>b, <1>c, <1>1 DEF Receive, ReceiveOther, CountFrame, Goto, maps, TypeOK, Deciding, One
<1>2. CASE CheckBlacklist(c)
  BY <1>a, <1>b, <1>c, <1>2 DEF CheckBlacklist, ReturnDrop, Return, Goto, maps, locals, TypeOK, Deciding, One
<1>3. CASE ReadCount(c) \/ WriteCount(c) \/ ReadFlood(c)
  BY <1>a, <1>b, <1>c, <1>3 DEF ReadCount, WriteCount, ReadFlood, Goto, maps, locals, TypeOK, Deciding, One
<1>4. CASE WriteFlood(c)
  <2>1. ip_flood_count_map' =
          [ip_flood_count_map EXCEPT ![src_ip[c]] = new_flood_count[c]]
    BY <1>a, <1>b, <1>4, UpdateRoom DEF WriteFlood, TypeOK, Alone
  <2>2. new_flood_count[c] = ip_flood_count_map[src_ip[c]] + 1
    BY <1>a, <1>4 DEF Progress, WriteFlood
  <2> QED
    BY <1>a, <1>b, <1>c, <1>4, <2>1, <2>2 DEF WriteFlood, Goto, locals, TypeOK, Deciding, One
<1>5. CASE ReadClock(c)
  BY <1>a, <1>b, <1>c, <1>5 DEF ReadClock, Goto, maps, TypeOK, Deciding, One
<1>6. CASE LookupTimestamp(c)
  BY <1>a, <1>b, <1>c, <1>6, AfterLookupLabel DEF LookupTimestamp, Goto, maps, locals, TypeOK, Deciding, One
<1>7. CASE Ban(c)
  <2>1. ip_blacklist_map' = ip_blacklist_map \cup {src_ip[c]}
    BY <1>a, <1>b, <1>7, BanRoom DEF Alone
  <2>2. src_ip[c] \notin ip_blacklist_map
    BY <1>a, <1>7 DEF Ban, Progress
  <2> QED
    BY <1>a, <1>b, <1>c, <1>7, <2>1, <2>2 DEF Ban, ReturnDrop, Return, Goto, TypeOK, Deciding, One
<1>8. CASE WriteTimestamp(c)
  BY <1>a, <1>b, <1>c, <1>8 DEF WriteTimestamp, Goto, locals, TypeOK, Deciding, One
<1>9. CASE CheckPort(c)
  <2>1. pc[c] = "l4" /\ pc'[c] = "idle" /\ src_ip[c] \in IPs
    BY <1>a, <1>b, <1>9 DEF CheckPort, ReturnDrop, ReturnPass, Return, Goto, TypeOK
  <2>2. /\ UNCHANGED <<ip_flood_count_map, ip_blacklist_map>>
        /\ \/ passed' = passed
           \/ passed' = [passed EXCEPT ![src_ip[c]] = @ + 1]
    BY <1>9 DEF CheckPort, ReturnDrop, ReturnPass, maps
  <2> QED
    BY <1>a, <1>b, <1>c, <2>1, <2>2 DEF TypeOK, Deciding, One
<1>10. CASE Tick \/ (\E p \in Ports : BlockPort(p)) \/ UNCHANGED vars
  BY <1>c, <1>10 DEF Tick, BlockPort, vars, maps, locals
<1>11. ~ ResetFlood(c)
  BY <1>c, NoReset DEF ResetFlood
<1> QED
  BY <1>b, <1>1, <1>2, <1>3, <1>4, <1>5, <1>6, <1>7, <1>8, <1>9, <1>10, <1>11
  DEF Next, Run, Quiet

LEMMA PassedBounded ==
  ASSUME NEW c, Alone(c), AloneInv(c), PassedCounted(c)
  PROVE  AtMostMaxPass
<1> SUFFICES ASSUME clock <= TIME_WINDOW, NEW ip \in IPs
             PROVE  passed[ip] <= MAX_PACKETS
  BY DEF AtMostMaxPass
<1>1. passed[ip] + One(src_ip[c] = ip /\ pc[c] \in Deciding \cup {"l4"})
                 + One(ip \in ip_blacklist_map)
        <= ip_flood_count_map[ip]
  BY DEF PassedCounted
<1>2. /\ passed[ip] \in Nat /\ ip_flood_count_map[ip] \in Nat
      /\ ip_flood_count_map[ip] <= MAX_PACKETS + 1
      /\ \/ src_ip[c] = ip /\ pc[c] \in Deciding
         \/ ip \in ip_blacklist_map
         \/ ip_flood_count_map[ip] <= MAX_PACKETS
  BY DEF AloneInv, TypeOK, OthersSettled, Settled
<1> QED
  BY <1>1, <1>2, FloodAssumption DEF One

(* On a single CPU no address gets more than MAX_PACKETS packets through   *)
(* before the first window can be over, whatever the threshold, the window *)
(* and the number of addresses, as long as each of them fits in the maps.  *)
THEOREM ProgramLimitsPassed ==
  ASSUME NEW c, Alone(c)
  PROVE  Spec => []AtMostMaxPass
<1>1. Init => AloneInv(c) /\ PassedCounted(c)
  BY AloneInit DEF Alone, Init, PassedCounted, One, Deciding
<1>2. AloneInv(c) /\ PassedCounted(c) /\ [Next]_vars => AloneInv(c)' /\ PassedCounted(c)'
  BY AloneStep, PassedStep
<1>3. AloneInv(c) /\ PassedCounted(c) => AtMostMaxPass
  BY PassedBounded
<1> QED
  BY <1>1, <1>2, <1>3, PTL DEF Spec
================================================================================
