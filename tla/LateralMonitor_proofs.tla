-------------------------- MODULE LateralMonitor_proofs ------------------------
(***************************************************************************)
(* For any number of CPUs, interfaces and packets, any capacity of the     *)
(* rings and any order they are polled in: alerts are about packets that   *)
(* were captured, the first movement is not missed while nothing is lost   *)
(* or handled out of order, and the cleanup leaves what it promises.       *)
(***************************************************************************)
EXTENDS LateralMonitor, FiniteSetTheorems, TLAPS

(* What the script does to the capture: a step of LateralKernel, or a      *)
(* packet before there are rings.                                          *)
KernelStep == [Next]_lateralVars \/ \E m \in Machines : EarlyPacket(m)

(* The packets in the rings, and those that no ring holds any more.        *)
InRing == UNION {{events[c][i] : i \in 1 .. Len(events[c])} : c \in CPUs}
Handled == Captured \ InRing

(* The rings and the record hold captured packets.                         *)
Genuine ==
  /\ InRing \subseteq Captured
  /\ ip_history \in Captured \cup {NoPacket}

(* The record is not younger than the packet handled last, and it is that  *)
(* packet until the first alert.                                           *)
RecordIsPast ==
  /\ inOrder => ip_history.ts <= last.ts
  /\ alerts = {} => ip_history = last

(* Before the first alert the packets of other interfaces are further back *)
(* than the threshold.                                                     *)
NoMove ==
  /\ \A p, q \in Handled :
       p.machine # q.machine => Distance(p, q) > ALERT_THRESHOLD
  /\ ip_history = NoPacket => Handled = {}
  /\ \A p \in Handled :
       /\ p.ts <= ip_history.ts
       /\ p.machine # ip_history.machine => ip_history.ts - p.ts > ALERT_THRESHOLD

CaptureInv ==
  /\ TypeOK
  /\ Genuine /\ RecordIsPast
  /\ AlertIsReal /\ AlertInOrder
  /\ ~ lost /\ inOrder /\ alerts = {} => NoMove

(* How far the cleanup has come: the interfaces it has passed have no XDP  *)
(* program, and none at all when there never was another.                  *)
CleanupInv ==
  /\ MonitorTypeOK
  /\ main = "cleanup" => \A i \in 1 .. at - 1 : attached[interfaces[i]] # "xdp"
  /\ main = "done" => \A m \in Machines : attached[m] # "xdp"
  /\ ~ trouble => \A m \in Machines : attached[m] # "tc"
  /\ main = "crashed" => trouble \/ present # Machines
--------------------------------------------------------------------------------
LEMMA TypeInit == Init => TypeOK
<1> SUFFICES ASSUME Init PROVE TypeOK
  OBVIOUS
<1>1. clock \in 0 .. MaxTime
  BY LateralAssumption DEF Init
<1>2. /\ events \in [CPUs -> Seq(Packets)]
      /\ \A c \in CPUs : Len(events[c]) <= RING
      /\ captured \in Seq(Packets)
  BY LateralAssumption DEF Init
<1> QED
  BY <1>1, <1>2 DEF Init, TypeOK

LEMMA TypeStep == TypeOK /\ KernelStep => TypeOK'
<1> SUFFICES ASSUME TypeOK, KernelStep PROVE TypeOK'
  OBVIOUS
<1> USE LateralAssumption
<1>1. ASSUME NEW c \in CPUs, NEW m \in Machines, HandlePacket(c, m) PROVE TypeOK'
  <2> DEFINE pkt == [machine |-> m, ts |-> clock]
  <2>1. pkt \in Packets
    BY DEF TypeOK, Packets
  <2>2. captured' \in Seq(Packets)
    BY <1>1, <2>1 DEF TypeOK, HandlePacket
  <2>3. events[c] \in Seq(Packets) /\ Append(events[c], pkt) \in Seq(Packets)
    BY <2>1 DEF TypeOK
  <2>4. Len(events[c]) < RING => Len(Append(events[c], pkt)) <= RING
    BY <2>3
  <2>5. /\ events' \in [CPUs -> Seq(Packets)]
        /\ \A d \in CPUs : Len(events'[d]) <= RING
    BY <1>1, <2>3, <2>4 DEF TypeOK, HandlePacket
  <2> QED
    BY <1>1, <2>2, <2>5 DEF TypeOK, HandlePacket
<1>2. ASSUME NEW c \in CPUs, HandleEvent(c) PROVE TypeOK'
  <2>1. Head(events[c]) \in Packets /\ events[c] \in Seq(Packets) /\ events[c] # <<>>
    BY <1>2 DEF TypeOK, HandleEvent
  <2>2. /\ ip_history' \in Packets \cup {NoPacket}
        /\ alerts' \subseteq Packets \X Packets
    BY <1>2, <2>1 DEF TypeOK, HandleEvent, check_lateral_movement, NoPacket
  <2>3. Tail(events[c]) \in Seq(Packets) /\ Len(Tail(events[c])) <= RING
    BY <2>1 DEF TypeOK
  <2> QED
    BY <1>2, <2>1, <2>2, <2>3 DEF TypeOK, HandleEvent
<1>3. CASE Tick
  BY <1>3 DEF TypeOK, Tick
<1>4. ASSUME NEW m \in Machines, EarlyPacket(m) PROVE TypeOK'
  <2>1. [machine |-> m, ts |-> clock] \in Packets
    BY DEF TypeOK, Packets
  <2> QED
    BY <1>4, <2>1 DEF TypeOK, EarlyPacket
<1>5. CASE UNCHANGED lateralVars
  BY <1>5 DEF TypeOK, lateralVars
<1> QED
  BY <1>1, <1>2, <1>3, <1>4, <1>5 DEF KernelStep, Next, Quiet

--------------------------------------------------------------------------------
(* The packets a step adds to or takes from the rings.                     *)
LEMMA CapturedGrows ==
  ASSUME TypeOK, NEW pkt \in Packets, captured' = Append(captured, pkt)
  PROVE  Captured' = Captured \cup {pkt}
<1>1. captured \in Seq(Packets) /\ captured' \in Seq(Packets)
  BY DEF TypeOK
<1>2. DOMAIN captured = 1 .. Len(captured) /\ DOMAIN captured' = 1 .. Len(captured) + 1
  BY <1>1
<1>3. /\ \A i \in DOMAIN captured : captured'[i] = captured[i]
      /\ captured'[Len(captured) + 1] = pkt
  BY <1>1
<1> QED
  BY <1>1, <1>2, <1>3 DEF Captured

LEMMA RingGrows ==
  ASSUME TypeOK, NEW c \in CPUs, NEW pkt \in Packets,
         events' = [events EXCEPT ![c] = Append(@, pkt)]
  PROVE  InRing' = InRing \cup {pkt}
<1> DEFINE Ring(d) == {events[d][i] : i \in 1 .. Len(events[d])}
<1>1. events[c] \in Seq(Packets) /\ events'[c] = Append(events[c], pkt)
  BY DEF TypeOK
<1>2. Ring(c)' = Ring(c) \cup {pkt}
  BY <1>1
<1>3. \A d \in CPUs \ {c} : Ring(d)' = Ring(d)
  BY DEF TypeOK
<1>4. InRing = UNION {Ring(d) : d \in CPUs} /\ InRing' = UNION {Ring(d)' : d \in CPUs}
  BY DEF InRing
<1> HIDE DEF Ring
<1> QED
  BY <1>2, <1>3, <1>4

LEMMA RingShrinks ==
  ASSUME TypeOK, NEW c \in CPUs, events[c] # <<>>,
         events' = [events EXCEPT ![c] = Tail(@)]
  PROVE  /\ Head(events[c]) \in InRing
         /\ InRing' \subseteq InRing
         /\ InRing \subseteq InRing' \cup {Head(events[c])}
<1> DEFINE Ring(d) == {events[d][i] : i \in 1 .. Len(events[d])}
           pkt == Head(events[c])
<1>1. /\ events[c] \in Seq(Packets) /\ events'[c] = Tail(events[c])
      /\ Len(events[c]) \in Nat \ {0}
  BY DEF TypeOK
<1>2. pkt \in Ring(c) /\ Ring(c)' \subseteq Ring(c)
  BY <1>1
<1>3. Ring(c) \subseteq Ring(c)' \cup {pkt}
  <2> SUFFICES ASSUME NEW i \in 1 .. Len(events[c]), i # 1
               PROVE  events[c][i] \in Ring(c)'
    <3>1. events[c][1] = pkt
      BY <1>1
    <3> QED
      BY <3>1
  <2>1. i - 1 \in 1 .. Len(Tail(events[c])) /\ Tail(events[c])[i - 1] = events[c][i]
    BY <1>1
  <2> QED
    BY <1>1, <2>1
<1>4. \A d \in CPUs \ {c} : Ring(d)' = Ring(d)
  BY DEF TypeOK
<1>5. InRing = UNION {Ring(d) : d \in CPUs} /\ InRing' = UNION {Ring(d)' : d \in CPUs}
  BY DEF InRing
<1> HIDE DEF Ring, pkt
<1> QED
  BY <1>2, <1>3, <1>4, <1>5 DEF pkt
--------------------------------------------------------------------------------
(* A packet is captured: into a ring, or lost.                             *)
LEMMA ArrivalStep ==
  ASSUME CaptureInv, TypeOK', NEW m \in Machines,
         EarlyPacket(m) \/ \E c \in CPUs : HandlePacket(c, m)
  PROVE  CaptureInv'
<1> DEFINE pkt == [machine |-> m, ts |-> clock]
<1>a. TypeOK /\ pkt \in Packets
  BY DEF CaptureInv, TypeOK, Packets
<1>b. /\ captured' = Append(captured, pkt)
      /\ UNCHANGED <<ip_history, alerts, last, inOrder>>
  BY DEF EarlyPacket, HandlePacket
<1> HIDE DEF pkt
<1>c. Captured' = Captured \cup {pkt}
  BY <1>a, <1>b, CapturedGrows
<1>d. \/ InRing' = InRing /\ lost'
      \/ InRing' = InRing \cup {pkt} /\ lost' = lost
  <2>1. \/ UNCHANGED events /\ lost' = TRUE
        \/ \E c \in CPUs : /\ events' = [events EXCEPT ![c] = Append(@, pkt)]
                           /\ UNCHANGED lost
    BY DEF EarlyPacket, HandlePacket, pkt
  <2>2. CASE UNCHANGED events /\ lost' = TRUE
    BY <2>2 DEF InRing
  <2>3. CASE \E c \in CPUs : /\ events' = [events EXCEPT ![c] = Append(@, pkt)]
                             /\ UNCHANGED lost
    BY <1>a, <2>3, RingGrows
  <2> QED
    BY <2>1, <2>2, <2>3
<1>1. Genuine' /\ RecordIsPast'
  BY <1>b, <1>c, <1>d DEF CaptureInv, Genuine, RecordIsPast, NoPacket
<1>2. AlertIsReal' /\ AlertInOrder'
  BY <1>b, <1>c DEF CaptureInv, AlertIsReal, AlertInOrder, Distance
<1>3. ASSUME ~ lost', inOrder', alerts' = {} PROVE NoMove'
  <2>1. Handled' \subseteq Handled
    BY <1>c, <1>d, <1>3 DEF Handled
  <2>2. NoMove
    BY <1>b, <1>d, <1>3 DEF CaptureInv
  <2> QED
    BY <1>b, <2>1, <2>2 DEF NoMove, Distance
<1> QED
  BY <1>1, <1>2, <1>3 DEF CaptureInv

(* A packet leaves its ring and is compared with the record.               *)
LEMMA EventStep ==
  ASSUME CaptureInv, TypeOK', NEW c \in CPUs, HandleEvent(c)
  PROVE  CaptureInv'
<1> USE LateralAssumption
<1> DEFINE pkt == Head(events[c])
<1>a. /\ TypeOK /\ Genuine /\ RecordIsPast
      /\ AlertIsReal /\ AlertInOrder
  BY DEF CaptureInv
<1>b. /\ events[c] # <<>> /\ events' = [events EXCEPT ![c] = Tail(@)]
      /\ UNCHANGED <<captured, lost>>
      /\ last' = pkt /\ inOrder' = (inOrder /\ pkt.ts >= last.ts)
  BY DEF HandleEvent
<1>c. \/ /\ ip_history.machine # None /\ ip_history.machine # pkt.machine
         /\ Distance(pkt, ip_history) <= ALERT_THRESHOLD
         /\ alerts' = alerts \cup {<<ip_history, pkt>>} /\ ip_history' = ip_history
      \/ /\ \/ ip_history.machine = None
            \/ ip_history.machine = pkt.machine
            \/ ~ (Distance(pkt, ip_history) <= ALERT_THRESHOLD)
         /\ alerts' = alerts /\ ip_history' = pkt
  BY DEF HandleEvent, check_lateral_movement
<1>d. /\ pkt \in InRing
      /\ InRing' \subseteq InRing
      /\ InRing \subseteq InRing' \cup {pkt}
  BY <1>a, <1>b, RingShrinks
<1> HIDE DEF pkt
<1>e. /\ Captured' = Captured /\ Captured \subseteq Packets
      /\ pkt \in Captured
  <2>1. Captured' = Captured
    BY <1>b DEF Captured
  <2>2. Captured \subseteq Packets
    BY <1>a DEF TypeOK, Captured
  <2> QED
    BY <1>a, <1>d, <2>1, <2>2 DEF Genuine
<1>f. /\ \A p \in Packets : p.machine \in Machines /\ p.ts \in Nat
      /\ NoPacket.machine = None /\ NoPacket.ts = 0
      /\ last \in Packets \cup {NoPacket} /\ ip_history \in Captured \cup {NoPacket}
      /\ ip_history.ts \in Nat /\ pkt.ts \in Nat /\ last.ts \in Nat
  BY <1>a, <1>e DEF TypeOK, Packets, NoPacket, Genuine
<1>g. inOrder' => inOrder /\ pkt.ts >= last.ts
  BY <1>b
<1>1. Genuine'
  BY <1>a, <1>c, <1>d, <1>e DEF Genuine, NoPacket
<1>2. RecordIsPast'
  <2>1. ASSUME inOrder' PROVE ip_history'.ts <= last'.ts
    BY <1>a, <1>b, <1>c, <1>f, <1>g, <2>1 DEF RecordIsPast
  <2>2. ASSUME alerts' = {} PROVE ip_history' = last'
    BY <1>b, <1>c, <2>2
  <2> QED
    BY <2>1, <2>2 DEF RecordIsPast
<1>3. AlertIsReal'
  <2>1. CASE alerts' = alerts
    BY <1>a, <1>e, <2>1 DEF AlertIsReal, Distance
  <2>2. CASE /\ ip_history.machine # None /\ ip_history.machine # pkt.machine
             /\ Distance(pkt, ip_history) <= ALERT_THRESHOLD
             /\ alerts' = alerts \cup {<<ip_history, pkt>>}
    <3>1. ip_history \in Captured /\ Distance(ip_history, pkt) <= ALERT_THRESHOLD
      BY <1>f, <2>2 DEF Distance
    <3> QED
      BY <1>a, <1>e, <2>2, <3>1 DEF AlertIsReal, Distance
  <2> QED
    BY <1>c, <2>1, <2>2
<1>4. AlertInOrder'
  <2> SUFFICES ASSUME inOrder', NEW a \in alerts' PROVE a[1].ts <= a[2].ts
    BY DEF AlertInOrder
  <2>1. /\ ip_history.ts <= pkt.ts
        /\ \A b \in alerts : b[1].ts <= b[2].ts
    BY <1>a, <1>f, <1>g DEF RecordIsPast, AlertInOrder
  <2> QED
    BY <1>c, <2>1
<1>5. ASSUME ~ lost', inOrder', alerts' = {} PROVE NoMove'
  <2>1. /\ ip_history' = pkt /\ alerts = {} /\ inOrder /\ ip_history.ts <= pkt.ts
        /\ \/ ip_history.machine = None
           \/ ip_history.machine = pkt.machine
           \/ ~ (Distance(pkt, ip_history) <= ALERT_THRESHOLD)
    BY <1>a, <1>b, <1>c, <1>f, <1>5 DEF RecordIsPast
  <2>2. NoMove
    BY <1>b, <1>5, <2>1 DEF CaptureInv
  <2>3. Handled' \subseteq Handled \cup {pkt} /\ Handled \subseteq Packets
    BY <1>d, <1>e DEF Handled
  <2>4. \A p \in Handled :
          /\ p.ts <= pkt.ts
          /\ p.machine # pkt.machine => pkt.ts - p.ts > ALERT_THRESHOLD
    <3> SUFFICES ASSUME NEW p \in Handled
                 PROVE  /\ p.ts <= pkt.ts
                        /\ p.machine # pkt.machine => pkt.ts - p.ts > ALERT_THRESHOLD
      OBVIOUS
    <3>1. /\ p.ts \in Nat /\ p.ts <= ip_history.ts
          /\ p.machine # ip_history.machine => ip_history.ts - p.ts > ALERT_THRESHOLD
          /\ ip_history.machine # None
      BY <1>e, <1>f, <2>2, <2>3 DEF NoMove
    <3>2. ip_history.machine # pkt.machine => pkt.ts - ip_history.ts > ALERT_THRESHOLD
      BY <1>f, <2>1, <3>1 DEF Distance
    <3> QED
      BY <1>f, <2>1, <3>1, <3>2
  <2>5. \A p, q \in Handled' :
          p.machine # q.machine => Distance(p, q) > ALERT_THRESHOLD
    BY <1>f, <2>2, <2>3, <2>4 DEF NoMove, Distance
  <2>6. pkt # NoPacket
    BY <1>e, <1>f
  <2> QED
    BY <1>f, <2>1, <2>3, <2>4, <2>5, <2>6 DEF NoMove, Distance
<1> QED
  BY <1>1, <1>2, <1>3, <1>4, <1>5 DEF CaptureInv

LEMMA CaptureInit == Init => CaptureInv
<1> SUFFICES ASSUME Init PROVE CaptureInv
  OBVIOUS
<1>1. Captured = {} /\ InRing = {} /\ Handled = {}
  BY DEF Init, Captured, InRing, Handled
<1> QED
  BY <1>1, TypeInit DEF Init, CaptureInv, Genuine, RecordIsPast, AlertIsReal,
     AlertInOrder, NoMove, NoPacket

LEMMA CaptureStep == CaptureInv /\ KernelStep => CaptureInv'
<1> SUFFICES ASSUME CaptureInv, KernelStep PROVE CaptureInv'
  OBVIOUS
<1>1. TypeOK'
  BY TypeStep DEF CaptureInv
<1>2. ASSUME NEW m \in Machines,
             EarlyPacket(m) \/ \E c \in CPUs : HandlePacket(c, m)
      PROVE  CaptureInv'
  BY <1>1, <1>2, ArrivalStep
<1>3. ASSUME NEW c \in CPUs, HandleEvent(c) PROVE CaptureInv'
  BY <1>1, <1>3, EventStep
<1>4. CASE Tick \/ UNCHANGED lateralVars
  <2>1. UNCHANGED <<events, ip_history, captured, lost, alerts, last, inOrder>>
    BY <1>4 DEF Tick, lateralVars
  <2>2. Captured' = Captured /\ InRing' = InRing /\ Handled' = Handled
    BY <2>1 DEF Captured, InRing, Handled
  <2> QED
    BY <1>1, <2>1, <2>2 DEF CaptureInv, Genuine, RecordIsPast, AlertIsReal,
       AlertInOrder, NoMove, Distance
<1> QED
  BY <1>2, <1>3, <1>4 DEF KernelStep, Next, Quiet

(* The script changes the capture by steps of the kernel's programs only.  *)
LEMMA ScriptStep == [MonitorNext]_monitorVars => KernelStep
BY DEF MonitorNext, monitorVars, KernelStep, Next, Attach, OpenRings, Interrupt,
   InterruptUncaught, Detach, DetachInterrupted, CleanedUp, PollRing, Capture, Over

LEMMA CaptureInvariant == MonitorSpec => []CaptureInv
<1>1. MonitorInit => CaptureInv
  BY CaptureInit DEF MonitorInit
<1> QED
  BY <1>1, CaptureStep, ScriptStep, PTL DEF MonitorSpec

(* Whatever full rings lose and in whatever order the rings are polled, an *)
(* alert is about two packets captured on different interfaces and within  *)
(* the threshold.                                                          *)
THEOREM AlertsAreReal == MonitorSpec => []AlertIsReal
<1>1. CaptureInv => AlertIsReal
  BY DEF CaptureInv
<1> QED
  BY <1>1, CaptureInvariant, PTL

(* An alert names the earlier packet first as long as packets are handled  *)
(* by increasing stamp.                                                    *)
THEOREM AlertsInOrder == MonitorSpec => []AlertInOrder
<1>1. CaptureInv => AlertInOrder
  BY DEF CaptureInv
<1> QED
  BY <1>1, CaptureInvariant, PTL

(* While no packet is lost or handled out of order, the first movement     *)
(* within the threshold raises an alert by the time the rings are empty.   *)
THEOREM MovementIsSeen == MonitorSpec => []FirstMoveDetected
<1>1. CaptureInv => FirstMoveDetected
  <2> SUFFICES ASSUME CaptureInv, ~ lost, inOrder, alerts = {},
                      \A c \in CPUs : events[c] = <<>>,
                      NEW i \in 1 .. Len(captured) - 1
               PROVE  \/ captured[i].machine = captured[i + 1].machine
                      \/ Distance(captured[i], captured[i + 1]) > ALERT_THRESHOLD
    BY DEF FirstMoveDetected
  <2>1. Handled = Captured /\ NoMove
    BY DEF Handled, InRing, CaptureInv
  <2>2. captured \in Seq(Packets)
    BY DEF CaptureInv, TypeOK
  <2>3. captured[i] \in Captured /\ captured[i + 1] \in Captured
    BY <2>2 DEF Captured
  <2> QED
    BY <2>1, <2>3 DEF NoMove
<1> QED
  BY <1>1, CaptureInvariant, PTL
--------------------------------------------------------------------------------
(* The loops of the script visit every interface.                          *)
LEMMA EveryInterface ==
  /\ Len(interfaces) \in Nat
  /\ \A i \in 1 .. Len(interfaces) : interfaces[i] \in Machines
  /\ \A m \in Machines : \E i \in 1 .. Len(interfaces) : interfaces[i] = m
<1> DEFINE n == Cardinality(Machines)
<1>1. n \in Nat /\ IsFiniteSet(1 .. n) /\ Cardinality(1 .. n) = n
  BY LateralAssumption, FS_CardinalityType, FS_Interval
<1>2. PICK f : f \in Bijection(1 .. n, Machines)
  BY LateralAssumption, FS_CardinalityType DEF ExistsBijection
<1>3. f \in [1 .. n -> Machines] /\ IsInjective(f)
  BY <1>2 DEF Bijection, Injection
<1>4. interfaces \in [1 .. n -> Machines] /\ IsInjective(interfaces)
  BY <1>3 DEF interfaces, SetToSeq
<1>5. interfaces \in Injection(1 .. n, Machines)
  BY <1>4 DEF Injection
<1>6. interfaces \in Surjection(1 .. n, Machines)
  BY <1>1, <1>5, FS_Injection, LateralAssumption
<1>7. Len(interfaces) = n
  BY <1>1, <1>4
<1> QED
  BY <1>1, <1>4, <1>6, <1>7 DEF Surjection

LEMMA CleanupInit == MonitorInit => CleanupInv
<1> SUFFICES ASSUME MonitorInit PROVE CleanupInv
  OBVIOUS
<1>1. TypeOK /\ at \in 1 .. Len(interfaces) + 1
  BY TypeInit, EveryInterface DEF MonitorInit
<1>2. /\ main = "attach" /\ present \subseteq Machines /\ trouble = FALSE
      /\ attached = [m \in Machines |-> "none"]
  BY DEF MonitorInit
<1> QED
  BY <1>1, <1>2 DEF CleanupInv, MonitorTypeOK

LEMMA CleanupStep ==
  CleanupInv /\ TypeOK' /\ [MonitorNext]_monitorVars => CleanupInv'
<1> SUFFICES ASSUME CleanupInv, TypeOK', [MonitorNext]_monitorVars PROVE CleanupInv'
  OBVIOUS
<1>a. CleanupInv /\ TypeOK'
  OBVIOUS
<1>b. /\ Len(interfaces) \in Nat
      /\ \A i \in 1 .. Len(interfaces) : interfaces[i] \in Machines
      /\ \A m \in Machines : \E i \in 1 .. Len(interfaces) : interfaces[i] = m
  BY EveryInterface
<1> USE DEF CleanupInv, MonitorTypeOK
<1> HIDE DEF interfaces
<1>1. CASE Attach
  <2> DEFINE m == iface
  <2>1. /\ main = "attach" /\ m \in Machines /\ at' = at + 1 /\ present' = present
        /\ at \in 1 .. Len(interfaces)
    BY <1>a, <1>b, <1>1 DEF Attach, iface
  <2>2. \/ UNCHANGED <<main, attached, trouble>>
        \/ /\ m \in present /\ attached' = [attached EXCEPT ![m] = "xdp"]
           /\ UNCHANGED <<main, trouble>>
        \/ /\ m \in present /\ attached' = [attached EXCEPT ![m] = "tc"]
           /\ trouble' = TRUE /\ UNCHANGED main
        \/ main' = "crashed" /\ trouble' = TRUE /\ UNCHANGED attached
    BY <1>1 DEF Attach, SetAttached
  <2> HIDE DEF m
  <2>3. at' \in 1 .. Len(interfaces) + 1 /\ main' \in {"attach", "crashed"}
    BY <1>b, <2>1, <2>2
  <2>4. CASE UNCHANGED <<main, attached, trouble>>
    BY <1>a, <2>1, <2>3, <2>4
  <2>5. CASE /\ m \in present /\ attached' = [attached EXCEPT ![m] = "xdp"]
             /\ UNCHANGED <<main, trouble>>
    BY <1>a, <2>1, <2>3, <2>5
  <2>6. CASE /\ m \in present /\ attached' = [attached EXCEPT ![m] = "tc"]
             /\ trouble' = TRUE /\ UNCHANGED main
    BY <1>a, <2>1, <2>3, <2>6
  <2>7. CASE main' = "crashed" /\ trouble' = TRUE /\ UNCHANGED attached
    BY <1>a, <2>1, <2>3, <2>7
  <2> QED
    BY <2>2, <2>4, <2>5, <2>6, <2>7
<1>2. CASE OpenRings \/ Interrupt
  BY <1>a, <1>b, <1>2 DEF OpenRings, Interrupt
<1>3. CASE InterruptUncaught
  BY <1>a, <1>b, <1>3 DEF InterruptUncaught
<1>4. CASE Detach
  BY <1>a, <1>b, <1>4 DEF Detach, SetAttached, iface
<1>5. CASE DetachInterrupted
  BY <1>a, <1>b, <1>5 DEF DetachInterrupted, SetAttached, iface
<1>6. CASE CleanedUp
  BY <1>a, <1>b, <1>6 DEF CleanedUp
<1>7. CASE UNCHANGED script
  BY <1>a, <1>7 DEF script
<1> QED
  BY <1>1, <1>2, <1>3, <1>4, <1>5, <1>6, <1>7
     DEF MonitorNext, monitorVars, PollRing, Capture, Over

LEMMA CleanupInvariant == MonitorSpec => []CleanupInv
<1>1. CaptureInv => TypeOK
  BY DEF CaptureInv
<1> QED
  BY <1>1, CaptureInvariant, CleanupInit, CleanupStep, PTL DEF MonitorSpec

(* The script, its attachments and the capture keep their types, and only  *)
(* interfaces that exist have a program.                                   *)
THEOREM MonitorTypeCorrect == MonitorSpec => []MonitorTypeOK
<1>1. CleanupInv => MonitorTypeOK
  BY DEF CleanupInv
<1> QED
  BY <1>1, CleanupInvariant, PTL

(* A cleanup that is announced complete leaves no XDP program on any       *)
(* interface, and an undisturbed script on existing interfaces completes   *)
(* it and leaves no program at all.                                        *)
THEOREM CleanupComplete == MonitorSpec => []CleanEnd
<1>1. CleanupInv => CleanEnd
  BY DEF CleanupInv, MonitorTypeOK, CleanEnd, Ended
<1> QED
  BY <1>1, CleanupInvariant, PTL
================================================================================
