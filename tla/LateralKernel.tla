----------------------------- MODULE LateralKernel -----------------------------
(***************************************************************************)
(* eBPF_Baptiste/al_interfaces_v2.py.  A program on each interface stamps  *)
(* the packets of the infected machine and submits them to the perf ring   *)
(* of the CPU it runs on; one thread polls the rings and compares each     *)
(* packet with the last one it recorded.  Both infected addresses share    *)
(* one history (lines 92-93), so the address is left out of a packet.      *)
(***************************************************************************)
EXTENDS Integers, Sequences, FiniteSets

CONSTANTS
  CPUs,             \* CPUs that run the kernel programs
  Machines,         \* the labels of the interfaces
  None,             \* no packet recorded yet
  ALERT_THRESHOLD,  \* largest time between the two packets of an alert
  RING,             \* packets a perf ring holds
  MaxPackets,       \* bound: packets captured
  MaxTime           \* bound: the last value of the clock

ASSUME LateralAssumption ==
  /\ IsFiniteSet(CPUs) /\ IsFiniteSet(Machines) /\ None \notin Machines
  /\ ALERT_THRESHOLD \in Nat /\ RING \in Nat /\ MaxPackets \in Nat /\ MaxTime \in Nat

VARIABLES
  clock,
  events,     \* events[c]: the ring of CPU c
  ip_history, \* last_machine and last_timestamp
  captured,   \* history: the packets stamped, in order
  lost,       \* history: whether a full ring ever dropped one
  alerts,     \* history: the pairs <<recorded packet, current packet>> alerted
  last,       \* history: the packet handled last
  inOrder     \* history: whether packets were handled by increasing stamp

lateralVars == <<clock, events, ip_history, captured, lost, alerts, last,
                 inOrder>>

Packets == [machine : Machines, ts : 0 .. MaxTime]
NoPacket == [machine |-> None, ts |-> 0]

Init ==
  /\ clock = 0
  /\ events = [c \in CPUs |-> <<>>]
  /\ ip_history = NoPacket
  /\ captured = <<>>
  /\ lost = FALSE
  /\ alerts = {}
  /\ last = NoPacket
  /\ inOrder = TRUE

Distance(p, q) == IF p.ts >= q.ts THEN p.ts - q.ts ELSE q.ts - p.ts
--------------------------------------------------------------------------------
(* handle_packet: perf_submit drops the packet when the ring is full.      *)
HandlePacket(c, m) ==
  LET pkt == [machine |-> m, ts |-> clock] IN
  /\ Len(captured) < MaxPackets
  /\ captured' = Append(captured, pkt)
  /\ IF Len(events[c]) < RING
     THEN /\ events' = [events EXCEPT ![c] = Append(@, pkt)]
          /\ UNCHANGED lost
     ELSE /\ lost' = TRUE
          /\ UNCHANGED events
  /\ UNCHANGED <<clock, ip_history, alerts, last, inOrder>>

(* Mutant: the time of the record is not refreshed with its machine.       *)
CheckStaleTime(pkt) ==
  IF /\ ip_history.machine # None
     /\ ip_history.machine # pkt.machine
     /\ Distance(pkt, ip_history) <= ALERT_THRESHOLD
  THEN /\ alerts' = alerts \cup {<<ip_history, pkt>>}
       /\ UNCHANGED ip_history
  ELSE /\ ip_history' = [machine |-> pkt.machine,
                         ts |-> IF ip_history = NoPacket THEN pkt.ts
                                ELSE ip_history.ts]
       /\ UNCHANGED alerts

(* Mutant: the times are compared the wrong way round.                     *)
CheckOnlyLater(pkt) ==
  IF /\ ip_history.machine # None
     /\ ip_history.machine # pkt.machine
     /\ ip_history.ts - pkt.ts \in 0 .. ALERT_THRESHOLD
  THEN /\ alerts' = alerts \cup {<<ip_history, pkt>>}
       /\ UNCHANGED ip_history
  ELSE ip_history' = pkt /\ UNCHANGED alerts

(* Mutant: the alert names the two machines the wrong way round.           *)
CheckSwapped(pkt) ==
  IF /\ ip_history.machine # None
     /\ ip_history.machine # pkt.machine
     /\ Distance(pkt, ip_history) <= ALERT_THRESHOLD
  THEN /\ alerts' = alerts \cup {<<pkt, ip_history>>}
       /\ UNCHANGED ip_history
  ELSE ip_history' = pkt /\ UNCHANGED alerts

(* check_lateral_movement: an alert returns before the record is updated.  *)
check_lateral_movement(pkt) ==
  IF /\ ip_history.machine # None
     /\ ip_history.machine # pkt.machine
     /\ Distance(pkt, ip_history) <= ALERT_THRESHOLD
  THEN /\ alerts' = alerts \cup {<<ip_history, pkt>>}
       /\ UNCHANGED ip_history
  ELSE ip_history' = pkt /\ UNCHANGED alerts

(* perf_buffer_poll hands the head of a ring to handle_event; nothing      *)
(* orders the rings of different CPUs.                                     *)
HandleEvent(c) ==
  /\ events[c] # <<>>
  /\ check_lateral_movement(Head(events[c]))
  /\ last' = Head(events[c])
  /\ inOrder' = (inOrder /\ Head(events[c]).ts >= last.ts)
  /\ events' = [events EXCEPT ![c] = Tail(@)]
  /\ UNCHANGED <<clock, captured, lost>>

Tick ==
  /\ clock < MaxTime
  /\ clock' = clock + 1
  /\ UNCHANGED <<events, ip_history, captured, lost, alerts, last, inOrder>>

(* The traffic is over and every ring is empty.                            *)
Quiet ==
  /\ Len(captured) = MaxPackets /\ clock = MaxTime
  /\ \A c \in CPUs : events[c] = <<>>
  /\ UNCHANGED lateralVars

Next ==
  \/ \E c \in CPUs : (\E m \in Machines : HandlePacket(c, m)) \/ HandleEvent(c)
  \/ Tick
  \/ Quiet

Spec == Init /\ [][Next]_lateralVars
--------------------------------------------------------------------------------
(* Every variable holds values of its type.                                *)
TypeOK ==
  /\ clock \in 0 .. MaxTime
  /\ events \in [CPUs -> Seq(Packets)]
  /\ \A c \in CPUs : Len(events[c]) <= RING
  /\ ip_history \in Packets \cup {NoPacket}
  /\ captured \in Seq(Packets)
  /\ lost \in BOOLEAN
  /\ alerts \subseteq Packets \X Packets
  /\ last \in Packets \cup {NoPacket}
  /\ inOrder \in BOOLEAN

(* An alert is about two packets that were really captured, on different   *)
(* interfaces and within the threshold, whatever was lost or reordered in  *)
(* between.                                                                *)
Captured == {captured[i] : i \in DOMAIN captured}

AlertIsReal ==
  \A a \in alerts : /\ {a[1], a[2]} \subseteq Captured
                    /\ a[1].machine # a[2].machine
                    /\ Distance(a[1], a[2]) <= ALERT_THRESHOLD

(* As long as the rings of the CPUs happen to be polled in the order of    *)
(* their stamps, an alert names its two packets in the order they came in. *)
AlertInOrder == inOrder => \A a \in alerts : a[1].ts <= a[2].ts

(* When every ring is drained, nothing was lost, packets were handled in   *)
(* order and no alert was raised, no two packets in a row moved from one   *)
(* interface to the other within the threshold: the first movement is      *)
(* never missed.                                                           *)
FirstMoveDetected ==
  (~ lost /\ inOrder /\ alerts = {} /\ \A c \in CPUs : events[c] = <<>>) =>
    \A i \in 1 .. Len(captured) - 1 :
      \/ captured[i].machine = captured[i + 1].machine
      \/ Distance(captured[i], captured[i + 1]) > ALERT_THRESHOLD
================================================================================
