--------------------------- MODULE LateralUser_proofs --------------------------
(***************************************************************************)
(* For any number of sniffers, any threshold and any interleaving of their *)
(* accesses to the shared record: an alert has its evidence.  As long as   *)
(* no two of them were in the handler at once, an alert names a packet     *)
(* that was captured, the first movement is not missed and no sniffer dies.*)
(***************************************************************************)
EXTENDS LateralUser, TLAPS

(* The packet a thread has in hand, and the packets nobody has in hand.    *)
Current(t) == [machine |-> t, ts |-> current_ts[t]]

Handled ==
  {p \in captured : \A t \in Threads : InHandler(t) => p # Current(t)}

(* The packet that the shared record describes.                            *)
Recorded ==
  [machine |-> last_machine[ip_history], ts |-> last_timestamp[ip_history]]

AtRecord == {"machine", "compare", "set_machine", "set_timestamp"}

(* Whatever the interleaving, each half of a record, and what a thread has *)
(* read of it, comes from some packet.                                     *)
Witnessed ==
  /\ \A t \in Threads : InHandler(t) => Current(t) \in captured
  /\ \A e \in Threads :
       /\ last_machine[e] # None =>
            \E p \in captured : p.machine = last_machine[e]
       /\ last_timestamp[e] # None =>
            \E p \in captured : p.ts = last_timestamp[e]
  /\ \A t \in Threads : pc[t] = "compare" =>
       /\ seen_machine[t] \notin {None, t}
       /\ \E p \in captured : p.machine = seen_machine[t]

(* One thread at a time, on one record, which is empty or describes a      *)
(* packet unless that thread is between its two writes.                    *)
OneRecord ==
  /\ \A t, u \in Threads : InHandler(t) /\ InHandler(u) => t = u
  /\ \A t \in Threads : pc[t] # "dead"
  /\ \A t \in Threads : pc[t] = "create" => ip_history = None
  /\ \A t \in Threads : pc[t] \in AtRecord => entry[t] = ip_history
  /\ ip_history = None =>
       \A e \in Threads : last_machine[e] = None /\ last_timestamp[e] = None
  /\ ip_history # None /\ (\A t \in Threads : pc[t] # "set_timestamp") =>
       \/ last_machine[ip_history] = None /\ last_timestamp[ip_history] = None
       \/ Recorded \in captured
  /\ \A t \in Threads : pc[t] = "set_timestamp" => last_machine[ip_history] = t
  /\ \A t \in Threads : pc[t] = "compare" =>
       Recorded \in captured /\ seen_machine[t] = last_machine[ip_history]

(* Packets are captured by increasing time.                                *)
Chronology ==
  /\ \A p \in captured : p.ts <= clock
  /\ \A t \in Threads : InHandler(t) => \A p \in captured : p.ts <= current_ts[t]

(* Before the first alert the packets of other interfaces are further back *)
(* than the threshold, seen from the record and from a packet that is      *)
(* about to be recorded.                                                   *)
NoMove ==
  /\ \A p, q \in Handled :
       p.machine # q.machine => Distance(p.ts, q.ts) > ALERT_THRESHOLD
  /\ ip_history = None \/ last_machine[ip_history] = None => Handled = {}
  /\ ip_history # None /\ Recorded \in captured
       /\ (\A t \in Threads : pc[t] # "set_timestamp") =>
       \A p \in Handled :
         /\ p.ts <= Recorded.ts
         /\ p.machine # Recorded.machine => Recorded.ts - p.ts > ALERT_THRESHOLD
  /\ \A t \in Threads : pc[t] \in {"set_machine", "set_timestamp"} =>
       \A p \in Handled :
         p.machine # t => current_ts[t] - p.ts > ALERT_THRESHOLD

SnifferInv ==
  /\ TypeOK
  /\ Witnessed /\ AlertHasEvidence
  /\ ~ overlap => OneRecord /\ Chronology /\ AlertIsReal
  /\ ~ overlap /\ alerts = {} => NoMove
--------------------------------------------------------------------------------
LEMMA TypeInit == Init => TypeOK
<1> SUFFICES ASSUME Init PROVE TypeOK
  OBVIOUS
<1>1. clock \in 0 .. MaxTime /\ current_ts \in [Threads -> 0 .. MaxTime]
  BY SnifferAssumption DEF Init
<1>2. \A t \in Threads : pc[t] = "sniff"
  BY DEF Init
<1> QED
  BY <1>1, <1>2 DEF Init, TypeOK

LEMMA TypeStep == TypeOK /\ [Next]_userVars => TypeOK'
<1> SUFFICES ASSUME TypeOK, [Next]_userVars PROVE TypeOK'
  OBVIOUS
<1> USE SnifferAssumption
<1>1. ASSUME NEW t \in Threads, Capture(t) PROVE TypeOK'
  BY <1>1 DEF TypeOK, Capture, Goto, record, control
<1>2. ASSUME NEW t \in Threads, OtherPacket(t) PROVE TypeOK'
  BY <1>2 DEF TypeOK, OtherPacket, Finish, Goto, local, record, control, history
<1>3. ASSUME NEW t \in Threads, Lookup(t) PROVE TypeOK'
  BY <1>3 DEF TypeOK, Lookup, Goto, record, control, history
<1>4. ASSUME NEW t \in Threads, Create(t) PROVE TypeOK'
  BY <1>4 DEF TypeOK, Create, Goto, control, history
<1>5. ASSUME NEW t \in Threads, ReadMachine(t) PROVE TypeOK'
  BY <1>5 DEF TypeOK, ReadMachine, Goto, record, control, history
<1>6. ASSUME NEW t \in Threads, CompareWithNone(t) PROVE TypeOK'
  BY <1>6 DEF TypeOK, CompareWithNone, Goto, local, record, control, history
<1>7. ASSUME NEW t \in Threads, Compare(t) PROVE TypeOK'
  BY <1>7 DEF TypeOK, Compare, Finish, Goto, local, record, control
<1>8. ASSUME NEW t \in Threads, SetMachine(t) PROVE TypeOK'
  BY <1>8 DEF TypeOK, SetMachine, Goto, local, control, history
<1>9. ASSUME NEW t \in Threads, SetTimestamp(t) PROVE TypeOK'
  BY <1>9 DEF TypeOK, SetTimestamp, Finish, Goto, local, control, history
<1>10. CASE Tick
  BY <1>10 DEF TypeOK, Tick, local, record, control, history
<1>11. CASE KeyboardInterrupt
  BY <1>11 DEF TypeOK, KeyboardInterrupt, local, record, history
<1>12. CASE Join
  BY <1>12 DEF TypeOK, Join, local, record, history
<1>13. CASE UNCHANGED userVars
  BY <1>13 DEF TypeOK, userVars, local, record, control, history
<1> QED
  BY <1>1, <1>2, <1>3, <1>4, <1>5, <1>6, <1>7, <1>8, <1>9, <1>10, <1>11, <1>12, <1>13
  DEF Next, SnifferStep, Over

(* Every variable keeps its type, and a thread past the lookup has a       *)
(* record to work on.                                                      *)
THEOREM TypeCorrect == Spec => []TypeOK
BY TypeInit, TypeStep, PTL DEF Spec
--------------------------------------------------------------------------------
LEMMA WitnessStep ==
  ASSUME TypeOK, TypeOK', Witnessed, AlertHasEvidence, [Next]_userVars
  PROVE  Witnessed' /\ AlertHasEvidence'
<1> USE SnifferAssumption
<1> DEFINE Goal == Witnessed' /\ AlertHasEvidence'
<1>1. ASSUME NEW t \in Threads, Capture(t) PROVE Goal
  BY <1>1 DEF TypeOK, Witnessed, AlertHasEvidence, InHandler, Current,
     Capture, Goto, record, control
<1>2. ASSUME NEW t \in Threads, OtherPacket(t) PROVE Goal
  BY <1>2 DEF TypeOK, Witnessed, AlertHasEvidence, InHandler, Current,
     OtherPacket, Finish, Goto, local, record, control, history
<1>3. ASSUME NEW t \in Threads, Lookup(t) PROVE Goal
  BY <1>3 DEF TypeOK, Witnessed, AlertHasEvidence, InHandler, Current,
     Lookup, Goto, record, control, history
<1>4. ASSUME NEW t \in Threads, Create(t) PROVE Goal
  BY <1>4 DEF TypeOK, Witnessed, AlertHasEvidence, InHandler, Current,
     Create, Goto, control, history
<1>5. ASSUME NEW t \in Threads, ReadMachine(t) PROVE Goal
  BY <1>5 DEF TypeOK, Witnessed, AlertHasEvidence, InHandler, Current,
     ReadMachine, Goto, record, control, history
<1>6. ASSUME NEW t \in Threads, CompareWithNone(t) PROVE Goal
  BY <1>6 DEF TypeOK, Witnessed, AlertHasEvidence, InHandler, Current,
     CompareWithNone, Goto, local, record, control, history
<1>7. ASSUME NEW t \in Threads, Compare(t) PROVE Goal
  BY <1>7 DEF TypeOK, Witnessed, AlertHasEvidence, InHandler, Current,
     Compare, Finish, Goto, local, record, control
<1>8. ASSUME NEW t \in Threads, SetMachine(t) PROVE Goal
  <2>1. Current(t) \in captured /\ Current(t).machine = t
    BY <1>8 DEF Witnessed, InHandler, Current, SetMachine
  <2>2. /\ entry[t] \in Threads
        /\ last_machine' = [last_machine EXCEPT ![entry[t]] = t]
        /\ UNCHANGED <<last_timestamp, captured, alerts, current_ts, seen_machine>>
    BY <1>8 DEF TypeOK, SetMachine, local, history
  <2>3. \A e \in Threads : last_machine'[e] # None =>
          \E p \in captured : p.machine = last_machine'[e]
    BY <2>1, <2>2 DEF TypeOK, Witnessed
  <2> QED
    BY <1>8, <2>2, <2>3 DEF TypeOK, Witnessed, AlertHasEvidence, InHandler, Current,
       SetMachine, Goto
<1>9. ASSUME NEW t \in Threads, SetTimestamp(t) PROVE Goal
  <2>1. Current(t) \in captured /\ Current(t).ts = current_ts[t]
    BY <1>9 DEF Witnessed, InHandler, Current, SetTimestamp
  <2>2. /\ entry[t] \in Threads
        /\ last_timestamp' = [last_timestamp EXCEPT ![entry[t]] = current_ts[t]]
        /\ UNCHANGED <<last_machine, captured, alerts, current_ts, seen_machine>>
    BY <1>9 DEF TypeOK, SetTimestamp, local, history
  <2>3. \A e \in Threads : last_timestamp'[e] # None =>
          \E p \in captured : p.ts = last_timestamp'[e]
    BY <2>1, <2>2 DEF TypeOK, Witnessed
  <2> QED
    BY <1>9, <2>2, <2>3 DEF TypeOK, Witnessed, AlertHasEvidence, InHandler, Current,
       SetTimestamp, Finish, Goto
<1>10. CASE Tick \/ KeyboardInterrupt \/ Join \/ UNCHANGED userVars
  BY <1>10 DEF TypeOK, Witnessed, AlertHasEvidence, InHandler, Current,
     Tick, KeyboardInterrupt, Join, userVars, local, record, control, history
<1> QED
  BY <1>1, <1>2, <1>3, <1>4, <1>5, <1>6, <1>7, <1>8, <1>9, <1>10
  DEF Next, SnifferStep, Over

LEMMA OverlapStays == [Next]_userVars /\ ~ overlap' => ~ overlap
BY DEF Next, SnifferStep, Capture, OtherPacket, Lookup, Create, ReadMachine,
       CompareWithNone, Compare, SetMachine, SetTimestamp, Tick,
       KeyboardInterrupt, Join, Over, userVars, history

LEMMA ChronologyStep ==
  ASSUME TypeOK, TypeOK', Chronology, ~ overlap', [Next]_userVars
  PROVE  Chronology'
<1> USE SnifferAssumption
<1>a. TypeOK /\ TypeOK' /\ Chronology
  OBVIOUS
<1>1. ASSUME NEW t \in Threads, Capture(t) PROVE Chronology'
  <2>1. \A u \in Threads : ~ InHandler(u)
    BY <1>1 DEF Capture
  <2>2. \A u \in Threads : InHandler(u)' => u = t
    BY <1>a, <1>1, <2>1 DEF Capture, Goto, InHandler, TypeOK
  <2>3. /\ clock' = clock /\ current_ts'[t] = clock
        /\ captured' = captured \cup {[machine |-> t, ts |-> clock]}
    BY <1>a, <1>1 DEF Capture, TypeOK
  <2>4. \A p \in captured' : p.ts <= clock
    BY <1>a, <2>3 DEF TypeOK, Chronology
  <2> QED
    BY <2>2, <2>3, <2>4 DEF Chronology
<1>2. ASSUME NEW t \in Threads, OtherPacket(t) PROVE Chronology'
  BY <1>a, <1>2 DEF TypeOK, Chronology, InHandler,
     OtherPacket, Finish, Goto, local, record, control, history
<1>3. ASSUME NEW t \in Threads, Lookup(t) PROVE Chronology'
  BY <1>a, <1>3 DEF TypeOK, Chronology, InHandler,
     Lookup, Goto, record, control, history
<1>4. ASSUME NEW t \in Threads, Create(t) PROVE Chronology'
  BY <1>a, <1>4 DEF TypeOK, Chronology, InHandler,
     Create, Goto, control, history
<1>5. ASSUME NEW t \in Threads, ReadMachine(t) PROVE Chronology'
  BY <1>a, <1>5 DEF TypeOK, Chronology, InHandler,
     ReadMachine, Goto, record, control, history
<1>6. ASSUME NEW t \in Threads, CompareWithNone(t) PROVE Chronology'
  BY <1>a, <1>6 DEF TypeOK, Chronology, InHandler,
     CompareWithNone, Goto, local, record, control, history
<1>7. ASSUME NEW t \in Threads, Compare(t) PROVE Chronology'
  BY <1>a, <1>7 DEF TypeOK, Chronology, InHandler,
     Compare, Finish, Goto, local, record, control
<1>8. ASSUME NEW t \in Threads, SetMachine(t) PROVE Chronology'
  BY <1>a, <1>8 DEF TypeOK, Chronology, InHandler,
     SetMachine, Goto, local, control, history
<1>9. ASSUME NEW t \in Threads, SetTimestamp(t) PROVE Chronology'
  BY <1>a, <1>9 DEF TypeOK, Chronology, InHandler,
     SetTimestamp, Finish, Goto, local, control, history
<1>10. CASE Tick \/ KeyboardInterrupt \/ Join \/ UNCHANGED userVars
  BY <1>a, <1>10 DEF TypeOK, Chronology, InHandler,
     Tick, KeyboardInterrupt, Join, userVars, local, record, control, history
<1> QED
  BY <1>1, <1>2, <1>3, <1>4, <1>5, <1>6, <1>7, <1>8, <1>9, <1>10
  DEF Next, SnifferStep, Over

LEMMA RecordStep ==
  ASSUME TypeOK, TypeOK', Witnessed, OneRecord, ~ overlap', [Next]_userVars
  PROVE  OneRecord'
<1> USE SnifferAssumption
<1>a. TypeOK /\ TypeOK' /\ Witnessed /\ OneRecord /\ ~ overlap'
  OBVIOUS
<1>1. ASSUME NEW t \in Threads, Capture(t) PROVE OneRecord'
  <2>1. \A u \in Threads : ~ InHandler(u)
    BY <1>1 DEF Capture
  <2>2. pc' = [pc EXCEPT ![t] = "lookup"]
    BY <1>1 DEF Capture, Goto
  <2>3. /\ UNCHANGED <<entry, ip_history, last_machine, last_timestamp, seen_machine>>
        /\ captured \subseteq captured'
    BY <1>1 DEF Capture, record
  <2>4. Recorded' = Recorded
    BY <2>3 DEF Recorded
  <2> QED
    BY <1>a, <2>1, <2>2, <2>3, <2>4 DEF TypeOK, OneRecord, InHandler, AtRecord
<1>2. ASSUME NEW t \in Threads, OtherPacket(t) PROVE OneRecord'
  BY <1>a, <1>2 DEF TypeOK, Witnessed, OneRecord, InHandler, AtRecord, Current, Recorded,
     OtherPacket, Finish, Goto, local, record, control, history
<1>3. ASSUME NEW t \in Threads, Lookup(t) PROVE OneRecord'
  BY <1>a, <1>3 DEF TypeOK, Witnessed, OneRecord, InHandler, AtRecord, Current, Recorded,
     Lookup, Goto, record, control, history
<1>4. ASSUME NEW t \in Threads, Create(t) PROVE OneRecord'
  BY <1>a, <1>4 DEF TypeOK, Witnessed, OneRecord, InHandler, AtRecord, Current, Recorded,
     Create, Goto, control, history
<1>5. ASSUME NEW t \in Threads, ReadMachine(t) PROVE OneRecord'
  BY <1>a, <1>5 DEF TypeOK, Witnessed, OneRecord, InHandler, AtRecord, Current, Recorded,
     ReadMachine, Goto, record, control, history
<1>6. ASSUME NEW t \in Threads, CompareWithNone(t) PROVE OneRecord'
  BY <1>a, <1>6 DEF TypeOK, Witnessed, OneRecord, InHandler, AtRecord, Current, Recorded,
     CompareWithNone, Goto, local, record, control, history
<1>7. ASSUME NEW t \in Threads, Compare(t) PROVE OneRecord'
  <2>1. /\ pc[t] = "compare" /\ pc'[t] \in {"sniff", "stopped", "set_machine"}
        /\ \A u \in Threads : u # t => pc'[u] = pc[u]
    BY <1>a, <1>7 DEF TypeOK, Compare, Finish, Goto
  <2>2. UNCHANGED <<local, record, captured>>
    BY <1>7 DEF Compare
  <2>3. Recorded' = Recorded
    BY <2>2 DEF Recorded, record
  <2>4. Recorded \in captured /\ entry[t] = ip_history
    BY <1>a, <2>1 DEF OneRecord, AtRecord
  <2> QED
    BY <1>a, <2>1, <2>2, <2>3, <2>4 DEF OneRecord, InHandler, AtRecord, local, record
<1>8. ASSUME NEW t \in Threads, SetMachine(t) PROVE OneRecord'
  BY <1>a, <1>8 DEF TypeOK, Witnessed, OneRecord, InHandler, AtRecord, Current, Recorded,
     SetMachine, Goto, local, control, history
<1>9. ASSUME NEW t \in Threads, SetTimestamp(t) PROVE OneRecord'
  BY <1>a, <1>9 DEF TypeOK, Witnessed, OneRecord, InHandler, AtRecord, Current, Recorded,
     SetTimestamp, Finish, Goto, local, control, history
<1>10. CASE Tick \/ KeyboardInterrupt \/ Join \/ UNCHANGED userVars
  BY <1>a, <1>10 DEF TypeOK, Witnessed, OneRecord, InHandler, AtRecord, Current, Recorded,
     Tick, KeyboardInterrupt, Join, userVars, local, record, control, history
<1> QED
  BY <1>1, <1>2, <1>3, <1>4, <1>5, <1>6, <1>7, <1>8, <1>9, <1>10
  DEF Next, SnifferStep, Over

LEMMA RealStep ==
  ASSUME TypeOK, TypeOK', OneRecord, AlertIsReal, ~ overlap, ~ overlap', [Next]_userVars
  PROVE  AlertIsReal'
<1> USE SnifferAssumption
<1>a. TypeOK /\ TypeOK' /\ OneRecord /\ AlertIsReal /\ ~ overlap
  OBVIOUS
<1>1. ASSUME NEW t \in Threads, Capture(t) PROVE AlertIsReal'
  BY <1>a, <1>1 DEF TypeOK, OneRecord, AtRecord, Recorded, AlertIsReal,
     Capture, Goto, record, control
<1>2. ASSUME NEW t \in Threads, OtherPacket(t) PROVE AlertIsReal'
  BY <1>a, <1>2 DEF TypeOK, OneRecord, AtRecord, Recorded, AlertIsReal,
     OtherPacket, Finish, Goto, local, record, control, history
<1>3. ASSUME NEW t \in Threads, Lookup(t) PROVE AlertIsReal'
  BY <1>a, <1>3 DEF TypeOK, OneRecord, AtRecord, Recorded, AlertIsReal,
     Lookup, Goto, record, control, history
<1>4. ASSUME NEW t \in Threads, Create(t) PROVE AlertIsReal'
  BY <1>a, <1>4 DEF TypeOK, OneRecord, AtRecord, Recorded, AlertIsReal,
     Create, Goto, control, history
<1>5. ASSUME NEW t \in Threads, ReadMachine(t) PROVE AlertIsReal'
  BY <1>a, <1>5 DEF TypeOK, OneRecord, AtRecord, Recorded, AlertIsReal,
     ReadMachine, Goto, record, control, history
<1>6. ASSUME NEW t \in Threads, CompareWithNone(t) PROVE AlertIsReal'
  BY <1>a, <1>6 DEF TypeOK, OneRecord, AtRecord, Recorded, AlertIsReal,
     CompareWithNone, Goto, local, record, control, history
<1>7. ASSUME NEW t \in Threads, Compare(t) PROVE AlertIsReal'
  BY <1>a, <1>7 DEF TypeOK, OneRecord, AtRecord, Recorded, AlertIsReal,
     Compare, Finish, Goto, local, record, control
<1>8. ASSUME NEW t \in Threads, SetMachine(t) PROVE AlertIsReal'
  BY <1>a, <1>8 DEF TypeOK, OneRecord, AtRecord, Recorded, AlertIsReal,
     SetMachine, Goto, local, control, history
<1>9. ASSUME NEW t \in Threads, SetTimestamp(t) PROVE AlertIsReal'
  BY <1>a, <1>9 DEF TypeOK, OneRecord, AtRecord, Recorded, AlertIsReal,
     SetTimestamp, Finish, Goto, local, control, history
<1>10. CASE Tick \/ KeyboardInterrupt \/ Join \/ UNCHANGED userVars
  BY <1>a, <1>10 DEF TypeOK, OneRecord, AtRecord, Recorded, AlertIsReal,
     Tick, KeyboardInterrupt, Join, userVars, local, record, control, history
<1> QED
  BY <1>1, <1>2, <1>3, <1>4, <1>5, <1>6, <1>7, <1>8, <1>9, <1>10
  DEF Next, SnifferStep, Over
--------------------------------------------------------------------------------
(* A step that captures nothing and finishes nothing leaves the same       *)
(* packets handled.                                                        *)
LEMMA HandledKept ==
  ASSUME UNCHANGED <<captured, current_ts>>,
         \A t \in Threads : InHandler(t)' = InHandler(t)
  PROVE  Handled' = Handled
BY DEF Handled, Current

(* When the only thread in the handler leaves it, its packet joins them.   *)
LEMMA HandledGrows ==
  ASSUME UNCHANGED <<captured, current_ts>>, NEW t \in Threads,
         \A u \in Threads : u = t \/ (~ InHandler(u) /\ ~ InHandler(u)')
  PROVE  Handled' \subseteq Handled \cup {Current(t)}
BY DEF Handled, Current

LEMMA MoveStep ==
  ASSUME TypeOK, TypeOK', Witnessed, OneRecord, OneRecord', Chronology,
         ~ overlap', alerts = {} => NoMove, alerts' = {}, [Next]_userVars
  PROVE  NoMove'
<1> USE SnifferAssumption
<1>a. TypeOK /\ TypeOK' /\ Witnessed /\ OneRecord /\ OneRecord' /\ Chronology
  OBVIOUS
<1>b. NoMove
  BY DEF Next, SnifferStep, Capture, OtherPacket, Lookup, Create, ReadMachine,
         CompareWithNone, Compare, SetMachine, SetTimestamp, Tick,
         KeyboardInterrupt, Join, Over, userVars, history
<1>c. /\ Handled \subseteq captured
      /\ \A p \in captured : p.ts \in Nat
  BY DEF TypeOK, Handled
<1>1. ASSUME NEW t \in Threads, Capture(t) PROVE NoMove'
  <2>1. \A u \in Threads : ~ InHandler(u)
    BY <1>1 DEF Capture
  <2>2. /\ pc' = [pc EXCEPT ![t] = "lookup"]
        /\ captured' = captured \cup {Current(t)'}
    BY <1>a, <1>1 DEF Capture, Goto, TypeOK, Current
  <2>3. Handled = captured /\ Handled' \subseteq captured
    <3>1. InHandler(t)'
      BY <1>a, <2>2 DEF TypeOK, InHandler
    <3> QED
      BY <2>1, <2>2, <3>1 DEF Handled
  <2>4. /\ UNCHANGED <<ip_history, last_machine, last_timestamp>>
        /\ Recorded' = Recorded
    BY <1>1 DEF Capture, record, Recorded
  <2>5. \A u \in Threads : /\ pc'[u] \notin {"set_machine", "set_timestamp"}
                           /\ pc[u] # "set_timestamp"
    BY <1>a, <2>1, <2>2 DEF TypeOK, InHandler
  <2>6. Recorded \in captured \/ ip_history = None \/ last_machine[ip_history] = None
    BY <1>a, <2>5 DEF OneRecord
  <2> QED
    BY <1>b, <2>3, <2>4, <2>5, <2>6 DEF NoMove
<1>2. ASSUME NEW t \in Threads, OtherPacket(t) PROVE NoMove'
  <2>1. /\ pc' = [pc EXCEPT ![t] = "stopped"] /\ pc[t] = "sniff"
        /\ UNCHANGED <<captured, ip_history, last_machine, last_timestamp, current_ts>>
    BY <1>2 DEF OtherPacket, Finish, Goto, local, record, history
  <2>2. Handled' = Handled /\ Recorded' = Recorded
    BY <1>a, <2>1, HandledKept DEF TypeOK, InHandler, Recorded
  <2> QED
    BY <1>a, <1>b, <2>1, <2>2 DEF TypeOK, NoMove
<1>3. ASSUME NEW t \in Threads, Lookup(t) PROVE NoMove'
  <2>1. /\ pc' = [pc EXCEPT ![t] = IF ip_history = None THEN "create" ELSE "machine"]
        /\ pc[t] = "lookup"
        /\ UNCHANGED <<captured, ip_history, last_machine, last_timestamp, current_ts>>
    BY <1>3 DEF Lookup, Goto, record, history
  <2>2. Handled' = Handled /\ Recorded' = Recorded
    BY <1>a, <2>1, HandledKept DEF TypeOK, InHandler, Recorded
  <2> QED
    BY <1>a, <1>b, <2>1, <2>2 DEF TypeOK, NoMove
<1>4. ASSUME NEW t \in Threads, Create(t) PROVE NoMove'
  <2>1. /\ pc' = [pc EXCEPT ![t] = "machine"] /\ pc[t] = "create"
        /\ ip_history' = t
        /\ UNCHANGED <<captured, last_machine, last_timestamp, current_ts>>
    BY <1>4 DEF Create, Goto, history
  <2>2. Handled' = Handled
    BY <1>a, <2>1, HandledKept DEF TypeOK, InHandler
  <2>3. Handled = {} /\ last_machine'[t] = None
    BY <1>a, <1>b, <2>1 DEF OneRecord, NoMove
  <2> QED
    BY <2>2, <2>3 DEF NoMove
<1>5. ASSUME NEW t \in Threads, ReadMachine(t) PROVE NoMove'
  <2>1. /\ pc' = [pc EXCEPT ![t] = IF last_machine[entry[t]] \notin {None, t}
                                   THEN "compare" ELSE "set_machine"]
        /\ pc[t] = "machine"
        /\ UNCHANGED <<captured, ip_history, last_machine, last_timestamp, current_ts>>
    BY <1>5 DEF ReadMachine, Goto, record, history
  <2>2. Handled' = Handled /\ Recorded' = Recorded
    BY <1>a, <2>1, HandledKept DEF TypeOK, InHandler, Recorded
  <2>3. ip_history # None /\ entry[t] = ip_history /\ InHandler(t)
    BY <1>a, <2>1 DEF OneRecord, AtRecord, TypeOK, InHandler
  <2>4. \A u \in Threads : pc[u] # "set_timestamp" /\ (u # t => pc'[u] # "set_machine")
    BY <1>a, <2>1 DEF OneRecord, InHandler, TypeOK
  <2>5. last_machine[ip_history] \in {None, t} =>
          \A p \in Handled : p.machine # t => current_ts[t] - p.ts > ALERT_THRESHOLD
    <3>1. CASE last_machine[ip_history] = None
      BY <1>b, <3>1 DEF NoMove
    <3>2. CASE last_machine[ip_history] = t
      <4>1. Recorded \in captured
        BY <1>a, <2>3, <2>4, <3>2 DEF OneRecord
      <4>2. Recorded.ts <= current_ts[t] /\ Recorded.ts \in Nat /\ current_ts[t] \in Nat
        BY <1>a, <1>c, <2>3, <4>1 DEF Chronology, TypeOK
      <4>3. \A p \in Handled : p.machine # t => Recorded.ts - p.ts > ALERT_THRESHOLD
        BY <1>b, <2>3, <2>4, <3>2, <4>1 DEF NoMove, Recorded
      <4> QED
        BY <1>c, <4>2, <4>3
    <3> QED
      BY <3>1, <3>2
  <2> QED
    BY <1>a, <1>b, <2>1, <2>2, <2>3, <2>4, <2>5 DEF TypeOK, NoMove
<1>6. ~ \E t \in Threads : CompareWithNone(t)
  BY <1>a DEF CompareWithNone, Goto, OneRecord, TypeOK
<1>7. ASSUME NEW t \in Threads, Compare(t) PROVE NoMove'
  <2> DEFINE diff == Distance(current_ts[t], last_timestamp[entry[t]])
  <2>1. /\ pc' = [pc EXCEPT ![t] = "set_machine"] /\ pc[t] = "compare"
        /\ diff > ALERT_THRESHOLD
        /\ UNCHANGED <<captured, ip_history, last_machine, last_timestamp, current_ts>>
    BY <1>7 DEF Compare, Goto, local, record
  <2>2. Handled' = Handled /\ Recorded' = Recorded
    BY <1>a, <2>1, HandledKept DEF TypeOK, InHandler, Recorded
  <2>3. ip_history # None /\ entry[t] = ip_history /\ InHandler(t) /\ Recorded \in captured
    BY <1>a, <2>1 DEF OneRecord, AtRecord, TypeOK, InHandler
  <2>4. \A u \in Threads : pc[u] # "set_timestamp" /\ (u # t => pc'[u] # "set_machine")
    BY <1>a, <2>1 DEF OneRecord, InHandler, TypeOK
  <2>5. /\ Recorded.ts <= current_ts[t] /\ Recorded.ts \in Nat /\ current_ts[t] \in Nat
        /\ Recorded.ts = last_timestamp[entry[t]]
    BY <1>a, <1>c, <2>3 DEF Chronology, TypeOK, Recorded
  <2>6. current_ts[t] - Recorded.ts > ALERT_THRESHOLD
    BY <2>1, <2>5 DEF Distance
  <2>7. \A p \in Handled : current_ts[t] - p.ts > ALERT_THRESHOLD
    <3>1. \A p \in Handled : p.ts <= Recorded.ts
      BY <1>b, <2>3, <2>4 DEF NoMove
    <3> QED
      BY <1>c, <2>5, <2>6, <3>1
  <2> QED
    BY <1>a, <1>b, <2>1, <2>2, <2>3, <2>4, <2>7 DEF TypeOK, NoMove
<1>8. ASSUME NEW t \in Threads, SetMachine(t) PROVE NoMove'
  <2>1. /\ pc' = [pc EXCEPT ![t] = "set_timestamp"] /\ pc[t] = "set_machine"
        /\ last_machine' = [last_machine EXCEPT ![entry[t]] = t]
        /\ UNCHANGED <<captured, ip_history, last_timestamp, current_ts>>
    BY <1>8 DEF SetMachine, Goto, local, history
  <2>2. Handled' = Handled
    BY <1>a, <2>1, HandledKept DEF TypeOK, InHandler
  <2>3. ip_history \in Threads /\ entry[t] = ip_history /\ InHandler(t)
    BY <1>a, <2>1 DEF OneRecord, AtRecord, TypeOK, InHandler
  <2>4. \A u \in Threads \ {t} : pc'[u] \notin {"set_machine", "set_timestamp"}
    BY <1>a, <2>1, <2>3 DEF OneRecord, InHandler, TypeOK
  <2>5. last_machine'[ip_history'] = t /\ ip_history' # None /\ t # None
    BY <1>a, <2>1, <2>3 DEF TypeOK
  <2> QED
    BY <1>a, <1>b, <2>1, <2>2, <2>4, <2>5 DEF TypeOK, NoMove
<1>9. ASSUME NEW t \in Threads, SetTimestamp(t) PROVE NoMove'
  <2>1. /\ pc[t] = "set_timestamp"
        /\ pc' = [pc EXCEPT ![t] = IF stop_event THEN "stopped" ELSE "sniff"]
        /\ last_timestamp' = [last_timestamp EXCEPT ![entry[t]] = current_ts[t]]
        /\ UNCHANGED <<captured, ip_history, last_machine, current_ts>>
    BY <1>9 DEF SetTimestamp, Finish, Goto, local, history
  <2>2. /\ ip_history \in Threads /\ entry[t] = ip_history /\ InHandler(t)
        /\ last_machine[ip_history] = t
    BY <1>a, <2>1 DEF OneRecord, AtRecord, TypeOK, InHandler
  <2>3. \A u \in Threads : u = t \/ (~ InHandler(u) /\ ~ InHandler(u)')
    BY <1>a, <2>1, <2>2 DEF OneRecord, InHandler, TypeOK
  <2>4. Handled' \subseteq Handled \cup {Current(t)}
    BY <2>1, <2>3, HandledGrows
  <2>5. Recorded' = Current(t) /\ last_machine'[ip_history'] # None /\ ip_history' # None
    BY <1>a, <2>1, <2>2 DEF TypeOK, Recorded, Current
  <2>6. \A u \in Threads : pc'[u] \notin {"set_machine", "set_timestamp"}
    BY <1>a, <2>1, <2>3 DEF TypeOK, InHandler
  <2>7. /\ Current(t).ts = current_ts[t] /\ current_ts[t] \in Nat
        /\ Current(t).machine = t
    BY <1>a DEF Current, TypeOK
  <2>8. \A p \in Handled : /\ p.ts <= Current(t).ts
                           /\ p.machine # t => Current(t).ts - p.ts > ALERT_THRESHOLD
    BY <1>a, <1>b, <1>c, <2>1, <2>2, <2>7 DEF Chronology, NoMove
  <2>9. \A p, q \in Handled' :
          p.machine # q.machine => Distance(p.ts, q.ts) > ALERT_THRESHOLD
    BY <1>b, <1>c, <2>4, <2>7, <2>8 DEF NoMove, Distance
  <2> QED
    BY <2>4, <2>5, <2>6, <2>7, <2>8, <2>9 DEF NoMove
<1>10. CASE Tick \/ KeyboardInterrupt \/ Join \/ UNCHANGED userVars
  <2>1. UNCHANGED <<pc, captured, ip_history, last_machine, last_timestamp, current_ts>>
    BY <1>10 DEF Tick, KeyboardInterrupt, Join, userVars, local, record, history
  <2>2. Handled' = Handled /\ Recorded' = Recorded
    BY <2>1, HandledKept DEF InHandler, Recorded
  <2> QED
    BY <1>b, <2>1, <2>2 DEF NoMove
<1> QED
  BY <1>1, <1>2, <1>3, <1>4, <1>5, <1>6, <1>7, <1>8, <1>9, <1>10
  DEF Next, SnifferStep, Over

--------------------------------------------------------------------------------
LEMMA SnifferInit == Init => SnifferInv
<1> SUFFICES ASSUME Init PROVE SnifferInv
  OBVIOUS
<1>1. \A t \in Threads : pc[t] = "sniff" /\ ~ InHandler(t)
  BY DEF Init, InHandler
<1>2. Witnessed /\ AlertHasEvidence /\ AlertIsReal
  BY <1>1 DEF Init, Witnessed, AlertHasEvidence, AlertIsReal
<1>3. OneRecord /\ Chronology
  BY <1>1 DEF Init, OneRecord, Chronology, AtRecord
<1>4. NoMove
  BY <1>1 DEF Init, NoMove, Handled
<1> QED
  BY <1>2, <1>3, <1>4, TypeInit DEF SnifferInv

LEMMA SnifferStepInv == SnifferInv /\ [Next]_userVars => SnifferInv'
<1> SUFFICES ASSUME SnifferInv, [Next]_userVars PROVE SnifferInv'
  OBVIOUS
<1>1. TypeOK /\ TypeOK' /\ Witnessed
  BY TypeStep DEF SnifferInv
<1>2. Witnessed' /\ AlertHasEvidence'
  BY <1>1, WitnessStep DEF SnifferInv
<1>3. ASSUME ~ overlap' PROVE OneRecord' /\ Chronology' /\ AlertIsReal'
  BY <1>1, <1>3, OverlapStays, RecordStep, ChronologyStep, RealStep DEF SnifferInv
<1>4. ASSUME ~ overlap', alerts' = {} PROVE NoMove'
  BY <1>1, <1>3, <1>4, OverlapStays, MoveStep DEF SnifferInv
<1> QED
  BY <1>1, <1>2, <1>3, <1>4 DEF SnifferInv

LEMMA SnifferInvariant == Spec => []SnifferInv
BY SnifferInit, SnifferStepInv, PTL DEF Spec

(* However many sniffers race on the record, an alert names another        *)
(* interface that has seen the machine, and a delay within the threshold   *)
(* to some captured packet.                                                *)
THEOREM EvidenceForAlerts == Spec => []AlertHasEvidence
<1>1. SnifferInv => AlertHasEvidence
  BY DEF SnifferInv
<1> QED
  BY <1>1, SnifferInvariant, PTL

(* While no two sniffers have been in the handler at once, an alert names  *)
(* the interface of a packet that was captured there, as near in time as   *)
(* it says: machine and time of the record are of one packet.              *)
THEOREM AlertsAreReal == Spec => []AlertIsReal
<1>1. SnifferInv => AlertIsReal
  BY DEF SnifferInv, AlertIsReal
<1> QED
  BY <1>1, SnifferInvariant, PTL

(* While no two sniffers have been in the handler at once, the first       *)
(* movement within the threshold raises an alert, however many interfaces, *)
(* packets and time there are.                                             *)
THEOREM MovementIsSeen == Spec => []FirstMoveDetected
<1>1. SnifferInv => FirstMoveDetected
  <2> SUFFICES ASSUME SnifferInv, ~ overlap, alerts = {},
                      \A t \in Threads : pc[t] = "sniff"
               PROVE  \A p, q \in captured :
                        p.machine # q.machine => Distance(p.ts, q.ts) > ALERT_THRESHOLD
    BY DEF FirstMoveDetected
  <2>1. Handled = captured
    BY DEF Handled, InHandler
  <2> QED
    BY <2>1 DEF SnifferInv, NoMove
<1> QED
  BY <1>1, SnifferInvariant, PTL

(* While no two sniffers have been in the handler at once, none of them    *)
(* dies of a record that has a machine and no time.                        *)
THEOREM SniffersSurvive == Spec => []SniffersSurviveAlone
<1>1. SnifferInv => SniffersSurviveAlone
  BY DEF SnifferInv, OneRecord, SniffersSurviveAlone
<1> QED
  BY <1>1, SnifferInvariant, PTL
================================================================================
