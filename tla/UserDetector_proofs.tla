-------------------------- MODULE UserDetector_proofs --------------------------
(***************************************************************************)
(* For any addresses, ports, threshold and window: the detector keeps its  *)
(* types and its lock discipline, its samples and counters account for     *)
(* every packet, no sample has two drops more than packets, and its        *)
(* decisions are those of the abstract filter.                             *)
(***************************************************************************)
EXTENDS UserDetector, TLAPS

(* What a thread read when it took the lock is still there when it writes. *)
LoadedIsFresh ==
  /\ sniffer = "counting" => loaded = packet_counter
  /\ sniffer = "dropping" => loaded = drop_counter
  /\ monitor = "sampling" => sample = [total |-> packet_counter,
                                       drops |-> drop_counter,
                                       measured |-> latencies]

(* The drops of a period are its packets, one left over from the period    *)
(* before, less the one that still has no verdict.                         *)
DropsBehindPackets == drop_counter + Undecided <= packet_counter + 1

AccountInv == TypeOK /\ LoadedIsFresh /\ NothingLost

DropInv == TypeOK /\ LoadedIsFresh /\ DropsBehindPackets /\ DropsExceedByOne
--------------------------------------------------------------------------------
LEMMA DecisionType ==
  ASSUME TypeOK, NEW ip \in IPs, NEW t \in Nat
  PROVE  /\ Decision(ip, t).count \in Nat
         /\ Decision(ip, t).since \in Nat
         /\ Decision(ip, t).ban \in BOOLEAN
<1> DEFINE count == ip_flood_count[ip] + 1
           since == ip_last_seen[ip]
<1>1. /\ count \in Nat /\ since \in Nat
      /\ (t - since >= TIME_WINDOW) \in BOOLEAN
      /\ (count > MAX_PACKETS) \in BOOLEAN
  BY DetectorAssumption DEF TypeOK
<1> HIDE DEF count, since
<1>2. Decision(ip, t) =
        IF since = 0 THEN [count |-> count, since |-> t, ban |-> FALSE]
        ELSE IF t - since >= TIME_WINDOW
             THEN [count |-> 1, since |-> t, ban |-> FALSE]
             ELSE [count |-> count, since |-> since, ban |-> count > MAX_PACKETS]
  BY DEF Decision, count, since
<1>3. ASSUME NEW n \in Nat, NEW u \in Nat, NEW b \in BOOLEAN,
             Decision(ip, t) = [count |-> n, since |-> u, ban |-> b]
      PROVE  /\ Decision(ip, t).count \in Nat
             /\ Decision(ip, t).since \in Nat
             /\ Decision(ip, t).ban \in BOOLEAN
  <2>1. Decision(ip, t).count = n
    BY <1>3
  <2>2. Decision(ip, t).since = u
    BY <1>3
  <2>3. Decision(ip, t).ban = b
    BY <1>3
  <2> QED
    BY <2>1, <2>2, <2>3, Zenon
<1>4. CASE since = 0
  <2>1. Decision(ip, t) = [count |-> count, since |-> t, ban |-> FALSE]
    BY <1>2, <1>4, Zenon
  <2> QED
    BY <1>1, <1>3, <2>1, Zenon
<1>5. CASE since # 0 /\ t - since >= TIME_WINDOW
  <2>1. Decision(ip, t) = [count |-> 1, since |-> t, ban |-> FALSE]
    BY <1>2, <1>5, Zenon
  <2>2. 1 \in Nat
    OBVIOUS
  <2> QED
    BY <1>1, <1>3, <2>1, <2>2, Zenon
<1>6. CASE since # 0 /\ ~ (t - since >= TIME_WINDOW)
  <2>1. Decision(ip, t) = [count |-> count, since |-> since, ban |-> count > MAX_PACKETS]
    BY <1>2, <1>6, Zenon
  <2> QED
    BY <1>1, <1>3, <2>1, Zenon
<1> QED
  BY <1>4, <1>5, <1>6, Zenon

LEMMA Quotient ==
  ASSUME NEW a \in Nat, NEW b \in Nat, b # 0 PROVE a \div b \in Nat
OBVIOUS

LEMMA TypeInit == Init => TypeOK
BY DetectorAssumption DEF Init, TypeOK, Nothing, Samples

LEMMA TypeStep == TypeOK /\ [Next]_detectorVars => TypeOK'
<1> SUFFICES ASSUME TypeOK, [Next]_detectorVars PROVE TypeOK'
  OBVIOUS
<1> USE DetectorAssumption
<1>1. ASSUME NEW ip \in IPs, Receive(ip) PROVE TypeOK'
  BY <1>1 DEF Receive, TypeOK, tables, counters, sampling
<1>2. CASE CountEnter
  BY <1>2 DEF CountEnter, TypeOK, tables, counters, sampling
<1>3. CASE CountLeave
  BY <1>3 DEF CountLeave, TypeOK, tables, sampling
<1>4. CASE Decide
  <2>1. src_ip \in IPs /\ now \in Nat
    BY <1>4 DEF Decide, TypeOK
  <2>2. /\ ip_count' \in [IPs -> Nat] /\ ip_flood_count' \in [IPs -> Nat]
        /\ ip_last_seen' \in [IPs -> Nat] /\ ip_blacklist' \subseteq IPs
    <3>1. CASE UNCHANGED tables
      BY <3>1 DEF TypeOK, tables
    <3>2. CASE src_ip \notin ip_blacklist
      <4>1. /\ Decision(src_ip, now).count \in Nat
            /\ Decision(src_ip, now).since \in Nat
        BY <2>1, DecisionType
      <4>2. /\ ip_count' = [ip_count EXCEPT ![src_ip] = @ + 1]
            /\ ip_flood_count' = [ip_flood_count EXCEPT ![src_ip] =
                                    Decision(src_ip, now).count]
            /\ ip_last_seen' = [ip_last_seen EXCEPT ![src_ip] =
                                  Decision(src_ip, now).since]
            /\ ip_blacklist' \subseteq ip_blacklist \cup {src_ip}
        BY <1>4, <3>2 DEF Decide
      <4> QED
        BY <2>1, <4>1, <4>2 DEF TypeOK
    <3> QED
      BY <1>4, <3>1, <3>2 DEF Decide
  <2>3. sniffer' \in {"drop", "pass"}
    BY <1>4 DEF Decide
  <2>4. /\ sniffer = "decide"
        /\ UNCHANGED <<clock, lock, packet_counter, drop_counter, latencies,
                       src_ip, now, loaded, monitor, sample, stats_queue,
                       sampled, handled, dropped>>
    BY <1>4 DEF Decide, counters, sampling
  <2> QED
    BY <2>1, <2>2, <2>3, <2>4 DEF TypeOK
<1>5. CASE VerdictEnter
  BY <1>5 DEF VerdictEnter, TypeOK, tables, counters, sampling
<1>6. CASE VerdictLeave
  <2>1. CASE DropLeave
    BY <1>6, <2>1 DEF VerdictLeave, DropLeave, TypeOK, tables, sampling
  <2>2. CASE PassLeave
    BY <1>6, <2>2 DEF VerdictLeave, PassLeave, TypeOK, tables, sampling
  <2> QED
    BY <1>6, <2>1, <2>2 DEF VerdictLeave
<1>7. CASE SampleEnter
  BY <1>7 DEF SampleEnter, TypeOK, tables, counters, Samples
<1>8. CASE SampleLeave
  <2>1. DropRate(sample) \in Nat
    <3>1. sample.total \in Nat /\ 100 * sample.drops \in Nat
      BY DEF TypeOK, Samples
    <3> QED
      BY <3>1, Quotient DEF DropRate
  <2>2. sampled' \in Samples
    <3>0. sample \in Samples /\ sampled \in Samples
      BY DEF TypeOK
    <3>1. /\ sampled.total + sample.total \in Nat
          /\ sampled.drops + sample.drops \in Nat
          /\ sampled.measured + sample.measured \in Nat
      BY <3>0 DEF Samples
    <3>2. sampled' = [total |-> sampled.total + sample.total,
                      drops |-> sampled.drops + sample.drops,
                      measured |-> sampled.measured + sample.measured]
      BY <1>8 DEF SampleLeave, Publish
    <3> QED
      BY <3>1, <3>2 DEF Samples
  <2>3. stats_queue' \in Seq([total : Nat, drop_rate : Nat])
    <3>1. stats_queue' = Append(stats_queue, [total |-> sample.total,
                                              drop_rate |-> DropRate(sample)])
      BY <1>8 DEF SampleLeave, Publish
    <3>2. sample.total \in Nat /\ stats_queue \in Seq([total : Nat, drop_rate : Nat])
      BY DEF TypeOK, Samples
    <3> QED
      BY <2>1, <3>1, <3>2
  <2> QED
    BY <1>8, <2>2, <2>3 DEF SampleLeave, Publish, TypeOK, tables
<1>9. CASE Get
  BY <1>9 DEF Get, TypeOK, tables, counters
<1>10. CASE Tick
  BY <1>10 DEF Tick, TypeOK, tables, counters, sampling
<1>11. CASE UNCHANGED detectorVars
  BY <1>11 DEF detectorVars, TypeOK, tables, counters, sampling
<1> QED
  BY <1>1, <1>2, <1>3, <1>4, <1>5, <1>6, <1>7, <1>8, <1>9, <1>10, <1>11
     DEF Next, HandlerStep

(* Every variable of the detector keeps its type, and the lock is held by  *)
(* the thread that is inside a critical section (ddos_user_space.py lines  *)
(* 50-117).                                                                *)
THEOREM DetectorTypeCorrect == Spec => []TypeOK
BY TypeInit, TypeStep, PTL DEF Spec
--------------------------------------------------------------------------------
LEMMA FreshStep ==
  TypeOK /\ LoadedIsFresh /\ [Next]_detectorVars => LoadedIsFresh'
<1> SUFFICES ASSUME TypeOK, LoadedIsFresh, [Next]_detectorVars
             PROVE  LoadedIsFresh'
  OBVIOUS
<1>1. ASSUME NEW ip \in IPs, Receive(ip) PROVE LoadedIsFresh'
  BY <1>1 DEF Receive, LoadedIsFresh, counters, sampling
<1>2. CASE CountEnter
  BY <1>2 DEF CountEnter, TypeOK, LoadedIsFresh, counters, sampling
<1>3. CASE CountLeave
  BY <1>3 DEF CountLeave, TypeOK, LoadedIsFresh, sampling
<1>4. CASE Decide
  <2>1. sniffer' \in {"drop", "pass"}
    BY <1>4 DEF Decide
  <2>2. UNCHANGED <<packet_counter, drop_counter, latencies, loaded, monitor, sample>>
    BY <1>4 DEF Decide, counters, sampling
  <2> QED
    BY <2>1, <2>2 DEF LoadedIsFresh
<1>5. CASE VerdictEnter
  BY <1>5 DEF VerdictEnter, TypeOK, LoadedIsFresh, counters, sampling
<1>6. CASE VerdictLeave
  <2>1. sniffer \in {"dropping", "passing"} /\ sniffer' = "sniff"
    BY <1>6 DEF VerdictLeave, DropLeave, PassLeave
  <2>2. monitor # "sampling" /\ monitor' = monitor
    BY <1>6, <2>1 DEF VerdictLeave, TypeOK, sampling
  <2> QED
    BY <2>1, <2>2 DEF LoadedIsFresh
<1>7. CASE SampleEnter
  BY <1>7 DEF SampleEnter, TypeOK, LoadedIsFresh, counters
<1>8. CASE SampleLeave
  BY <1>8 DEF SampleLeave, Publish, TypeOK, LoadedIsFresh
<1>9. CASE Get
  BY <1>9 DEF Get, LoadedIsFresh, counters
<1>10. CASE Tick
  BY <1>10 DEF Tick, LoadedIsFresh, counters, sampling
<1>11. CASE UNCHANGED detectorVars
  BY <1>11 DEF detectorVars, LoadedIsFresh, counters, sampling
<1> QED
  BY <1>1, <1>2, <1>3, <1>4, <1>5, <1>6, <1>7, <1>8, <1>9, <1>10, <1>11
     DEF Next, HandlerStep

LEMMA AccountInit == Init => AccountInv
BY TypeInit DEF Init, AccountInv, LoadedIsFresh, NothingLost, Nothing, Undecided

LEMMA AccountStep == AccountInv /\ [Next]_detectorVars => AccountInv'
<1> SUFFICES ASSUME AccountInv, [Next]_detectorVars PROVE AccountInv'
  OBVIOUS
<1>a. TypeOK /\ LoadedIsFresh /\ NothingLost
  BY DEF AccountInv
<1>b. TypeOK' /\ LoadedIsFresh'
  BY <1>a, TypeStep, FreshStep
<1>c. /\ sampled.total \in Nat /\ sampled.drops \in Nat /\ sampled.measured \in Nat
      /\ packet_counter \in Nat /\ drop_counter \in Nat /\ latencies \in Nat
      /\ handled \in Nat /\ dropped \in Nat
  BY <1>a DEF TypeOK, Samples
<1>d. /\ packet_counter' \in Nat /\ drop_counter' \in Nat /\ latencies' \in Nat
      /\ handled' \in Nat /\ dropped' \in Nat
  BY <1>b DEF TypeOK
<1> SUFFICES NothingLost'
  BY <1>b DEF AccountInv
<1>1. ASSUME NEW ip \in IPs, Receive(ip) PROVE NothingLost'
  BY <1>a, <1>1 DEF Receive, NothingLost, Undecided, counters, sampling
<1>2. CASE CountEnter
  BY <1>a, <1>2 DEF CountEnter, NothingLost, Undecided, counters, sampling
<1>3. CASE CountLeave
  <2>1. /\ sniffer = "counting" /\ sniffer' = "decide"
        /\ packet_counter' = packet_counter + 1
        /\ handled' = handled + 1
        /\ UNCHANGED <<drop_counter, latencies, dropped, sampled>>
    BY <1>a, <1>3 DEF CountLeave, LoadedIsFresh, sampling
  <2> QED
    BY <1>a, <1>c, <1>d, <2>1 DEF NothingLost, Undecided
<1>4. CASE Decide
  <2>1. sniffer = "decide" /\ sniffer' \in {"drop", "pass"}
    BY <1>4 DEF Decide
  <2>2. UNCHANGED <<packet_counter, drop_counter, latencies, handled, dropped, sampled>>
    BY <1>4 DEF Decide, counters, sampling
  <2> QED
    BY <1>a, <2>1, <2>2 DEF NothingLost, Undecided
<1>5. CASE VerdictEnter
  BY <1>a, <1>5 DEF VerdictEnter, NothingLost, Undecided, counters, sampling
<1>6. CASE VerdictLeave
  <2>1. /\ sniffer \in {"dropping", "passing"} /\ sniffer' = "sniff"
        /\ latencies' = latencies + 1
        /\ UNCHANGED <<packet_counter, sampled, handled>>
    BY <1>6 DEF VerdictLeave, DropLeave, PassLeave, sampling
  <2>2. \/ drop_counter' = drop_counter + 1 /\ dropped' = dropped + 1
        \/ drop_counter' = drop_counter /\ dropped' = dropped
    BY <1>a, <1>6 DEF VerdictLeave, DropLeave, PassLeave, LoadedIsFresh
  <2>3. Undecided = 1 /\ Undecided' = 0
    BY <2>1 DEF Undecided
  <2> QED
    BY <1>a, <1>c, <1>d, <2>1, <2>2, <2>3 DEF NothingLost
<1>7. CASE SampleEnter
  BY <1>a, <1>7 DEF SampleEnter, NothingLost, Undecided, counters
<1>8. CASE SampleLeave
  <2>1. /\ sample.total = packet_counter /\ sample.drops = drop_counter
        /\ sample.measured = latencies
    BY <1>a, <1>8 DEF SampleLeave, Publish, LoadedIsFresh
  <2>2. /\ sampled'.total = sampled.total + sample.total
        /\ sampled'.drops = sampled.drops + sample.drops
        /\ sampled'.measured = sampled.measured + sample.measured
        /\ packet_counter' = 0 /\ drop_counter' = 0 /\ latencies' = 0
        /\ UNCHANGED <<sniffer, handled, dropped>>
    BY <1>8 DEF SampleLeave, Publish
  <2>3. Undecided' = Undecided /\ Undecided \in {0, 1}
    BY <2>2 DEF Undecided
  <2> QED
    BY <1>a, <1>c, <1>d, <2>1, <2>2, <2>3 DEF NothingLost
<1>9. CASE Get
  BY <1>a, <1>9 DEF Get, NothingLost, Undecided, counters
<1>10. CASE Tick
  BY <1>a, <1>10 DEF Tick, NothingLost, Undecided, counters, sampling
<1>11. CASE UNCHANGED detectorVars
  BY <1>a, <1>11 DEF detectorVars, NothingLost, Undecided, counters, sampling
<1> QED
  BY <1>1, <1>2, <1>3, <1>4, <1>5, <1>6, <1>7, <1>8, <1>9, <1>10, <1>11
     DEF Next, HandlerStep

(* No packet, drop or latency is lost or reported twice, wherever a sample *)
(* falls between the handler's two critical sections (lines 53-54, 62-66   *)
(* and 101-114).                                                           *)
THEOREM NothingIsLost == Spec => []NothingLost
<1>1. AccountInv => NothingLost
  BY DEF AccountInv
<1> QED
  BY <1>1, AccountInit, AccountStep, PTL DEF Spec
--------------------------------------------------------------------------------
LEMMA DropInit == Init => DropInv
BY TypeInit
   DEF Init, DropInv, LoadedIsFresh, DropsBehindPackets, DropsExceedByOne,
       Nothing, Undecided

LEMMA DropStep == DropInv /\ [Next]_detectorVars => DropInv'
<1> SUFFICES ASSUME DropInv, [Next]_detectorVars PROVE DropInv'
  OBVIOUS
<1>a. TypeOK /\ LoadedIsFresh /\ DropsBehindPackets /\ DropsExceedByOne
  BY DEF DropInv
<1>b. TypeOK' /\ LoadedIsFresh'
  BY <1>a, TypeStep, FreshStep
<1> SUFFICES DropsBehindPackets' /\ DropsExceedByOne'
  BY <1>b DEF DropInv
<1>1. ASSUME NEW ip \in IPs, Receive(ip)
      PROVE  DropsBehindPackets' /\ DropsExceedByOne'
  BY <1>a, <1>1 DEF Receive, DropsBehindPackets, DropsExceedByOne, Undecided,
                    counters, sampling
<1>2. CASE CountEnter
  BY <1>a, <1>2 DEF CountEnter, DropsBehindPackets, DropsExceedByOne, Undecided,
                    counters, sampling
<1>3. CASE CountLeave
  BY <1>a, <1>3 DEF CountLeave, TypeOK, LoadedIsFresh, DropsBehindPackets,
                    DropsExceedByOne, Undecided, sampling
<1>4. CASE Decide
  <2>1. sniffer = "decide" /\ sniffer' \in {"drop", "pass"}
    BY <1>4 DEF Decide
  <2>2. UNCHANGED <<packet_counter, drop_counter, sample>>
    BY <1>4 DEF Decide, counters, sampling
  <2> QED
    BY <1>a, <2>1, <2>2 DEF DropsBehindPackets, DropsExceedByOne, Undecided
<1>5. CASE VerdictEnter
  BY <1>a, <1>5 DEF VerdictEnter, DropsBehindPackets, DropsExceedByOne, Undecided,
                    counters, sampling
<1>6. CASE VerdictLeave
  <2>1. /\ sniffer \in {"dropping", "passing"} /\ sniffer' = "sniff"
        /\ UNCHANGED <<packet_counter, sample>>
    BY <1>6 DEF VerdictLeave, DropLeave, PassLeave, sampling
  <2>2. drop_counter' \in {drop_counter, drop_counter + 1}
    BY <1>a, <1>6 DEF VerdictLeave, DropLeave, PassLeave, LoadedIsFresh
  <2>3. packet_counter \in Nat /\ drop_counter \in Nat /\ drop_counter' \in Nat
    BY <1>a, <1>b DEF TypeOK
  <2>4. Undecided = 1 /\ Undecided' = 0
    BY <2>1 DEF Undecided
  <2>5. drop_counter' <= packet_counter' + 1
    BY <1>a, <2>1, <2>2, <2>3, <2>4 DEF DropsBehindPackets
  <2>6. DropsBehindPackets'
    BY <2>3, <2>4, <2>5 DEF DropsBehindPackets
  <2> QED
    BY <1>a, <2>1, <2>6 DEF DropsExceedByOne
<1>7. CASE SampleEnter
  BY <1>a, <1>7 DEF SampleEnter, TypeOK, DropsBehindPackets, DropsExceedByOne,
                    Undecided, counters
<1>8. CASE SampleLeave
  BY <1>a, <1>8 DEF SampleLeave, Publish, DropsBehindPackets, DropsExceedByOne,
                    Undecided
<1>9. CASE Get
  BY <1>a, <1>9 DEF Get, DropsBehindPackets, DropsExceedByOne, Undecided, counters
<1>10. CASE Tick
  BY <1>a, <1>10 DEF Tick, DropsBehindPackets, DropsExceedByOne, Undecided,
                     counters, sampling
<1>11. CASE UNCHANGED detectorVars
  BY <1>a, <1>11 DEF detectorVars, DropsBehindPackets, DropsExceedByOne,
                     Undecided, counters, sampling
<1> QED
  BY <1>1, <1>2, <1>3, <1>4, <1>5, <1>6, <1>7, <1>8, <1>9, <1>10, <1>11
     DEF Next, HandlerStep

(* Although a packet and its drop are counted in two critical sections, no *)
(* sample has two drops more than packets (lines 53-66 and 101-114).       *)
THEOREM AtMostOneDropTooMany == Spec => []DropsExceedByOne
<1>1. DropInv => DropsExceedByOne
  BY DEF DropInv
<1> QED
  BY <1>1, DropInit, DropStep, PTL DEF Spec
--------------------------------------------------------------------------------
(* An address has a stamp when it has a count, and no count is over the    *)
(* threshold unless its address is banned; the handler has a stamp.        *)
TablesAgree ==
  /\ clock # 0
  /\ sniffer # "sniff" => now # 0
  /\ \A ip \in IPs : ip_flood_count[ip] = 0 <=> ip_last_seen[ip] = 0
  /\ \A ip \in IPs \ ip_blacklist : ip_flood_count[ip] <= MAX_PACKETS

TableInv == TypeOK /\ TablesAgree

(* The three outcomes of a packet.                                         *)
LEMMA DecisionCases ==
  ASSUME NEW ip, NEW t
  PROVE  LET count == ip_flood_count[ip] + 1
             since == ip_last_seen[ip]
             d == Decision(ip, t)
         IN  \/ /\ since = 0
                /\ d.count = count /\ d.since = t /\ d.ban = FALSE
             \/ /\ since # 0 /\ t - since >= TIME_WINDOW
                /\ d.count = 1 /\ d.since = t /\ d.ban = FALSE
             \/ /\ since # 0 /\ ~ (t - since >= TIME_WINDOW)
                /\ d.count = count /\ d.since = since
                /\ d.ban = (count > MAX_PACKETS)
<1> DEFINE count == ip_flood_count[ip] + 1
           since == ip_last_seen[ip]
           expired == t - since >= TIME_WINDOW
           over == count > MAX_PACKETS
<1>1. Decision(ip, t) =
        IF since = 0 THEN [count |-> count, since |-> t, ban |-> FALSE]
        ELSE IF expired THEN [count |-> 1, since |-> t, ban |-> FALSE]
        ELSE [count |-> count, since |-> since, ban |-> over]
  BY DEF Decision
<1> SUFFICES LET d == Decision(ip, t)
             IN  \/ /\ since = 0
                    /\ d.count = count /\ d.since = t /\ d.ban = FALSE
                 \/ /\ since # 0 /\ expired
                    /\ d.count = 1 /\ d.since = t /\ d.ban = FALSE
                 \/ /\ since # 0 /\ ~ expired
                    /\ d.count = count /\ d.since = since
                    /\ d.ban = over
  OBVIOUS
<1> HIDE DEF count, since, expired, over
<1>2. ASSUME NEW n, NEW u, NEW b,
             Decision(ip, t) = [count |-> n, since |-> u, ban |-> b]
      PROVE  /\ Decision(ip, t).count = n
             /\ Decision(ip, t).since = u
             /\ Decision(ip, t).ban = b
  BY <1>2
<1>3. CASE since = 0
  <2>1. Decision(ip, t) = [count |-> count, since |-> t, ban |-> FALSE]
    BY <1>1, <1>3, Zenon
  <2> QED
    BY <1>2, <1>3, <2>1, Zenon
<1>4. CASE since # 0 /\ expired
  <2>1. Decision(ip, t) = [count |-> 1, since |-> t, ban |-> FALSE]
    BY <1>1, <1>4, Zenon
  <2> QED
    BY <1>2, <1>4, <2>1, Zenon
<1>5. CASE since # 0 /\ ~ expired
  <2>1. Decision(ip, t) = [count |-> count, since |-> since, ban |-> over]
    BY <1>1, <1>5, Zenon
  <2> QED
    BY <1>2, <1>5, <2>1, Zenon
<1> QED
  BY <1>3, <1>4, <1>5, Zenon

LEMMA TableInit == Init => TableInv
BY TypeInit, DetectorAssumption DEF Init, TableInv, TablesAgree

LEMMA TableStep == TableInv /\ [Next]_detectorVars => TableInv'
<1> SUFFICES ASSUME TableInv, [Next]_detectorVars PROVE TableInv'
  OBVIOUS
<1>a. TypeOK /\ TypeOK' /\ TablesAgree
  BY TypeStep DEF TableInv
<1> SUFFICES TablesAgree'
  BY <1>a DEF TableInv
<1>1. ASSUME NEW ip \in IPs, Receive(ip) PROVE TablesAgree'
  BY <1>a, <1>1 DEF Receive, TablesAgree, tables
<1>2. CASE CountEnter \/ CountLeave \/ VerdictEnter \/ VerdictLeave
  BY <1>a, <1>2 DEF CountEnter, CountLeave, VerdictEnter, VerdictLeave,
                    DropLeave, PassLeave, TablesAgree, tables
<1>3. CASE Decide
  <2>0. /\ sniffer = "decide" /\ src_ip \in IPs /\ now \in Nat /\ now # 0
        /\ clock' = clock /\ now' = now
    BY <1>a, <1>3 DEF Decide, TypeOK, TablesAgree
  <2>1. CASE UNCHANGED tables
    BY <1>a, <2>0, <2>1 DEF TablesAgree, tables
  <2>2. CASE src_ip \notin ip_blacklist
    <3> DEFINE d == Decision(src_ip, now)
    <3>1. /\ ip_flood_count' = [ip_flood_count EXCEPT ![src_ip] = d.count]
          /\ ip_last_seen' = [ip_last_seen EXCEPT ![src_ip] = d.since]
          /\ ip_blacklist' = ip_blacklist \cup {ip \in {src_ip} : d.ban}
      BY <1>3, <2>2 DEF Decide
    <3>2. /\ d.count \in Nat \ {0} /\ d.since \in Nat \ {0}
          /\ d.ban = FALSE => d.count <= MAX_PACKETS
      <4> DEFINE n == ip_flood_count[src_ip]
                 u == ip_last_seen[src_ip]
      <4>1. n \in Nat /\ u \in Nat /\ (n = 0 <=> u = 0)
        BY <1>a, <2>0 DEF TypeOK, TablesAgree
      <4>2. \/ u = 0 /\ d.count = n + 1 /\ d.since = now /\ d.ban = FALSE
            \/ u # 0 /\ d.count = 1 /\ d.since = now /\ d.ban = FALSE
            \/ u # 0 /\ d.count = n + 1 /\ d.since = u
               /\ (d.ban = FALSE => ~ (n + 1 > MAX_PACKETS))
        BY DecisionCases, Zenon
      <4> HIDE DEF d, n, u
      <4> QED
        BY <2>0, <4>1, <4>2, DetectorAssumption
    <3> HIDE DEF d
    <3>3. d.ban \in BOOLEAN
      BY <1>a, <2>0, DecisionType DEF d
    <3> QED
      BY <1>a, <2>0, <2>2, <3>1, <3>2, <3>3 DEF TablesAgree, TypeOK
  <2> QED
    BY <1>3, <2>1, <2>2 DEF Decide
<1>4. CASE SampleEnter \/ SampleLeave \/ Get
  BY <1>a, <1>4 DEF SampleEnter, SampleLeave, Publish, Get, TablesAgree, tables
<1>5. CASE Tick
  BY <1>a, <1>5 DEF Tick, TablesAgree, TypeOK, tables
<1>6. CASE UNCHANGED detectorVars
  BY <1>a, <1>6 DEF detectorVars, TablesAgree, tables
<1> QED
  BY <1>1, <1>2, <1>3, <1>4, <1>5, <1>6 DEF Next, HandlerStep
--------------------------------------------------------------------------------
(* What the mapping shows changes only with the tables, the stamp and the  *)
(* place of the handler.                                                   *)
LEMMA FilterStep ==
  ASSUME TypeOK, TypeOK', \A ip \in IPs : Pending(ip)' = Pending(ip),
         UNCHANGED <<ip_flood_count, ip_last_seen, ip_blacklist, now>>
  PROVE  UNCHANGED <<countedBar, sinceBar, bannedBar>>
<1>1. \A ip \in IPs : Decision(ip, now)' = Decision(ip, now)
  BY DEF Decision
<1> QED
  BY <1>1 DEF countedBar, sinceBar, bannedBar

LEMMA KeepStep ==
  ASSUME TypeOK, TypeOK', clock' = clock,
         \/ CountEnter \/ CountLeave \/ VerdictEnter \/ VerdictLeave
         \/ SampleEnter \/ SampleLeave \/ Get
         \/ UNCHANGED detectorVars
  PROVE  UNCHANGED Filter!filterVars
<1>1. UNCHANGED <<ip_flood_count, ip_last_seen, ip_blacklist>>
  BY DEF CountEnter, CountLeave, VerdictEnter, VerdictLeave, DropLeave, PassLeave,
         SampleEnter, SampleLeave, Publish, Get, detectorVars, tables
<1>2. CASE VerdictLeave
  <2>1. \A ip \in IPs : ~ Pending(ip) /\ ~ Pending(ip)'
    BY <1>2 DEF VerdictLeave, DropLeave, PassLeave, Pending
  <2> QED
    BY <1>1, <2>1 DEF countedBar, sinceBar, bannedBar, Filter!filterVars
<1>3. CASE ~ VerdictLeave
  <2>1. now' = now /\ src_ip' = src_ip
    BY <1>3 DEF CountEnter, CountLeave, VerdictEnter, SampleEnter, SampleLeave,
                Publish, Get, detectorVars
  <2>2. (sniffer \in {"count", "counting", "decide"})'
          = (sniffer \in {"count", "counting", "decide"})
    BY <1>3 DEF CountEnter, CountLeave, VerdictEnter, SampleEnter, SampleLeave,
                Publish, Get, detectorVars
  <2>3. \A ip \in IPs : Pending(ip)' = Pending(ip)
    BY <1>1, <2>1, <2>2 DEF Pending
  <2> QED
    BY <1>1, <2>1, <2>3, FilterStep DEF Filter!filterVars
<1> QED
  BY <1>2, <1>3

(* A packet of an address that is not banned opens a window, or is         *)
(* admitted, or exceeds the allowance, in the step that stamps it.         *)
LEMMA ReceiveFilter ==
  ASSUME TableInv, TypeOK', NEW ip \in IPs, Receive(ip)
  PROVE  [Filter!FilterNext]_(Filter!filterVars)
<1>a. TypeOK /\ TablesAgree /\ DetectorAssumption
  BY DetectorAssumption DEF TableInv
<1>b. /\ sniffer = "sniff" /\ sniffer' = "count" /\ src_ip' = ip /\ now' = clock
      /\ UNCHANGED <<clock, ip_flood_count, ip_last_seen, ip_blacklist>>
  BY DEF Receive, tables
<1>c. \A k \in IPs : ~ Pending(k) /\ Pending(k)' = (k = ip /\ ip \notin ip_blacklist)
  BY <1>b DEF Pending
<1>d. /\ countedBar = ip_flood_count /\ sinceBar = ip_last_seen
      /\ bannedBar = ip_blacklist
  BY <1>a, <1>c DEF countedBar, sinceBar, bannedBar, TypeOK
<1>1. CASE ip \in ip_blacklist
  <2>1. UNCHANGED Filter!filterVars
    BY <1>a, <1>b, <1>c, <1>d, <1>1
       DEF countedBar, sinceBar, bannedBar, Filter!filterVars, TypeOK
  <2> QED
    BY <2>1
<1>2. CASE ip \notin ip_blacklist
  <2> DEFINE d == Decision(ip, clock)
  <2>1. \A k \in IPs : Decision(k, now)' = Decision(k, clock)
    BY <1>b DEF Decision
  <2>2. /\ countedBar' = [countedBar EXCEPT ![ip] = d.count]
        /\ sinceBar' = [sinceBar EXCEPT ![ip] = d.since]
        /\ bannedBar' = bannedBar \cup {k \in {ip} : d.ban}
    <3>1. d.ban \in BOOLEAN
      BY <1>a, DecisionType DEF TypeOK
    <3>2. \A k \in IPs : Pending(k)' <=> k = ip
      BY <1>c, <1>2
    <3>3. \A k \in IPs : k = ip => Decision(k, now)' = d
      BY <2>1
    <3> HIDE DEF d
    <3>4. countedBar' = [k \in IPs |-> IF k = ip THEN d.count ELSE ip_flood_count[k]]
      BY <1>b, <3>2, <3>3 DEF countedBar
    <3>5. sinceBar' = [k \in IPs |-> IF k = ip THEN d.since ELSE ip_last_seen[k]]
      BY <1>b, <3>2, <3>3 DEF sinceBar
    <3>6. bannedBar' = ip_blacklist \cup {k \in {ip} : d.ban}
      BY <1>b, <3>1, <3>2, <3>3 DEF bannedBar
    <3> QED
      BY <1>a, <1>d, <3>4, <3>5, <3>6 DEF TypeOK
  <2> DEFINE n == countedBar[ip]
             u == sinceBar[ip]
  <2>3. /\ n \in Nat /\ u \in Nat /\ clock \in Nat
        /\ n = 0 <=> u = 0
        /\ n <= MAX_PACKETS
    BY <1>a, <1>d, <1>2 DEF TypeOK, TablesAgree
  <2>4. \/ u = 0 /\ d.count = n + 1 /\ d.since = clock /\ d.ban = FALSE
        \/ /\ u # 0 /\ Filter!Expired(ip)
           /\ d.count = 1 /\ d.since = clock /\ d.ban = FALSE
        \/ /\ u # 0 /\ ~ Filter!Expired(ip)
           /\ d.count = n + 1 /\ d.since = u /\ d.ban = (n + 1 > MAX_PACKETS)
    BY <1>d, DecisionCases, Zenon DEF Filter!Expired
  <2>5. sinceBar' = sinceBar \/ d.since # u
    BY <1>a, <1>d, <2>2 DEF TypeOK
  <2> HIDE DEF d
  <2>6. CASE n = 0 \/ (u # 0 /\ Filter!Expired(ip))
    <3>1. d.count = 1 /\ d.since = clock /\ d.ban = FALSE
      BY <2>3, <2>4, <2>6
    <3>2. Filter!OpenWindow(ip)
      BY <1>b, <1>d, <1>2, <2>2, <2>6, <3>1 DEF Filter!OpenWindow
    <3> QED
      BY <3>2 DEF Filter!FilterNext
  <2>7. CASE n # 0 /\ ~ Filter!Expired(ip) /\ ~ (n + 1 > MAX_PACKETS)
    <3>1. d.count = n + 1 /\ d.since = u /\ ~ d.ban
      BY <2>3, <2>4, <2>7, Zenon
    <3>2. Filter!Admit(ip)
      BY <1>a, <1>b, <1>d, <1>2, <2>2, <2>3, <2>5, <2>7, <3>1 DEF Filter!Admit
    <3> QED
      BY <3>2 DEF Filter!FilterNext
  <2>8. CASE n # 0 /\ ~ Filter!Expired(ip) /\ n + 1 > MAX_PACKETS
    <3>1. d.count = n + 1 /\ d.since = u /\ d.ban = TRUE
      BY <2>3, <2>4, <2>8, Zenon
    <3>2. Filter!Exceed(ip)
      BY <1>a, <1>b, <1>d, <1>2, <2>2, <2>3, <2>5, <2>8, <3>1 DEF Filter!Exceed
    <3> QED
      BY <3>2 DEF Filter!FilterNext
  <2> QED
    BY <2>3, <2>6, <2>7, <2>8
<1> QED
  BY <1>1, <1>2

(* When the decision is taken the tables become what the abstract filter   *)
(* showed since the packet was stamped.                                    *)
LEMMA DecideFilter ==
  ASSUME TypeOK, TypeOK', Decide
  PROVE  UNCHANGED Filter!filterVars
<1>1. /\ sniffer = "decide" /\ sniffer' \in {"drop", "pass"} /\ src_ip \in IPs
      /\ UNCHANGED <<clock, now, src_ip>>
  BY DEF Decide, TypeOK
<1>2. \A k \in IPs : /\ ~ Pending(k)'
                     /\ Pending(k) <=> k = src_ip /\ src_ip \notin ip_blacklist
  BY <1>1 DEF Pending
<1>3. CASE UNCHANGED tables /\ src_ip \in ip_blacklist
  BY <1>1, <1>2, <1>3
     DEF countedBar, sinceBar, bannedBar, Filter!filterVars, tables
<1>4. CASE src_ip \notin ip_blacklist
  <2> DEFINE d == Decision(src_ip, now)
  <2>1. /\ ip_flood_count' = [ip_flood_count EXCEPT ![src_ip] = d.count]
        /\ ip_last_seen' = [ip_last_seen EXCEPT ![src_ip] = d.since]
        /\ ip_blacklist' = ip_blacklist \cup {ip \in {src_ip} : d.ban}
    BY <1>4 DEF Decide
  <2>2. \A k \in IPs : k # src_ip => Pending(k) = FALSE
    BY <1>2
  <2>3. countedBar' = countedBar /\ sinceBar' = sinceBar /\ bannedBar' = bannedBar
    <3> HIDE DEF d
    <3>1. \A k \in IPs : k = src_ip => Decision(k, now) = d
      BY DEF d
    <3> QED
      BY <1>1, <1>2, <1>4, <2>1, <3>1 DEF countedBar, sinceBar, bannedBar, TypeOK
  <2> QED
    BY <1>1, <2>3 DEF Filter!filterVars
<1> QED
  BY <1>3, <1>4 DEF Decide

LEMMA TickFilter ==
  ASSUME TypeOK, TypeOK', Tick
  PROVE  Filter!PassTime
<1>1. \A ip \in IPs : Pending(ip)' = Pending(ip)
  BY DEF Tick, Pending, tables
<1>2. UNCHANGED <<countedBar, sinceBar, bannedBar>>
  BY <1>1, FilterStep DEF Tick, tables
<1> QED
  BY <1>2 DEF Tick, Filter!PassTime

LEMMA FilterStart == Init => Filter!FilterInit
BY DEF Init, Filter!FilterInit, countedBar, sinceBar, bannedBar, Pending

LEMMA FilterSteps ==
  TableInv /\ TypeOK' /\ [Next]_detectorVars => [Filter!FilterNext]_(Filter!filterVars)
<1> SUFFICES ASSUME TableInv, TypeOK', [Next]_detectorVars
             PROVE  [Filter!FilterNext]_(Filter!filterVars)
  OBVIOUS
<1>a. TypeOK
  BY DEF TableInv
<1>1. ASSUME NEW ip \in IPs, Receive(ip)
      PROVE  [Filter!FilterNext]_(Filter!filterVars)
  BY <1>1, ReceiveFilter
<1>2. CASE Decide
  BY <1>a, <1>2, DecideFilter
<1>3. CASE Tick
  BY <1>a, <1>3, TickFilter DEF Filter!FilterNext
<1>4. CASE \/ CountEnter \/ CountLeave \/ VerdictEnter \/ VerdictLeave
           \/ SampleEnter \/ SampleLeave \/ Get
           \/ UNCHANGED detectorVars
  <2>1. clock' = clock
    BY <1>4 DEF CountEnter, CountLeave, VerdictEnter, VerdictLeave, DropLeave,
                PassLeave, SampleEnter, SampleLeave, Publish, Get, detectorVars
  <2> QED
    BY <1>a, <1>4, <2>1, KeepStep
<1> QED
  BY <1>1, <1>2, <1>3, <1>4 DEF Next, HandlerStep

(* The user-space detector, with its packets split over several steps and  *)
(* its samples in between, never does what the abstract filter does not    *)
(* (ddos_user_space.py lines 68-99).                                       *)
THEOREM DetectorIsFilter == Spec => ImplementsFilter
<1>1. TableInv => TypeOK
  BY DEF TableInv
<1> QED
  BY <1>1, TableInit, TableStep, FilterStart, FilterSteps, PTL
     DEF Spec, ImplementsFilter, Filter!FilterSpec
================================================================================
