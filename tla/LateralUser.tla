------------------------------ MODULE LateralUser ------------------------------
(***************************************************************************)
(* eBPF_Baptiste/test_user_space.py.  One sniffer thread per interface     *)
(* compares each packet of the infected machine with the record they all   *)
(* share; every sniffer takes a lock of its own (line 34), so the threads  *)
(* interleave between any two accesses to the record.  Both infected       *)
(* addresses share one record (lines 40-41), which the first thread that   *)
(* misses it creates.                                                      *)
(***************************************************************************)
EXTENDS Integers, FiniteSets

CONSTANTS
  Threads,          \* the sniffers; the label of a thread's interface is itself
  None,             \* a field of the record that is still None
  ALERT_THRESHOLD,  \* largest time between the two packets of an alert
  MaxPackets,       \* bound: packets captured on an interface
  MaxTime           \* bound: the last value of the clock

ASSUME SnifferAssumption ==
  /\ IsFiniteSet(Threads) /\ None \notin Threads \cup (0 .. MaxTime)
  /\ ALERT_THRESHOLD \in Nat /\ MaxPackets \in Nat /\ MaxTime \in Nat

VARIABLES
  clock,           \* time.time()
  pc,              \* where each thread is in packet_handler
  current_ts,      \* the time a thread gave its packet
  seen_machine,    \* what a thread read from the record
  entry,           \* the record a thread works on: the thread that created it
  ip_history,      \* the record of the infected address, None before there is one
  last_machine, last_timestamp,  \* of every record a thread has created
  stop_event,
  main,            \* "watch", then "join", then "done"
  joined,          \* threads the main thread has finished waiting for
  captured,        \* history: the packets captured, [machine, ts]
  alerts,          \* history: the alerts raised, [by, ts, diff, other]
  overlap          \* history: whether two threads were ever in the handler at once

local == <<current_ts, seen_machine, entry>>
record == <<ip_history, last_machine, last_timestamp>>
control == <<stop_event, main, joined>>
history == <<captured, alerts, overlap>>
userVars == <<clock, pc, local, record, control, history>>

Init ==
  /\ clock = 0
  /\ pc = [t \in Threads |-> "sniff"]
  /\ current_ts = [t \in Threads |-> 0]
  /\ seen_machine = [t \in Threads |-> None]
  /\ entry = [t \in Threads |-> None]
  /\ ip_history = None
  /\ last_machine = [t \in Threads |-> None]
  /\ last_timestamp = [t \in Threads |-> None]
  /\ stop_event = FALSE
  /\ main = "watch"
  /\ joined = {}
  /\ captured = {}
  /\ alerts = {}
  /\ overlap = FALSE

Goto(t, label) == pc' = [pc EXCEPT ![t] = label]

(* packet_handler returns and sniff asks stop_filter.                      *)
Finish(t) == Goto(t, IF stop_event THEN "stopped" ELSE "sniff")

InHandler(t) == pc[t] \notin {"sniff", "stopped", "dead"}

Distance(a, b) == IF a >= b THEN a - b ELSE b - a
--------------------------------------------------------------------------------
(* A packet of an infected address reaches packet_handler, which stamps it.*)
Capture(t) ==
  /\ pc[t] = "sniff"
  /\ Cardinality({p \in captured : p.machine = t}) < MaxPackets
  /\ current_ts' = [current_ts EXCEPT ![t] = clock]
  /\ captured' = captured \cup {[machine |-> t, ts |-> clock]}
  /\ overlap' = (overlap \/ \E u \in Threads : InHandler(u))
  /\ Goto(t, "lookup")
  /\ UNCHANGED <<clock, seen_machine, entry, record, control, alerts>>

(* Mutant: get() where the default factory is wanted.                      *)
LookupGet(t) ==
  /\ pc[t] = "lookup"
  /\ entry' = [entry EXCEPT ![t] = ip_history]
  /\ Goto(t, "machine")
  /\ UNCHANGED <<clock, current_ts, seen_machine, record, control, history>>

(* ip_history[ip]: a miss calls the default factory.                       *)
Lookup(t) ==
  /\ pc[t] = "lookup"
  /\ entry' = [entry EXCEPT ![t] = ip_history]
  /\ Goto(t, IF ip_history = None THEN "create" ELSE "machine")
  /\ UNCHANGED <<clock, current_ts, seen_machine, record, control, history>>

(* The new record takes the key, whoever stored another one meanwhile.     *)
Create(t) ==
  /\ pc[t] = "create"
  /\ ip_history' = t
  /\ entry' = [entry EXCEPT ![t] = t]
  /\ Goto(t, "machine")
  /\ UNCHANGED <<clock, current_ts, seen_machine, last_machine, last_timestamp,
                 control, history>>

(* Mutant: the test that the record names another machine is missing.      *)
ReadMachineAny(t) ==
  LET m == last_machine[entry[t]] IN
  /\ pc[t] = "machine"
  /\ seen_machine' = [seen_machine EXCEPT ![t] = m]
  /\ Goto(t, IF m # None THEN "compare" ELSE "set_machine")
  /\ UNCHANGED <<clock, current_ts, entry, record, control, history>>

(* history["last_machine"] and history["last_machine"] != current_machine: *)
(* no other thread ever writes this thread's label, so one read is enough. *)
ReadMachine(t) ==
  LET m == last_machine[entry[t]] IN
  /\ pc[t] = "machine"
  /\ seen_machine' = [seen_machine EXCEPT ![t] = m]
  /\ Goto(t, IF m \notin {None, t} THEN "compare" ELSE "set_machine")
  /\ UNCHANGED <<clock, current_ts, entry, record, control, history>>

(* Subtracting None raises TypeError: it ends the sniffer.                 *)
CompareWithNone(t) ==
  /\ pc[t] = "compare"
  /\ last_timestamp[entry[t]] = None
  /\ Goto(t, "dead")
  /\ UNCHANGED <<clock, local, record, control, history>>

(* Mutant: the bound of the threshold is left out.                         *)
CompareStrict(t) ==
  LET diff == Distance(current_ts[t], last_timestamp[entry[t]]) IN
  /\ pc[t] = "compare"
  /\ last_timestamp[entry[t]] # None
  /\ \/ /\ diff < ALERT_THRESHOLD
        /\ alerts' = alerts \cup {[by |-> t, ts |-> current_ts[t],
                                   diff |-> diff, other |-> seen_machine[t]]}
        /\ Finish(t)
     \/ /\ diff >= ALERT_THRESHOLD
        /\ Goto(t, "set_machine")
        /\ UNCHANGED alerts
  /\ UNCHANGED <<clock, local, record, control, captured, overlap>>

(* An alert returns without updating the record.                           *)
Compare(t) ==
  LET diff == Distance(current_ts[t], last_timestamp[entry[t]]) IN
  /\ pc[t] = "compare"
  /\ last_timestamp[entry[t]] # None
  /\ \/ /\ diff <= ALERT_THRESHOLD
        /\ alerts' = alerts \cup {[by |-> t, ts |-> current_ts[t],
                                   diff |-> diff, other |-> seen_machine[t]]}
        /\ Finish(t)
     \/ /\ diff > ALERT_THRESHOLD
        /\ Goto(t, "set_machine")
        /\ UNCHANGED alerts
  /\ UNCHANGED <<clock, local, record, control, captured, overlap>>

(* Mutant: the time of the packet is left to a later one.                  *)
SetMachineOnly(t) ==
  /\ pc[t] = "set_machine"
  /\ last_machine' = [last_machine EXCEPT ![entry[t]] = t]
  /\ Finish(t)
  /\ UNCHANGED <<clock, local, ip_history, last_timestamp, control, history>>

SetMachine(t) ==
  /\ pc[t] = "set_machine"
  /\ last_machine' = [last_machine EXCEPT ![entry[t]] = t]
  /\ Goto(t, "set_timestamp")
  /\ UNCHANGED <<clock, local, ip_history, last_timestamp, control, history>>

(* Mutant: the record gets the time it is written, not the packet's.       *)
SetTimestampNow(t) ==
  /\ pc[t] = "set_timestamp"
  /\ last_timestamp' = [last_timestamp EXCEPT ![entry[t]] = clock]
  /\ Finish(t)
  /\ UNCHANGED <<clock, local, ip_history, last_machine, control, history>>

SetTimestamp(t) ==
  /\ pc[t] = "set_timestamp"
  /\ last_timestamp' = [last_timestamp EXCEPT ![entry[t]] = current_ts[t]]
  /\ Finish(t)
  /\ UNCHANGED <<clock, local, ip_history, last_machine, control, history>>

(* Any other packet changes nothing but lets sniff ask stop_filter.        *)
OtherPacket(t) ==
  /\ pc[t] = "sniff"
  /\ stop_event
  /\ Finish(t)
  /\ UNCHANGED <<clock, local, record, control, history>>

--------------------------------------------------------------------------------
(* Ctrl-C: the main thread asks the sniffers to stop; a second one, while  *)
(* it waits for them, ends it.                                             *)
KeyboardInterrupt ==
  /\ \/ main = "watch" /\ main' = "join" /\ stop_event' = TRUE
     \/ main = "join" /\ main' = "done" /\ UNCHANGED stop_event
  /\ UNCHANGED <<clock, pc, local, record, joined, history>>

(* Mutant: join without a timeout.                                         *)
JoinForever ==
  /\ main = "join"
  /\ \/ \E t \in Threads \ joined : /\ pc[t] \in {"stopped", "dead"}
                                     /\ joined' = joined \cup {t}
                                     /\ UNCHANGED main
     \/ joined = Threads /\ main' = "done" /\ UNCHANGED joined
  /\ UNCHANGED <<clock, pc, local, record, stop_event, history>>

(* join(timeout=5) returns when the sniffer has ended or the time is up.   *)
Join ==
  /\ main = "join"
  /\ \/ \E t \in Threads \ joined : joined' = joined \cup {t} /\ UNCHANGED main
     \/ joined = Threads /\ main' = "done" /\ UNCHANGED joined
  /\ UNCHANGED <<clock, pc, local, record, stop_event, history>>

Tick ==
  /\ clock < MaxTime
  /\ clock' = clock + 1
  /\ UNCHANGED <<pc, local, record, control, history>>

(* The process is gone, its daemon threads with it.                        *)
Over == main = "done" /\ UNCHANGED userVars

SnifferStep(t) ==
  \/ Lookup(t) \/ Create(t) \/ ReadMachine(t) \/ CompareWithNone(t) \/ Compare(t)
  \/ SetMachine(t) \/ SetTimestamp(t)

Next ==
  \/ /\ main # "done"
     /\ \/ \E t \in Threads : Capture(t) \/ OtherPacket(t) \/ SnifferStep(t)
        \/ Tick
  \/ KeyboardInterrupt \/ Join
  \/ Over

Spec == Init /\ [][Next]_userVars

(* The main thread is scheduled, and a join that times out returns.        *)
FairSpec == Spec /\ WF_userVars(Join)
--------------------------------------------------------------------------------
(* Every variable holds values of its type, and a thread that goes past    *)
(* the lookup has a record.                                                *)
TypeOK ==
  /\ clock \in 0 .. MaxTime
  /\ pc \in [Threads -> {"sniff", "lookup", "create", "machine", "compare",
                          "set_machine", "set_timestamp", "dead", "stopped"}]
  /\ current_ts \in [Threads -> 0 .. MaxTime]
  /\ seen_machine \in [Threads -> Threads \cup {None}]
  /\ entry \in [Threads -> Threads \cup {None}]
  /\ ip_history \in Threads \cup {None}
  /\ last_machine \in [Threads -> Threads \cup {None}]
  /\ last_timestamp \in [Threads -> 0 .. MaxTime \cup {None}]
  /\ stop_event \in BOOLEAN
  /\ main \in {"watch", "join", "done"}
  /\ joined \subseteq Threads
  /\ captured \subseteq [machine : Threads, ts : 0 .. MaxTime]
  /\ overlap \in BOOLEAN
  /\ \A t \in Threads : pc[t] \in {"machine", "compare", "set_machine", "set_timestamp"}
                          => entry[t] # None

(* However the threads interleave, an alert names another interface that   *)
(* has seen the infected machine, and its delay is the distance to a       *)
(* packet that was really captured, within the threshold.                  *)
AlertHasEvidence ==
  \A a \in alerts :
    /\ a.other # a.by
    /\ a.diff <= ALERT_THRESHOLD
    /\ \E p \in captured : p.machine = a.other
    /\ \E p \in captured : Distance(a.ts, p.ts) = a.diff

(* Ctrl-C ends the program even when no packet ever wakes a sniffer.       *)
InterruptEnds == stop_event ~> main = "done"

(* As long as no two threads were ever in the handler at once, an alert is *)
(* about a packet that was really captured on the interface it names, as   *)
(* near in time as it says.                                                *)
AlertIsReal ==
  ~ overlap =>
    \A a \in alerts : \E p \in captured :
      p.machine = a.other /\ Distance(a.ts, p.ts) = a.diff

(* As long as no two threads were ever in the handler at once, with no     *)
(* alert and nothing being handled there has been no movement within the   *)
(* threshold.                                                              *)
FirstMoveDetected ==
  (~ overlap /\ alerts = {} /\ \A t \in Threads : pc[t] = "sniff") =>
    \A p, q \in captured :
      p.machine # q.machine => Distance(p.ts, q.ts) > ALERT_THRESHOLD

(* Monitoring is announced active until Ctrl-C (test_user_space.py line    *)
(* 98): as long as no two threads were ever in the handler at once, none   *)
(* meets a half-written record (lines 57-58) and dies of the subtraction.  *)
SniffersSurviveAlone == ~ overlap => \A t \in Threads : pc[t] # "dead"
================================================================================
