---------------------------- MODULE LateralMonitor -----------------------------
(***************************************************************************)
(* The script of eBPF_Baptiste/al_interfaces_v2.py around the capture of   *)
(* LateralKernel: it attaches a program to each interface that exists, by  *)
(* XDP or else by TC, opens the rings, polls them, and on Ctrl-C takes the *)
(* programs off again.  The except clauses of both loops name no           *)
(* exception, so they answer a Ctrl-C inside the try as they answer a      *)
(* failure.                                                                *)
(***************************************************************************)
EXTENDS LateralKernel, SequencesExt

VARIABLES
  main,      \* "attach", "poll", "cleanup", then "done" or "crashed"
  at,        \* index of the interface the loop is at
  present,   \* interfaces that exist
  attached,  \* [Machines -> {"none", "xdp", "tc"}]
  trouble    \* history: a fallback was taken, or Ctrl-C came outside the polling

script == <<main, at, present, attached, trouble>>
monitorVars == <<lateralVars, script>>

(* The list of line 10, one interface for each label.                      *)
interfaces == SetToSeq(Machines)
iface == interfaces[at]
Ended == main \in {"done", "crashed"}

MonitorInit ==
  /\ Init
  /\ main = "attach"
  /\ at = 1
  /\ present \in SUBSET Machines
  /\ attached = [m \in Machines |-> "none"]
  /\ trouble = FALSE

--------------------------------------------------------------------------------
SetAttached(how) == attached' = [attached EXCEPT ![iface] = how]

(* An interface that does not exist is passed over; when XDP is refused    *)
(* the TC program takes its place or ends the script.                      *)
Attach ==
  /\ main = "attach" /\ at <= Len(interfaces)
  /\ at' = at + 1
  /\ \/ iface \notin present /\ UNCHANGED <<main, attached, trouble>>
     \/ iface \in present /\ SetAttached("xdp") /\ UNCHANGED <<main, trouble>>
     \/ iface \in present /\ SetAttached("tc") /\ trouble' = TRUE /\ UNCHANGED main
     \/ /\ iface \in present
        /\ main' = "crashed" /\ trouble' = TRUE
        /\ UNCHANGED attached
  /\ UNCHANGED <<lateralVars, present>>

OpenRings ==
  /\ main = "attach" /\ at > Len(interfaces)
  /\ main' = "poll"
  /\ UNCHANGED <<lateralVars, at, present, attached, trouble>>

(* Mutant: the loop of the cleanup misses the first interface.             *)
InterruptSkipping ==
  /\ main = "poll"
  /\ main' = "cleanup"
  /\ at' = 2
  /\ UNCHANGED <<lateralVars, present, attached, trouble>>

Interrupt ==
  /\ main = "poll"
  /\ main' = "cleanup"
  /\ at' = 1
  /\ UNCHANGED <<lateralVars, present, attached, trouble>>

(* Nothing catches Ctrl-C between two interfaces.                          *)
InterruptUncaught ==
  /\ main \in {"attach", "cleanup"}
  /\ main' = "crashed"
  /\ trouble' = TRUE
  /\ UNCHANGED <<lateralVars, at, present, attached>>

(* remove_xdp fails only without the interface, and detach_tc without a    *)
(* TC program: the second failure is not caught.                           *)
Detach ==
  /\ main = "cleanup" /\ at <= Len(interfaces)
  /\ \/ /\ iface \in present
        /\ at' = at + 1
        /\ SetAttached(IF attached[iface] = "xdp" THEN "none" ELSE attached[iface])
        /\ UNCHANGED main
     \/ /\ iface \notin present
        /\ main' = "crashed"
        /\ UNCHANGED <<at, attached>>
  /\ UNCHANGED <<lateralVars, present, trouble>>

(* Ctrl-C inside remove_xdp: detach_tc is tried instead.                   *)
DetachInterrupted ==
  /\ main = "cleanup" /\ at <= Len(interfaces)
  /\ trouble' = TRUE
  /\ \/ /\ attached[iface] = "tc"
        /\ SetAttached("none")
        /\ at' = at + 1
        /\ UNCHANGED main
     \/ /\ attached[iface] # "tc"
        /\ main' = "crashed"
        /\ UNCHANGED <<at, attached>>
  /\ UNCHANGED <<lateralVars, present>>

CleanedUp ==
  /\ main = "cleanup" /\ at > Len(interfaces)
  /\ main' = "done"
  /\ UNCHANGED <<lateralVars, at, present, attached, trouble>>

--------------------------------------------------------------------------------
(* Until the rings are opened perf_submit has nowhere to put a packet.     *)
EarlyPacket(m) ==
  /\ main = "attach"
  /\ Len(captured) < MaxPackets
  /\ captured' = Append(captured, [machine |-> m, ts |-> clock])
  /\ lost' = TRUE
  /\ UNCHANGED <<clock, events, ip_history, alerts, last, inOrder>>

Capture(c, m) ==
  /\ attached[m] # "none"
  /\ \/ EarlyPacket(m)
     \/ main \in {"poll", "cleanup"} /\ HandlePacket(c, m)
  /\ UNCHANGED script

PollRing(c) == main = "poll" /\ HandleEvent(c) /\ UNCHANGED script

Over == Ended /\ UNCHANGED monitorVars

MonitorNext ==
  \/ Attach \/ OpenRings
  \/ Interrupt \/ InterruptUncaught \/ Detach \/ DetachInterrupted \/ CleanedUp
  \/ \E c \in CPUs : PollRing(c) \/ \E m \in Machines : Capture(c, m)
  \/ ~ Ended /\ Tick /\ UNCHANGED script
  \/ Over

MonitorSpec == MonitorInit /\ [][MonitorNext]_monitorVars
--------------------------------------------------------------------------------
(* Every variable holds a value of its type, and only interfaces that      *)
(* exist have a program.                                                   *)
MonitorTypeOK ==
  /\ TypeOK
  /\ main \in {"attach", "poll", "cleanup", "done", "crashed"}
  /\ at \in 1 .. Len(interfaces) + 1
  /\ present \subseteq Machines
  /\ attached \in [Machines -> {"none", "xdp", "tc"}]
  /\ trouble \in BOOLEAN
  /\ \A m \in Machines \ present : attached[m] = "none"

(* A cleanup that is announced complete (line 150) leaves no XDP program,  *)
(* and without fallback or ill-timed Ctrl-C the script does complete it    *)
(* and leaves none of either kind when all interfaces exist: a fallback is *)
(* never undone, and a missing interface ends the cleanup.                 *)
CleanEnd ==
  /\ main = "done" => \A m \in Machines : attached[m] # "xdp"
  /\ Ended /\ ~ trouble /\ present = Machines =>
       main = "done" /\ \A m \in Machines : attached[m] = "none"
================================================================================
