-------------------------------- MODULE XdpCpu ---------------------------------
(***************************************************************************)
(* The XDP program of eBPF_Marine/cpu_monitor.c, run by several CPUs over  *)
(* shared maps (cpu_monitor_vide.c only counts the frame).  It shares the  *)
(* maps and some steps with pps.c but orders them otherwise: clock and     *)
(* stamp are read first, the first packet of an address is a case of its   *)
(* own, and the stamp is dereferenced after the flood count was updated.   *)
(* The kernel recycles the element a pointer leads to once its key has     *)
(* been updated: the pointer then reads the old stamp or one stored since. *)
(* ip_count_map is declared and never used.  events.perf_submit hands the  *)
(* addresses to a callback that does nothing with them, and is left out.   *)
(***************************************************************************)
EXTENDS XdpFlood

VARIABLES
  last_seen,  \* values the pointer of each CPU may lead to; {}: NULL
  raced       \* history: two CPUs worked on packets of one address at once

cpuVars == <<vars, last_seen, raced>>

CpuInit ==
  /\ Init
  /\ last_seen = [c \in CPUs |-> {}]
  /\ raced = FALSE

Pointed(c, stamps) == last_seen' = [last_seen EXCEPT ![c] = stamps]

--------------------------------------------------------------------------------
(* pps_map.increment(cpu), and no more: all of cpu_monitor_vide.c.         *)
CountAndPass(c) ==
  /\ ReceiveOther(c)
  /\ UNCHANGED <<last_seen, raced>>

Parse(c) ==
  /\ Receive(c)
  /\ raced' = (raced \/ \E d \in CPUs \ {c} : src_ip'[d] = src_ip'[c])
  /\ UNCHANGED last_seen

ReadNow(c) ==
  /\ pc[c] = "count"
  /\ now' = [now EXCEPT ![c] = clock]
  /\ Goto(c, "lookup")
  /\ UNCHANGED <<maps, pps, clock, src_ip, new_count, new_flood_count,
                 received, passed, last_seen>>

LookupSeen(c) ==
  /\ pc[c] = "lookup"
  /\ Pointed(c, {ip_timestamp_map[src_ip[c]]} \ {0})
  /\ Goto(c, "flood")
  /\ UNCHANGED <<maps, pps, clock, locals, received, passed>>

(* A new address goes its own way; the pointer to its stamp is not used.   *)
LookupFlood(c) ==
  /\ pc[c] = "flood"
  /\ \/ /\ ip_flood_count_map[src_ip[c]] = 0
        /\ Pointed(c, {})
        /\ Goto(c, "first")
        /\ UNCHANGED new_flood_count
     \/ /\ ip_flood_count_map[src_ip[c]] # 0
        /\ new_flood_count' =
             [new_flood_count EXCEPT ![c] = ip_flood_count_map[src_ip[c]] + 1]
        /\ Goto(c, "flood_w")
        /\ UNCHANGED last_seen
  /\ UNCHANGED <<maps, pps, clock, src_ip, new_count, now, received, passed>>

(* Mutant: the first packet is counted and not stamped.                    *)
WriteFirstUnstamped(c) ==
  /\ pc[c] = "first"
  /\ ip_flood_count_map' = Update(ip_flood_count_map, src_ip[c], 1)
  /\ ReturnPass(c)
  /\ UNCHANGED <<ip_count_map, ip_timestamp_map, ip_blacklist_map,
                 port_blacklist_map, pps, clock, received, last_seen>>

WriteFirst(c) ==
  /\ pc[c] = "first"
  /\ ip_flood_count_map' = Update(ip_flood_count_map, src_ip[c], 1)
  /\ Goto(c, "first_stamp")
  /\ UNCHANGED <<ip_count_map, ip_timestamp_map, ip_blacklist_map,
                 port_blacklist_map, pps, clock, locals, received, passed,
                 last_seen>>

(* What a stamp stored by CPU c does to the pointers the others hold.      *)
Recycle(c) ==
  last_seen' =
    [d \in CPUs |->
       IF /\ d # c /\ last_seen[d] # {}
          /\ src_ip[d] = src_ip[c] \/ Cardinality(last_seen[d]) > 1
       THEN last_seen[d] \cup {now[c]}
       ELSE last_seen[d]]

(* XDP_PASS at once: the port of a first packet is not looked at.          *)
StampFirst(c) ==
  /\ pc[c] = "first_stamp"
  /\ ip_timestamp_map' = Update(ip_timestamp_map, src_ip[c], now[c])
  /\ ReturnPass(c)
  /\ Recycle(c)
  /\ UNCHANGED <<ip_count_map, ip_flood_count_map, ip_blacklist_map,
                 port_blacklist_map, pps, clock, received>>

(* Mutants: the threshold is off by one, either way.                       *)
WindowOneEarly(c, last) ==
  IF Elapsed(now[c], last) >= TIME_WINDOW THEN "reset"
  ELSE IF new_flood_count[c] >= MAX_PACKETS THEN "ban"
  ELSE "l4"

WindowOneLate(c, last) ==
  IF Elapsed(now[c], last) >= TIME_WINDOW THEN "reset"
  ELSE IF new_flood_count[c] > MAX_PACKETS + 1 THEN "ban"
  ELSE "l4"

(* Where a stamp sends the program.                                        *)
Window(c, last) ==
  IF Elapsed(now[c], last) >= TIME_WINDOW THEN "reset"
  ELSE IF new_flood_count[c] > MAX_PACKETS THEN "ban"
  ELSE "l4"

(* The pointer is dereferenced only now.                                   *)
TestWindow(c) ==
  /\ pc[c] = "clock"
  /\ \/ /\ last_seen[c] = {}
        /\ Goto(c, "reset")
     \/ \E last \in last_seen[c] : Goto(c, Window(c, last))
  /\ Pointed(c, {})
  /\ UNCHANGED <<maps, pps, clock, locals, received, passed>>

Restamp(c) == WriteTimestamp(c) /\ Recycle(c)

RunCpu(c) ==
  /\ \/ /\ CheckBlacklist(c) \/ WriteFlood(c) \/ Ban(c) \/ ResetFlood(c)
           \/ CheckPort(c)
        /\ UNCHANGED last_seen
     \/ ReadNow(c) \/ LookupSeen(c) \/ LookupFlood(c)
     \/ WriteFirst(c) \/ StampFirst(c) \/ TestWindow(c) \/ Restamp(c)
  /\ UNCHANGED raced

CpuNext ==
  \/ \E c \in CPUs : Parse(c) \/ CountAndPass(c) \/ RunCpu(c)
  \/ (Tick \/ \E p \in Ports : BlockPort(p)) /\ UNCHANGED <<last_seen, raced>>
  \/ Quiet /\ UNCHANGED <<last_seen, raced>>

CpuSpec == CpuInit /\ [][CpuNext]_cpuVars
--------------------------------------------------------------------------------
(* Maps, locals and histories hold values of their types, and a CPU that   *)
(* is inside the program works on an IPv4 address.                         *)
CpuTypeOK ==
  /\ ip_count_map = [ip \in IPs |-> 0]
  /\ ip_flood_count_map \in [IPs -> Nat] /\ ip_timestamp_map \in [IPs -> Nat]
  /\ ip_blacklist_map \subseteq IPs /\ port_blacklist_map \subseteq Ports
  /\ pps \in [CPUs -> Nat] /\ clock \in Nat
  /\ pc \in [CPUs -> Labels \cup {"first", "first_stamp"}]
  /\ src_ip \in [CPUs -> IPs \cup {NotIP}]
  /\ new_flood_count \in [CPUs -> Nat] /\ now \in [CPUs -> Nat]
  /\ received \in [IPs \cup {NotIP} -> Nat] /\ passed \in [IPs -> Nat]
  /\ last_seen \in [CPUs -> SUBSET (1 .. clock)] /\ raced \in BOOLEAN
  /\ \A c \in CPUs : pc[c] # "idle" => src_ip[c] \in IPs

(* While no two CPUs have met on an address, nobody gets more than         *)
(* MAX_PACKETS packets through in the first window (the threshold of       *)
(* cpu_monitor.c lines 28-29): the first packet, which returns early, is   *)
(* counted with the others.                                                *)
AtMostMaxPassUnraced == ~ raced => AtMostMaxPass

Room == Cardinality(IPs) <= MAX_ENTRIES

(* With room in the maps, an address is counted without being stamped only *)
(* while the CPU that counted it first is about to stamp it: CPUs that     *)
(* meet the count before the stamp do not leave it so.                     *)
CountedIsStamped ==
  Room =>
    \A ip \in IPs :
      ip_flood_count_map[ip] # 0 /\ ip_timestamp_map[ip] = 0 =>
        \E c \in CPUs : src_ip[c] = ip /\ pc[c] = "first_stamp"

(* A count over the threshold does not stay unanswered: its address is     *)
(* banned, or a CPU is on its way from an update to a ban or to a restart  *)
(* of the count, whatever stamp its stale pointer reads.                   *)
FloodHandled ==
  Room =>
    \A ip \in IPs :
      ip_flood_count_map[ip] > MAX_PACKETS =>
        \/ ip \in ip_blacklist_map
        \/ \E c \in CPUs : src_ip[c] = ip /\ pc[c] \in {"clock", "ban", "reset"}
================================================================================
