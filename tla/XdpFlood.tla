------------------------------- MODULE XdpFlood --------------------------------
(***************************************************************************)
(* The XDP program of eBPF_Marine/pps.c (its flood filter is repeated word *)
(* for word in latency.c), run by several CPUs at once over BPF hash maps  *)
(* that all of them share.  Each lookup-and-read and each update of a map  *)
(* is one step; nothing makes a lookup and the update that follows it      *)
(* atomic.  Stored counts start at 1 and bpf_ktime_get_ns never returns 0, *)
(* so 0 stands for an address that has no entry in a map.  The address the *)
(* program calls src_ip is the header's daddr: it sees what the victim     *)
(* sends, so the address a frame goes to is the one it is counted against. *)
(***************************************************************************)
EXTENDS Naturals, FiniteSets

CONSTANTS
  CPUs,         \* CPUs that run the program
  IPs,          \* addresses a frame can be counted against
  NotIP,        \* a frame that is not a complete IPv4 packet
  Ports,        \* destination ports an operator may block
  NoPort,       \* a packet whose port is not blocked, or that carries none
  MAX_PACKETS,  \* packets of an address tolerated in a window
  TIME_WINDOW,  \* length of a window, in clock ticks
  MAX_ENTRIES,  \* capacity of a BPF_HASH map
  WORD,         \* 2^64: the u64 difference of two stamps wraps around at WORD
  MaxPackets,   \* bound: packets received from one address
  MaxOther,     \* bound: frames received that are not IPv4
  MaxTime       \* bound: the last value of the clock

ASSUME FloodAssumption ==
  /\ IsFiniteSet(CPUs) /\ IsFiniteSet(IPs)
  /\ NotIP \notin IPs /\ NoPort \notin Ports
  /\ MAX_PACKETS \in Nat \ {0} /\ TIME_WINDOW \in Nat \ {0}
  /\ MAX_ENTRIES \in Nat /\ MaxPackets \in Nat
  /\ MaxOther \in Nat /\ MaxTime \in Nat
  /\ WORD \in Nat /\ WORD > MaxTime + TIME_WINDOW

VARIABLES
  ip_count_map, ip_flood_count_map, ip_timestamp_map,  \* [IPs -> Nat], 0: no entry
  ip_blacklist_map,    \* addresses whose entry is 1
  port_blacklist_map,  \* ports whose entry is 1
  pps,                 \* per-CPU counter of frames
  clock,               \* what bpf_ktime_get_ns returns
  pc,                  \* where each CPU is in the program
  src_ip, new_count, new_flood_count, now,  \* the program's locals, per CPU
  received,            \* history: frames received per address counted against
  passed               \* history: packets answered XDP_PASS per address

maps == <<ip_count_map, ip_flood_count_map, ip_timestamp_map,
          ip_blacklist_map, port_blacklist_map>>
locals == <<src_ip, new_count, new_flood_count, now>>
vars == <<maps, pps, clock, pc, locals, received, passed>>

Init ==
  /\ ip_count_map = [ip \in IPs |-> 0]
  /\ ip_flood_count_map = [ip \in IPs |-> 0]
  /\ ip_timestamp_map = [ip \in IPs |-> 0]
  /\ ip_blacklist_map = {}
  /\ port_blacklist_map = {}
  /\ pps = [c \in CPUs |-> 0]
  /\ clock = 1
  /\ pc = [c \in CPUs |-> "idle"]
  /\ src_ip = [c \in CPUs |-> NotIP]
  /\ new_count = [c \in CPUs |-> 0]
  /\ new_flood_count = [c \in CPUs |-> 0]
  /\ now = [c \in CPUs |-> 0]
  /\ received = [k \in IPs \cup {NotIP} |-> 0]
  /\ passed = [ip \in IPs |-> 0]

--------------------------------------------------------------------------------
(* map.update(&ip, &v): the error returned when a new key finds the map    *)
(* full is ignored by every caller.                                        *)
Update(map, ip, v) ==
  IF map[ip] # 0 \/ Cardinality({k \in IPs : map[k] # 0}) < MAX_ENTRIES
  THEN [map EXCEPT ![ip] = v]
  ELSE map

(* Subtraction of two u64.                                                 *)
Elapsed(later, earlier) ==
  IF later >= earlier THEN later - earlier ELSE WORD + later - earlier

Goto(c, label) == pc' = [pc EXCEPT ![c] = label]

(* The program returns and its locals are gone.                            *)
Return(c) ==
  /\ Goto(c, "idle")
  /\ src_ip' = [src_ip EXCEPT ![c] = NotIP]
  /\ new_count' = [new_count EXCEPT ![c] = 0]
  /\ new_flood_count' = [new_flood_count EXCEPT ![c] = 0]
  /\ now' = [now EXCEPT ![c] = 0]

ReturnDrop(c) == Return(c) /\ UNCHANGED passed

ReturnPass(c) ==
  /\ Return(c)
  /\ passed' = [passed EXCEPT ![src_ip[c]] = @ + 1]

--------------------------------------------------------------------------------
Limit(k) == IF k = NotIP THEN MaxOther ELSE MaxPackets

(* A frame arrives: the per-CPU counter is incremented whatever it is.     *)
CountFrame(c, k) ==
  /\ pc[c] = "idle"
  /\ received[k] < Limit(k)
  /\ received' = [received EXCEPT ![k] = @ + 1]
  /\ pps' = [pps EXCEPT ![c] = @ + 1]
  /\ UNCHANGED <<maps, clock, new_count, new_flood_count, now, passed>>

(* Truncated or non-IPv4: XDP_PASS at once.                                *)
ReceiveOther(c) ==
  /\ CountFrame(c, NotIP)
  /\ UNCHANGED <<pc, src_ip>>

(* Mutant: the bounds and ethertype tests are missing.                     *)
ReceiveUnchecked(c) ==
  \E k \in IPs \cup {NotIP} :
    /\ CountFrame(c, k)
    /\ Goto(c, "blacklist")
    /\ src_ip' = [src_ip EXCEPT ![c] = k]

Receive(c) ==
  \E ip \in IPs :
    /\ CountFrame(c, ip)
    /\ Goto(c, "blacklist")
    /\ src_ip' = [src_ip EXCEPT ![c] = ip]

(* Mutant: the verdict of the lookup is ignored.                           *)
BlacklistIgnored(c) ==
  /\ pc[c] = "blacklist"
  /\ Goto(c, "count")
  /\ UNCHANGED <<maps, pps, clock, locals, received, passed>>

CheckBlacklist(c) ==
  /\ pc[c] = "blacklist"
  /\ UNCHANGED <<maps, pps, clock, received>>
  /\ \/ /\ src_ip[c] \in ip_blacklist_map
        /\ ReturnDrop(c)
     \/ /\ src_ip[c] \notin ip_blacklist_map
        /\ Goto(c, "count")
        /\ UNCHANGED <<locals, passed>>

ReadCount(c) ==
  /\ pc[c] = "count"
  /\ new_count' = [new_count EXCEPT ![c] = ip_count_map[src_ip[c]] + 1]
  /\ Goto(c, "count_w")
  /\ UNCHANGED <<maps, pps, clock, src_ip, new_flood_count, now, received, passed>>

WriteCount(c) ==
  /\ pc[c] = "count_w"
  /\ ip_count_map' = Update(ip_count_map, src_ip[c], new_count[c])
  /\ Goto(c, "flood")
  /\ UNCHANGED <<ip_flood_count_map, ip_timestamp_map, ip_blacklist_map,
                 port_blacklist_map, pps, clock, locals, received, passed>>

ReadFlood(c) ==
  /\ pc[c] = "flood"
  /\ new_flood_count' =
       [new_flood_count EXCEPT ![c] = ip_flood_count_map[src_ip[c]] + 1]
  /\ Goto(c, "flood_w")
  /\ UNCHANGED <<maps, pps, clock, src_ip, new_count, now, received, passed>>

WriteFlood(c) ==
  /\ pc[c] = "flood_w"
  /\ ip_flood_count_map' =
       Update(ip_flood_count_map, src_ip[c], new_flood_count[c])
  /\ Goto(c, "clock")
  /\ UNCHANGED <<ip_count_map, ip_timestamp_map, ip_blacklist_map,
                 port_blacklist_map, pps, clock, locals, received, passed>>

ReadClock(c) ==
  /\ pc[c] = "clock"
  /\ now' = [now EXCEPT ![c] = clock]
  /\ Goto(c, "lookup")
  /\ UNCHANGED <<maps, pps, clock, src_ip, new_count, new_flood_count,
                 received, passed>>

(* Mutants: the threshold is off by one, either way.                       *)
BanOneEarly(c, last) ==
  IF last = 0 THEN "stamp"
  ELSE IF Elapsed(now[c], last) >= TIME_WINDOW THEN "reset"
  ELSE IF new_flood_count[c] >= MAX_PACKETS THEN "ban"
  ELSE "l4"

BanOneLate(c, last) ==
  IF last = 0 THEN "stamp"
  ELSE IF Elapsed(now[c], last) >= TIME_WINDOW THEN "reset"
  ELSE IF new_flood_count[c] > MAX_PACKETS + 1 THEN "ban"
  ELSE "l4"

(* Where the stamp found by the lookup sends the program: last is 0 when   *)
(* the address has none.                                                   *)
AfterLookup(c, last) ==
  IF last = 0 THEN "stamp"
  ELSE IF Elapsed(now[c], last) >= TIME_WINDOW THEN "reset"
  ELSE IF new_flood_count[c] > MAX_PACKETS THEN "ban"
  ELSE "l4"

LookupTimestamp(c) ==
  /\ pc[c] = "lookup"
  /\ Goto(c, AfterLookup(c, ip_timestamp_map[src_ip[c]]))
  /\ UNCHANGED <<maps, pps, clock, locals, received, passed>>

(* Mutant: the offending packet bans its address but is let through.       *)
BanAndPass(c) ==
  /\ pc[c] = "ban"
  /\ ip_blacklist_map' = ip_blacklist_map \cup {src_ip[c]}
  /\ ReturnPass(c)
  /\ UNCHANGED <<ip_count_map, ip_flood_count_map, ip_timestamp_map,
                 port_blacklist_map, pps, clock, received>>

Ban(c) ==
  /\ pc[c] = "ban"
  /\ ip_blacklist_map' =
       IF Cardinality(ip_blacklist_map) < MAX_ENTRIES
       THEN ip_blacklist_map \cup {src_ip[c]}
       ELSE ip_blacklist_map
  /\ ReturnDrop(c)
  /\ UNCHANGED <<ip_count_map, ip_flood_count_map, ip_timestamp_map,
                 port_blacklist_map, pps, clock, received>>

(* Mutant: the reset forgets to restart the count.                         *)
KeepFlood(c) ==
  /\ pc[c] = "reset"
  /\ Goto(c, "stamp")
  /\ UNCHANGED <<maps, pps, clock, locals, received, passed>>

ResetFlood(c) ==
  /\ pc[c] = "reset"
  /\ ip_flood_count_map' = Update(ip_flood_count_map, src_ip[c], 1)
  /\ new_flood_count' = [new_flood_count EXCEPT ![c] = 1]
  /\ Goto(c, "stamp")
  /\ UNCHANGED <<ip_count_map, ip_timestamp_map, ip_blacklist_map,
                 port_blacklist_map, pps, clock, src_ip, new_count, now,
                 received, passed>>

WriteTimestamp(c) ==
  /\ pc[c] = "stamp"
  /\ ip_timestamp_map' = Update(ip_timestamp_map, src_ip[c], now[c])
  /\ Goto(c, "l4")
  /\ UNCHANGED <<ip_count_map, ip_flood_count_map, ip_blacklist_map,
                 port_blacklist_map, pps, clock, locals, received, passed>>

(* The destination port matters only here, so it is chosen here.           *)
CheckPort(c) ==
  /\ pc[c] = "l4"
  /\ \E dport \in Ports \cup {NoPort} :
       \/ dport \in port_blacklist_map /\ ReturnDrop(c)
       \/ dport \notin port_blacklist_map /\ ReturnPass(c)
  /\ UNCHANGED <<maps, pps, clock, received>>

--------------------------------------------------------------------------------
Tick ==
  /\ clock < MaxTime
  /\ clock' = clock + 1
  /\ UNCHANGED <<maps, pps, pc, locals, received, passed>>

(* No code of the repository fills port_blacklist_map; an operator does,   *)
(* with a tool such as bpftool.                                            *)
BlockPort(p) ==
  /\ p \notin port_blacklist_map
  /\ port_blacklist_map' = port_blacklist_map \cup {p}
  /\ UNCHANGED <<ip_count_map, ip_flood_count_map, ip_timestamp_map,
                 ip_blacklist_map, pps, clock, pc, locals, received, passed>>

(* The traffic is over.                                                    *)
Quiet ==
  /\ \A c \in CPUs : pc[c] = "idle"
  /\ \A k \in IPs \cup {NotIP} : received[k] = Limit(k)
  /\ UNCHANGED vars

(* What the program does once it has been entered.                         *)
Run(c) ==
  \/ CheckBlacklist(c)
  \/ ReadCount(c) \/ WriteCount(c)
  \/ ReadFlood(c) \/ WriteFlood(c)
  \/ ReadClock(c) \/ LookupTimestamp(c)
  \/ Ban(c) \/ ResetFlood(c) \/ WriteTimestamp(c)
  \/ CheckPort(c)

Next ==
  \/ \E c \in CPUs : Receive(c) \/ ReceiveOther(c) \/ Run(c)
  \/ Tick
  \/ \E p \in Ports : BlockPort(p)
  \/ Quiet

Spec == Init /\ [][Next]_vars

(* The kernel runs an XDP program to completion once it has entered it.    *)
FairSpec == Spec /\ \A c \in CPUs : WF_vars(Run(c))
--------------------------------------------------------------------------------
Labels == {"idle", "blacklist", "count", "count_w", "flood", "flood_w", "clock",
           "lookup", "ban", "reset", "stamp", "l4"}

(* Every map, local and history variable holds values of its type, and a   *)
(* CPU that is inside the program works on an IPv4 source address.         *)
TypeOK ==
  /\ ip_count_map \in [IPs -> Nat]
  /\ ip_flood_count_map \in [IPs -> Nat]
  /\ ip_timestamp_map \in [IPs -> Nat]
  /\ ip_blacklist_map \subseteq IPs
  /\ port_blacklist_map \subseteq Ports
  /\ pps \in [CPUs -> Nat]
  /\ clock \in Nat
  /\ pc \in [CPUs -> Labels]
  /\ src_ip \in [CPUs -> IPs \cup {NotIP}]
  /\ new_count \in [CPUs -> Nat]
  /\ new_flood_count \in [CPUs -> Nat]
  /\ now \in [CPUs -> Nat]
  /\ received \in [IPs \cup {NotIP} -> Nat]
  /\ passed \in [IPs -> Nat]
  /\ \A c \in CPUs : pc[c] # "idle" => src_ip[c] \in IPs

(* An address is never blacklisted before it has sent more than            *)
(* MAX_PACKETS packets: whatever increments the CPUs lose to each other,   *)
(* no interleaving of lookups and updates counts a packet twice.           *)
NoPrematureBan ==
  \A ip \in ip_blacklist_map : received[ip] > MAX_PACKETS

(* The CPUs that work on a packet of ip whose blacklist lookup is behind   *)
(* them.                                                                   *)
PastBlacklist(ip) == {c \in CPUs : src_ip[c] = ip /\ pc[c] # "blacklist"}

(* Once an address is blacklisted no further packet of it gets past the    *)
(* lookup on any CPU: only packets already in flight can still pass, and   *)
(* no step takes an address off the list.                                  *)
NoEntry ==
  \A ip \in ip_blacklist_map :
    /\ ip \in ip_blacklist_map'
    /\ PastBlacklist(ip)' \subseteq PastBlacklist(ip)

NoEntryAfterBan == [][NoEntry]_vars

(* While the clock has not left the first window, no address gets more     *)
(* than MAX_PACKETS packets through, which is the purpose of the flood     *)
(* threshold of pps.c lines 18-20.                                         *)
AtMostMaxPass ==
  clock <= TIME_WINDOW => \A ip \in IPs : passed[ip] <= MAX_PACKETS

(* A count over the threshold does not last: the CPU that wrote it goes on *)
(* to blacklist the address, or finds the window over and restarts it.     *)
FloodResolved ==
  \A ip \in IPs :
    ip_flood_count_map[ip] > MAX_PACKETS
      ~> ip \in ip_blacklist_map \/ ip_flood_count_map[ip] <= MAX_PACKETS
================================================================================
