----------------------------- MODULE UserDetector ------------------------------
(***************************************************************************)
(* eBPF_Marine/usrspace_prog/ddos_user_space.py.  A sniffer thread runs    *)
(* the flood filter on each packet and counts packets, drops and           *)
(* latencies; a monitor thread samples and zeroes these counters; both     *)
(* take the same lock.  The main thread, a graphe_*.py script, takes the   *)
(* samples from the queue.  Only the sniffer touches the ip_* tables, so a *)
(* whole decision is one step; a counter is read in the step that takes    *)
(* the lock and written in the step that gives it back.                    *)
(***************************************************************************)
EXTENDS Naturals, Sequences, FiniteSets

CONSTANTS
  IPs,             \* source addresses other than the victim's
  NoIP,            \* no packet is being handled
  Ports,           \* destination ports, one of which may stand for none
  port_blacklist,  \* ports the program is configured to block
  MAX_PACKETS,     \* packets of an address tolerated in a window
  TIME_WINDOW,     \* length of a window
  MaxPackets,      \* bound: packets handled
  MaxSamples,      \* bound: samples waiting or taken
  MaxTime          \* bound: the last value of the clock

ASSUME DetectorAssumption ==
  /\ IsFiniteSet(IPs) /\ NoIP \notin IPs
  /\ Ports # {} /\ port_blacklist \subseteq Ports
  /\ MAX_PACKETS \in Nat \ {0} /\ TIME_WINDOW \in Nat \ {0}
  /\ MaxPackets \in Nat /\ MaxSamples \in Nat /\ MaxTime \in Nat

VARIABLES
  clock,                                    \* time.time(), from 1
  ip_count, ip_flood_count, ip_last_seen,   \* [IPs -> Nat], 0: no such key
  ip_blacklist,
  lock,                                     \* "free", "sniffer" or "monitor"
  packet_counter, drop_counter, latencies,  \* latencies: how many are listed
  sniffer, src_ip, now, loaded,             \* the sniffer's place and locals
  monitor, sample,                          \* the monitor's place and last sample
  stats_queue,                              \* samples put and not yet taken
  handled, dropped,                         \* history: packets and drops
  sampled                                   \* history: the sums of all samples

tables == <<ip_count, ip_flood_count, ip_last_seen, ip_blacklist>>
counters == <<packet_counter, drop_counter, latencies>>
sampling == <<monitor, sample, stats_queue, sampled>>
detectorVars == <<clock, tables, lock, counters, sniffer, src_ip, now, loaded,
                  sampling, handled, dropped>>

Nothing == [total |-> 0, drops |-> 0, measured |-> 0]

Init ==
  /\ clock = 1
  /\ ip_count = [ip \in IPs |-> 0]
  /\ ip_flood_count = [ip \in IPs |-> 0]
  /\ ip_last_seen = [ip \in IPs |-> 0]
  /\ ip_blacklist = {}
  /\ lock = "free"
  /\ packet_counter = 0 /\ drop_counter = 0 /\ latencies = 0
  /\ sniffer = "sniff" /\ src_ip = NoIP /\ now = 0 /\ loaded = 0
  /\ monitor = "sleep" /\ sample = Nothing
  /\ stats_queue = <<>>
  /\ handled = 0 /\ dropped = 0
  /\ sampled = Nothing

--------------------------------------------------------------------------------
(* packet_handler is entered for an IP packet that the victim did not send.*)
Receive(ip) ==
  /\ sniffer = "sniff"
  /\ handled < MaxPackets
  /\ src_ip' = ip
  /\ now' = clock
  /\ sniffer' = "count"
  /\ UNCHANGED <<clock, tables, lock, counters, loaded, sampling,
                 handled, dropped>>

(* packet_counter += 1 under the lock.                                     *)
CountEnter ==
  /\ sniffer = "count" /\ lock = "free"
  /\ lock' = "sniffer"
  /\ loaded' = packet_counter
  /\ sniffer' = "counting"
  /\ UNCHANGED <<clock, tables, counters, src_ip, now, sampling,
                 handled, dropped>>

CountLeave ==
  /\ sniffer = "counting"
  /\ packet_counter' = loaded + 1
  /\ handled' = handled + 1
  /\ lock' = "free"
  /\ sniffer' = "decide"
  /\ UNCHANGED <<clock, tables, drop_counter, latencies, src_ip, now, loaded,
                 sampling, dropped>>

(* Mutant: a new window keeps its stamp.                                   *)
DecisionOldStamp(ip, t) ==
  LET count == ip_flood_count[ip] + 1
      since == ip_last_seen[ip] IN
  IF since = 0 THEN [count |-> count, since |-> t, ban |-> FALSE]
  ELSE IF t - since >= TIME_WINDOW THEN [count |-> 1, since |-> since, ban |-> FALSE]
  ELSE [count |-> count, since |-> since, ban |-> count > MAX_PACKETS]

(* What a packet of ip stamped t leads to: the new count and stamp of ip,  *)
(* and whether ip is banned.                                               *)
Decision(ip, t) ==
  LET count == ip_flood_count[ip] + 1
      since == ip_last_seen[ip] IN
  IF since = 0 THEN [count |-> count, since |-> t, ban |-> FALSE]
  ELSE IF t - since >= TIME_WINDOW THEN [count |-> 1, since |-> t, ban |-> FALSE]
  ELSE [count |-> count, since |-> since, ban |-> count > MAX_PACKETS]

Decide ==
  /\ sniffer = "decide"
  /\ \/ /\ src_ip \in ip_blacklist
        /\ sniffer' = "drop"
        /\ UNCHANGED tables
     \/ /\ src_ip \notin ip_blacklist
        /\ LET d == Decision(src_ip, now) IN
             /\ ip_count' = [ip_count EXCEPT ![src_ip] = @ + 1]
             /\ ip_flood_count' = [ip_flood_count EXCEPT ![src_ip] = d.count]
             /\ ip_last_seen' = [ip_last_seen EXCEPT ![src_ip] = d.since]
             /\ ip_blacklist' = ip_blacklist \cup {ip \in {src_ip} : d.ban}
             /\ \E dport \in Ports :
                  sniffer' = IF d.ban \/ dport \in port_blacklist
                             THEN "drop" ELSE "pass"
  /\ UNCHANGED <<clock, lock, counters, src_ip, now, loaded, sampling,
                 handled, dropped>>

(* drop_counter += 1 and the latency under the lock, or the latency alone. *)
VerdictEnter ==
  /\ sniffer \in {"drop", "pass"} /\ lock = "free"
  /\ lock' = "sniffer"
  /\ loaded' = drop_counter
  /\ sniffer' = IF sniffer = "drop" THEN "dropping" ELSE "passing"
  /\ UNCHANGED <<clock, tables, counters, src_ip, now, sampling,
                 handled, dropped>>

DropLeave ==
  /\ sniffer = "dropping"
  /\ drop_counter' = loaded + 1
  /\ dropped' = dropped + 1

PassLeave ==
  /\ sniffer = "passing"
  /\ UNCHANGED <<drop_counter, dropped>>

(* Mutant: the handler returns with the lock.                              *)
LeaveLocked ==
  /\ DropLeave \/ PassLeave
  /\ latencies' = latencies + 1
  /\ sniffer' = "sniff" /\ src_ip' = NoIP /\ now' = 0 /\ loaded' = 0
  /\ UNCHANGED <<clock, tables, lock, packet_counter, sampling, handled>>

VerdictLeave ==
  /\ DropLeave \/ PassLeave
  /\ latencies' = latencies + 1
  /\ lock' = "free"
  /\ sniffer' = "sniff" /\ src_ip' = NoIP /\ now' = 0 /\ loaded' = 0
  /\ UNCHANGED <<clock, tables, packet_counter, sampling, handled>>

--------------------------------------------------------------------------------
(* if total else 0: a sample without packets reports no drop.              *)
DropRate(s) == IF s.total = 0 THEN 0 ELSE (100 * s.drops) \div s.total

(* Mutant: the sample is taken before the lock is asked for.               *)
SampleEnterUnlocked ==
  /\ monitor = "sleep"
  /\ Len(stats_queue) < MaxSamples
  /\ sample' = [total |-> packet_counter, drops |-> drop_counter,
                measured |-> latencies]
  /\ monitor' = "sampling"
  /\ UNCHANGED <<clock, tables, lock, counters, sniffer, src_ip, now, loaded,
                 stats_queue, handled, dropped, sampled>>

(* One second later the monitor thread reads every counter.                *)
SampleEnter ==
  /\ monitor = "sleep" /\ lock = "free"
  /\ Len(stats_queue) < MaxSamples
  /\ lock' = "monitor"
  /\ sample' = [total |-> packet_counter, drops |-> drop_counter,
                measured |-> latencies]
  /\ monitor' = "sampling"
  /\ UNCHANGED <<clock, tables, counters, sniffer, src_ip, now, loaded,
                 stats_queue, handled, dropped, sampled>>

Publish ==
  /\ monitor = "sampling"
  /\ stats_queue' = Append(stats_queue, [total |-> sample.total,
                                         drop_rate |-> DropRate(sample)])
  /\ sampled' = [total |-> sampled.total + sample.total,
                 drops |-> sampled.drops + sample.drops,
                 measured |-> sampled.measured + sample.measured]
  /\ lock' = "free"
  /\ monitor' = "sleep"
  /\ UNCHANGED <<clock, tables, sniffer, src_ip, now, loaded, sample,
                 handled, dropped>>

(* Mutant: the drops are not zeroed with the packets.                      *)
SampleLeaveDrops ==
  /\ Publish
  /\ packet_counter' = 0 /\ latencies' = 0
  /\ UNCHANGED drop_counter

(* It puts the sample in the queue and zeroes the counters.                *)
SampleLeave ==
  /\ Publish
  /\ packet_counter' = 0 /\ drop_counter' = 0 /\ latencies' = 0

(* stats_queue.get() of the main thread.                                   *)
Get ==
  /\ stats_queue # <<>>
  /\ stats_queue' = Tail(stats_queue)
  /\ UNCHANGED <<clock, tables, lock, counters, sniffer, src_ip, now, loaded,
                 monitor, sample, handled, dropped, sampled>>

Tick ==
  /\ clock < MaxTime
  /\ clock' = clock + 1
  /\ UNCHANGED <<tables, lock, counters, sniffer, src_ip, now, loaded, sampling,
                 handled, dropped>>

HandlerStep == CountEnter \/ CountLeave \/ Decide \/ VerdictEnter \/ VerdictLeave

Next ==
  \/ \E ip \in IPs : Receive(ip)
  \/ HandlerStep
  \/ SampleEnter \/ SampleLeave \/ Get
  \/ Tick

Spec == Init /\ [][Next]_detectorVars

(* Both threads are scheduled.  The monitor sleeps for a second between    *)
(* two samples, so the sniffer gets a lock that it finds free over and     *)
(* over.                                                                   *)
FairSpec ==
  /\ Spec
  /\ WF_detectorVars(CountLeave \/ Decide \/ VerdictLeave)
  /\ SF_detectorVars(CountEnter) /\ SF_detectorVars(VerdictEnter)
  /\ WF_detectorVars(SampleLeave)
--------------------------------------------------------------------------------
Samples == [total : Nat, drops : Nat, measured : Nat]

(* Every variable holds values of its type, and the lock is held by the    *)
(* thread that is inside a critical section, if there is one.              *)
TypeOK ==
  /\ clock \in Nat
  /\ ip_count \in [IPs -> Nat]
  /\ ip_flood_count \in [IPs -> Nat]
  /\ ip_last_seen \in [IPs -> Nat]
  /\ ip_blacklist \subseteq IPs
  /\ packet_counter \in Nat /\ drop_counter \in Nat /\ latencies \in Nat
  /\ sniffer \in {"sniff", "count", "counting", "decide", "drop", "pass",
                  "dropping", "passing"}
  /\ src_ip \in IPs \cup {NoIP}
  /\ sniffer # "sniff" => src_ip \in IPs
  /\ now \in Nat /\ loaded \in Nat
  /\ monitor \in {"sleep", "sampling"}
  /\ sample \in Samples /\ sampled \in Samples
  /\ stats_queue \in Seq([total : Nat, drop_rate : Nat])
  /\ handled \in Nat /\ dropped \in Nat
  /\ lock = IF sniffer \in {"counting", "dropping", "passing"} THEN "sniffer"
            ELSE IF monitor = "sampling" THEN "monitor" ELSE "free"
  /\ monitor = "sampling" => sniffer \notin {"counting", "dropping", "passing"}

(* Packets counted and not yet decided.                                    *)
Undecided ==
  IF sniffer \in {"decide", "drop", "pass", "dropping", "passing"} THEN 1 ELSE 0

(* No packet, drop or latency is lost or reported twice, wherever a sample *)
(* falls: the samples and the counters together account for all of them.   *)
NothingLost ==
  /\ sampled.total + packet_counter = handled
  /\ sampled.drops + drop_counter = dropped
  /\ sampled.measured + latencies + Undecided = handled

(* A packet is counted in one critical section and its drop in another: a  *)
(* sample may fall between them, but only one packet at a time is in that  *)
(* gap, so no sample has two drops more than packets.                      *)
DropsExceedByOne == sample.drops <= sample.total + 1

(* A packet always gets its verdict, and the handler returns.              *)
HandlerReturns == (sniffer = "count") ~> (sniffer = "sniff")

--------------------------------------------------------------------------------
(* A packet takes effect on the abstract filter when it is stamped.        *)
Pending(ip) ==
  /\ sniffer \in {"count", "counting", "decide"}
  /\ src_ip = ip
  /\ ip \notin ip_blacklist

countedBar ==
  [ip \in IPs |-> IF Pending(ip) THEN Decision(ip, now).count ELSE ip_flood_count[ip]]
sinceBar ==
  [ip \in IPs |-> IF Pending(ip) THEN Decision(ip, now).since ELSE ip_last_seen[ip]]
bannedBar ==
  ip_blacklist \cup {ip \in IPs : Pending(ip) /\ Decision(ip, now).ban}

Filter == INSTANCE FloodFilter
            WITH counted <- countedBar, since <- sinceBar, banned <- bannedBar

(* The user-space detector implements the same abstract filter as pps.c    *)
(* does on one CPU.                                                        *)
ImplementsFilter == Filter!FilterSpec
================================================================================
