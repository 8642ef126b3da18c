------------------------------ MODULE PpsMonitor -------------------------------
(***************************************************************************)
(* eBPF_Marine/pps.py beside the XDP program it loads (pps_vide.py is the  *)
(* same monitor over pps_vide.c, which counts frames and does nothing      *)
(* else: this module with no address in IPs).  The monitor attaches the    *)
(* program, clears its maps, then each second reads the per-CPU counter,   *)
(* zeroes it and writes a row; a signal may take it to cleanup between any *)
(* two steps.  Frames are counted on the CPUs all the while.               *)
(***************************************************************************)
EXTENDS XdpFlood, Functions

VARIABLES
  monitor,    \* where the monitor is
  loaded,     \* the global b is set
  attached,   \* the program is attached to veth-main
  csv,        \* "open" or "closed"
  scan,       \* CPUs whose slot the current system call has still to visit
  total,      \* the sum that will go into the next row
  reported,   \* history: the sum of the rows written
  discarded,  \* history: frames zeroed away by clear_maps
  lost,       \* history: frames counted between the read and the zeroing
  base,       \* history: received when clear_maps turned to the flood counts
  carried     \* history: a frame was in the program when it left them

files == <<loaded, attached, csv>>
history == <<lost, base, carried>>
reading == <<scan, total, reported, discarded, history>>
monitorVars == <<monitor, files, reading>>
allVars == <<vars, monitorVars>>

(* The order of the calls in clear_maps.                                   *)
ClearPhases == <<"clear_count", "clear_flood", "clear_timestamp",
                 "clear_blacklist", "clear_port", "clear_pps">>

Loop == {"sleep", "read", "del", "row"}

MonitorInit ==
  /\ Init
  /\ monitor = "load"
  /\ loaded = FALSE
  /\ attached = FALSE
  /\ csv = "open"
  /\ scan = {}
  /\ total = 0
  /\ reported = 0
  /\ discarded = 0
  /\ lost = 0
  /\ base = received
  /\ carried = FALSE

--------------------------------------------------------------------------------
(* Mutant: main does not declare b global, and cleanup never sees it.      *)
LoadLocally ==
  /\ monitor = "load"
  /\ monitor' = "attach"
  /\ UNCHANGED <<vars, files, reading>>

(* The program compiles: its maps exist, and b is set.                     *)
Load ==
  /\ monitor = "load"
  /\ loaded' = TRUE
  /\ monitor' = "attach"
  /\ UNCHANGED <<vars, attached, csv, reading>>

AttachXdp ==
  /\ monitor = "attach"
  /\ attached' = TRUE
  /\ monitor' = ClearPhases[1]
  /\ UNCHANGED <<vars, loaded, csv, reading>>

(* clear() of a hash map deletes keys one at a time until it finds none.   *)
ClearEntry ==
  /\ \/ /\ monitor = "clear_count"
        /\ \E ip \in IPs : /\ ip_count_map[ip] # 0
                           /\ ip_count_map' = [ip_count_map EXCEPT ![ip] = 0]
        /\ UNCHANGED <<ip_flood_count_map, ip_timestamp_map,
                       ip_blacklist_map, port_blacklist_map>>
     \/ /\ monitor = "clear_flood"
        /\ \E ip \in IPs :
             /\ ip_flood_count_map[ip] # 0
             /\ ip_flood_count_map' = [ip_flood_count_map EXCEPT ![ip] = 0]
        /\ UNCHANGED <<ip_count_map, ip_timestamp_map,
                       ip_blacklist_map, port_blacklist_map>>
     \/ /\ monitor = "clear_timestamp"
        /\ \E ip \in IPs :
             /\ ip_timestamp_map[ip] # 0
             /\ ip_timestamp_map' = [ip_timestamp_map EXCEPT ![ip] = 0]
        /\ UNCHANGED <<ip_count_map, ip_flood_count_map,
                       ip_blacklist_map, port_blacklist_map>>
     \/ /\ monitor = "clear_blacklist"
        /\ \E ip \in ip_blacklist_map :
             ip_blacklist_map' = ip_blacklist_map \ {ip}
        /\ UNCHANGED <<ip_count_map, ip_flood_count_map,
                       ip_timestamp_map, port_blacklist_map>>
     \/ /\ monitor = "clear_port"
        /\ \E p \in port_blacklist_map :
             port_blacklist_map' = port_blacklist_map \ {p}
        /\ UNCHANGED <<ip_count_map, ip_flood_count_map,
                       ip_timestamp_map, ip_blacklist_map>>
  /\ UNCHANGED <<pps, clock, pc, locals, received, passed, monitorVars>>

(* The map being cleared is empty: on to the next one.                     *)
ClearedMap ==
  \/ monitor = "clear_count" /\ \A ip \in IPs : ip_count_map[ip] = 0
  \/ monitor = "clear_flood" /\ \A ip \in IPs : ip_flood_count_map[ip] = 0
  \/ monitor = "clear_timestamp" /\ \A ip \in IPs : ip_timestamp_map[ip] = 0
  \/ monitor = "clear_blacklist" /\ ip_blacklist_map = {}
  \/ monitor = "clear_port" /\ port_blacklist_map = {}

(* Mutant: the flood counts are not cleared.                               *)
NextMapSkippingFlood ==
  /\ ClearedMap
  /\ \E i \in 1 .. 5 :
       /\ ClearPhases[i] = monitor
       /\ monitor' = ClearPhases[IF i = 1 THEN 3 ELSE i + 1]
  /\ scan' = IF monitor = "clear_port" THEN CPUs ELSE {}
  /\ base' = IF monitor = "clear_count" THEN received ELSE base
  /\ UNCHANGED <<vars, files, total, reported, discarded, lost, carried>>

NextMap ==
  /\ ClearedMap
  /\ \E i \in 1 .. 5 : /\ ClearPhases[i] = monitor
                       /\ monitor' = ClearPhases[i + 1]
  /\ scan' = IF monitor = "clear_port" THEN CPUs ELSE {}
  /\ base' = IF monitor = "clear_count" THEN received ELSE base
  /\ carried' = IF monitor = "clear_flood" THEN \E c \in CPUs : pc[c] # "idle"
                                           ELSE carried
  /\ UNCHANGED <<vars, files, total, reported, discarded, lost>>

(* Storing a zero in an entry of a per-CPU array visits the CPUs in turn.  *)
Zero(c) ==
  /\ c \in scan
  /\ scan' = scan \ {c}
  /\ pps' = [pps EXCEPT ![c] = 0]
  /\ UNCHANGED <<maps, clock, pc, locals, received, passed,
                 files, total, reported, history>>

ClearPps ==
  /\ monitor = "clear_pps"
  /\ \/ \E c \in CPUs : /\ Zero(c)
                        /\ discarded' = discarded + pps[c]
                        /\ UNCHANGED monitor
     \/ /\ scan = {}
        /\ monitor' = "sleep"
        /\ UNCHANGED <<vars, files, reading>>

Wake ==
  /\ monitor = "sleep"
  /\ monitor' = "read"
  /\ scan' = CPUs
  /\ total' = 0
  /\ UNCHANGED <<vars, files, reported, discarded, history>>

(* counter[key] copies the slots one by one; their sum is the next row.    *)
ReadCounter ==
  /\ monitor = "read"
  /\ \/ \E c \in scan : /\ scan' = scan \ {c}
                        /\ total' = total + pps[c]
                        /\ UNCHANGED monitor
     \/ /\ scan = {}
        /\ scan' = CPUs
        /\ monitor' = "del"
        /\ UNCHANGED total
  /\ UNCHANGED <<vars, files, reported, discarded, history>>

(* Mutant: the counter is read and never zeroed.                           *)
KeepCounter ==
  /\ monitor = "del"
  /\ monitor' = "row"
  /\ scan' = {}
  /\ UNCHANGED <<vars, files, total, reported, discarded, history>>

DelCounter ==
  /\ monitor = "del"
  /\ UNCHANGED discarded
  /\ \/ (\E c \in CPUs : Zero(c)) /\ UNCHANGED monitor
     \/ /\ scan = {}
        /\ monitor' = "row"
        /\ UNCHANGED <<vars, files, scan, total, reported, history>>

(* The sum is not used again.                                              *)
WriteRow ==
  /\ monitor = "row"
  /\ csv = "open"
  /\ reported' = reported + total
  /\ total' = 0
  /\ monitor' = "sleep"
  /\ UNCHANGED <<vars, files, scan, discarded, history>>

--------------------------------------------------------------------------------
(* SIGINT or SIGTERM: the handler takes over, also from itself.            *)
Interrupt ==
  /\ monitor # "exited"
  /\ monitor' = "cleanup"
  /\ UNCHANGED <<vars, files, reading>>

Detach ==
  /\ monitor = "cleanup"
  /\ attached' = (attached /\ ~ loaded)
  /\ monitor' = "close"
  /\ UNCHANGED <<vars, loaded, csv, reading>>

CloseAndExit ==
  /\ monitor = "close"
  /\ csv' = "closed"
  /\ monitor' = "exited"
  /\ UNCHANGED <<vars, loaded, attached, reading>>

Over ==
  /\ monitor = "exited"
  /\ \A c \in CPUs : pc[c] = "idle"
  /\ UNCHANGED allVars

MonitorStep ==
  \/ Load \/ AttachXdp \/ ClearEntry \/ NextMap \/ ClearPps
  \/ Wake \/ ReadCounter \/ DelCounter \/ WriteRow
  \/ Detach \/ CloseAndExit

(* CPUs whose slot is in total and still to be zeroed.                     *)
Stale ==
  CASE monitor = "read" -> CPUs \ scan
    [] monitor = "del" -> scan
    [] OTHER -> {}

(* What pps_vide.c does with every frame: count it and let it pass.        *)
CountOnly(c) == ReceiveOther(c)

(* Frames reach the program only while it is attached.                     *)
Arrive(c) ==
  /\ attached
  /\ Receive(c) \/ CountOnly(c)
  /\ lost' = IF c \in Stale THEN lost + 1 ELSE lost
  /\ UNCHANGED <<monitor, files, scan, total, reported, discarded, base, carried>>

(* A program that has been entered runs to its end.                        *)
XdpStep ==
  \/ \E c \in CPUs : Arrive(c)
  \/ /\ \/ \E c \in CPUs : Run(c)
        \/ Tick
        \/ \E p \in Ports : loaded /\ BlockPort(p)
     /\ UNCHANGED monitorVars

MonitorNext == MonitorStep \/ Interrupt \/ XdpStep \/ Over

MonitorSpec == MonitorInit /\ [][MonitorNext]_allVars
--------------------------------------------------------------------------------
(* Every variable of the monitor holds a value of its type.                *)
MonitorTypeOK ==
  /\ TypeOK
  /\ monitor \in {ClearPhases[i] : i \in 1 .. 6} \cup Loop
                   \cup {"load", "attach", "cleanup", "close", "exited"}
  /\ loaded \in BOOLEAN /\ attached \in BOOLEAN
  /\ csv \in {"open", "closed"}
  /\ scan \subseteq CPUs
  /\ total \in Nat /\ reported \in Nat /\ discarded \in Nat /\ lost \in Nat
  /\ carried \in BOOLEAN
  /\ base \in [IPs \cup {NotIP} -> Nat]

(* The counter is announced as the packets handled each second (pps.py     *)
(* line 59): the rows, the reading in progress and the slots not read yet  *)
(* hold every frame, less those clear_maps threw away and those counted    *)
(* between the read of a slot and its zeroing.  Nothing else is lost and   *)
(* no frame is in two rows.                                                *)
FramesAccounted ==
  monitor \in Loop =>
    reported + discarded + lost + total + SumFunctionOnSet(pps, CPUs \ Stale)
      = SumFunction(received)

(* When the process is gone the program is off the interface and the log   *)
(* is closed, wherever the signal found the monitor.                       *)
CleanExit == monitor = "exited" => ~ attached /\ csv = "closed"

(* clear_maps reports the maps cleaned (pps.py line 38): unless a frame    *)
(* was in the program when the flood counts had been cleared, a ban found  *)
(* while measuring is due to packets that arrived after the clearing of    *)
(* those counts began.                                                     *)
BanEarnedSinceClear ==
  monitor \in Loop /\ ~ carried =>
    \A ip \in ip_blacklist_map : received[ip] - base[ip] > MAX_PACKETS
================================================================================
