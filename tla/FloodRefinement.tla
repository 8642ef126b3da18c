---------------------------- MODULE FloodRefinement ----------------------------
(***************************************************************************)
(* On a single CPU, with maps that have room for every address, the XDP    *)
(* program implements FloodFilter.  A packet takes effect when the program *)
(* reads the clock: from there on its outcome is settled, and the mapping  *)
(* shows the maps as they will be when the program returns.                *)
(***************************************************************************)
EXTENDS XdpFlood

(* The CPUs at work on a packet of ip, at one of the given labels.         *)
At(ip, labels) == {c \in CPUs : src_ip[c] = ip /\ pc[c] \in labels}

(* Where the packet of CPU c goes, as soon as it has its stamp.            *)
Outcome(c) ==
  IF pc[c] = "lookup" THEN AfterLookup(c, ip_timestamp_map[src_ip[c]]) ELSE pc[c]

Bound(ip, labels) ==
  {c \in At(ip, {"lookup", "ban", "reset", "stamp"}) : Outcome(c) \in labels}

countedBar ==
  [ip \in IPs |->
     IF At(ip, {"clock"}) # {} THEN ip_flood_count_map[ip] - 1
     ELSE IF Bound(ip, {"reset"}) # {} THEN 1
     ELSE ip_flood_count_map[ip]]

sinceBar ==
  [ip \in IPs |->
     IF Bound(ip, {"reset", "stamp"}) # {}
     THEN now[CHOOSE c \in Bound(ip, {"reset", "stamp"}) : TRUE]
     ELSE ip_timestamp_map[ip]]

bannedBar == ip_blacklist_map \cup {ip \in IPs : Bound(ip, {"ban"}) # {}}

Filter == INSTANCE FloodFilter
            WITH counted <- countedBar, since <- sinceBar, banned <- bannedBar

(* Every behaviour of pps.c on one CPU is a behaviour of the abstract      *)
(* filter: one window per address, a ban exactly at packet MAX_PACKETS + 1 *)
(* of a window, and a restart only when the window has expired.            *)
ImplementsFilter == Filter!FilterSpec
================================================================================
