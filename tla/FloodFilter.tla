------------------------------ MODULE FloodFilter ------------------------------
(***************************************************************************)
(* What the flood detector of eBPF_Marine/pps.c promises when packets are  *)
(* handled one at a time.  Every source address owns a fixed window that   *)
(* opens with its first packet; a packet stamped TIME_WINDOW or more after *)
(* the opening starts a new window; the packet that would be number        *)
(* MAX_PACKETS + 1 of a window bans the address for good.                  *)
(***************************************************************************)
EXTENDS Naturals

CONSTANTS
  IPs,          \* source addresses
  MAX_PACKETS,  \* packets an address may send in one window
  TIME_WINDOW,  \* length of a window
  MaxTime       \* bound on the clock

VARIABLES
  clock,    \* the time a packet is stamped with
  counted,  \* counted[ip]: packets of ip in its current window, 0 before the first
  since,    \* since[ip]: stamp of the packet that opened the window, 0 before
  banned    \* addresses whose packets are dropped from now on

filterVars == <<clock, counted, since, banned>>

FilterInit ==
  /\ clock = 1
  /\ counted = [ip \in IPs |-> 0]
  /\ since = [ip \in IPs |-> 0]
  /\ banned = {}

Expired(ip) == clock - since[ip] >= TIME_WINDOW

(* The first packet of an address, or the first one after its window.      *)
OpenWindow(ip) ==
  /\ ip \notin banned
  /\ counted[ip] = 0 \/ Expired(ip)
  /\ counted' = [counted EXCEPT ![ip] = 1]
  /\ since' = [since EXCEPT ![ip] = clock]
  /\ UNCHANGED <<clock, banned>>

(* One more packet within the window and within the allowance.             *)
Admit(ip) ==
  /\ ip \notin banned
  /\ counted[ip] \in 1 .. MAX_PACKETS - 1
  /\ ~ Expired(ip)
  /\ counted' = [counted EXCEPT ![ip] = @ + 1]
  /\ UNCHANGED <<clock, since, banned>>

(* The packet that exceeds the allowance bans its address.                 *)
Exceed(ip) ==
  /\ ip \notin banned
  /\ counted[ip] = MAX_PACKETS
  /\ ~ Expired(ip)
  /\ counted' = [counted EXCEPT ![ip] = @ + 1]
  /\ banned' = banned \cup {ip}
  /\ UNCHANGED <<clock, since>>

PassTime ==
  /\ clock < MaxTime
  /\ clock' = clock + 1
  /\ UNCHANGED <<counted, since, banned>>

FilterNext ==
  \/ \E ip \in IPs : OpenWindow(ip) \/ Admit(ip) \/ Exceed(ip)
  \/ PassTime

FilterSpec == FilterInit /\ [][FilterNext]_filterVars
================================================================================
