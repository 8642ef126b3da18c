------------------------------ MODULE CpuMonitor -------------------------------
(***************************************************************************)
(* eBPF_Marine/cpu_monitor.py beside the XDP program it loads              *)
(* (cpu_monitor_vide.py is the same script over cpu_monitor_vide.c).  The  *)
(* main thread attaches the program, opens the log, installs its signal    *)
(* handler, starts a daemon thread that writes a row each second, and      *)
(* polls.  The handler cleans up and raises SystemExit, which the finally  *)
(* clause of the polling loop answers by cleaning up once more.            *)
(***************************************************************************)
EXTENDS XdpCpu

CONSTANTS
  MaxSignals,  \* bound: signals sent to the process
  MaxRows      \* bound: rows the sampler begins

ASSUME MonitorAssumption == MaxSignals \in Nat /\ MaxRows \in Nat

VARIABLES
  main,      \* where the main thread is
  handled,   \* signals whose handler is cleanup
  guarded,   \* a SystemExit raised here meets the finally clause
  running,   \* the global flag both loops test
  attached,  \* the program is attached to veth-main
  csv,       \* "none", "open" or "closed"
  sampler,   \* where the daemon thread is
  signals,   \* signals sent
  rows       \* rows begun

process == <<main, handled, guarded, running, attached, csv>>
monitorVars == <<process, sampler, signals, rows>>
allVars == <<cpuVars, monitorVars>>

Signals == {"SIGINT", "SIGTERM"}
Gone == {"exited", "killed"}

MonitorInit ==
  /\ CpuInit
  /\ main = "load"
  /\ handled = {}
  /\ guarded = FALSE
  /\ running = TRUE
  /\ attached = FALSE
  /\ csv = "none"
  /\ sampler = "none"
  /\ signals = 0
  /\ rows = 0

Proceed(from, to) ==
  /\ main = from
  /\ main' = to
  /\ UNCHANGED <<cpuVars, signals, rows>>

--------------------------------------------------------------------------------
AttachXdp ==
  /\ Proceed("load", "open")
  /\ attached' = TRUE
  /\ UNCHANGED <<handled, guarded, running, csv, sampler>>

(* The flag is set and the log opened.                                     *)
OpenLog ==
  /\ Proceed("open", "handlers")
  /\ csv' = "open"
  /\ UNCHANGED <<handled, guarded, running, attached, sampler>>

InstallHandlers ==
  /\ \/ /\ handled = {}
        /\ Proceed("handlers", "handlers")
        /\ handled' = {"SIGINT"}
     \/ /\ handled = {"SIGINT"}
        /\ Proceed("handlers", "thread")
        /\ handled' = Signals
  /\ UNCHANGED <<guarded, running, attached, csv, sampler>>

StartThread ==
  /\ Proceed("thread", "poll")
  /\ sampler' = "test"
  /\ guarded' = TRUE
  /\ UNCHANGED <<handled, running, attached, csv>>

(* The loop ends when the flag is down, and finally calls cleanup.         *)
Poll ==
  /\ Proceed("poll", IF running THEN "poll" ELSE "stop")
  /\ guarded' = running
  /\ UNCHANGED <<handled, running, attached, csv, sampler>>

(* cleanup interrupts whatever the main thread does, itself included; a    *)
(* signal without handler ends the process.                                *)
Signal ==
  /\ main \notin Gone /\ signals < MaxSignals
  /\ \E s \in Signals : main' = IF s \in handled THEN "stop" ELSE "killed"
  /\ signals' = signals + 1
  /\ UNCHANGED <<cpuVars, handled, guarded, running, attached, csv, sampler, rows>>

(* Mutants: cleanup sets a local variable, or returns at once when the     *)
(* flag is down already.                                                   *)
StopLocally ==
  /\ Proceed("stop", "remove")
  /\ UNCHANGED <<handled, guarded, running, attached, csv, sampler>>

StopOnce ==
  /\ Proceed("stop", IF running THEN "remove" ELSE "raise")
  /\ running' = FALSE
  /\ UNCHANGED <<handled, guarded, attached, csv, sampler>>

Stop ==
  /\ Proceed("stop", "remove")
  /\ running' = FALSE
  /\ UNCHANGED <<handled, guarded, attached, csv, sampler>>

(* Removing a program that is not there is no error.                       *)
RemoveXdp ==
  /\ Proceed("remove", "close")
  /\ attached' = FALSE
  /\ UNCHANGED <<handled, guarded, running, csv, sampler>>

CloseLog ==
  /\ Proceed("close", "raise")
  /\ csv' = "closed"
  /\ UNCHANGED <<handled, guarded, running, attached, sampler>>

RaiseSystemExit ==
  /\ Proceed("raise", IF guarded THEN "stop" ELSE "exited")
  /\ guarded' = FALSE
  /\ UNCHANGED <<handled, running, attached, csv, sampler>>

CleanUp == Stop \/ RemoveXdp \/ CloseLog \/ RaiseSystemExit

--------------------------------------------------------------------------------
TestFlag ==
  /\ sampler = "test"
  /\ \/ running /\ rows < MaxRows /\ sampler' = "row" /\ rows' = rows + 1
     \/ ~ running /\ sampler' = "ended" /\ UNCHANGED rows

(* Writing to a closed file raises ValueError and ends the thread.         *)
WriteRow ==
  /\ sampler = "row"
  /\ sampler' = IF csv = "open" THEN "test" ELSE "failed"
  /\ UNCHANGED rows

(* A daemon thread is not waited for: it ends with the process.            *)
SamplerStep ==
  /\ main \notin Gone
  /\ TestFlag \/ WriteRow
  /\ UNCHANGED <<cpuVars, process, signals>>

MainStep ==
  \/ AttachXdp \/ OpenLog \/ InstallHandlers \/ StartThread \/ Poll \/ CleanUp

(* Frames reach the program only while it is attached.                     *)
XdpStep ==
  /\ \/ \E c \in CPUs : attached /\ (Parse(c) \/ CountAndPass(c))
     \/ \E c \in CPUs : RunCpu(c)
     \/ (Tick \/ \E p \in Ports : BlockPort(p)) /\ UNCHANGED <<last_seen, raced>>
  /\ UNCHANGED monitorVars

Over ==
  /\ main \in Gone
  /\ \A c \in CPUs : pc[c] = "idle"
  /\ UNCHANGED allVars

MonitorNext == MainStep \/ SamplerStep \/ Signal \/ XdpStep \/ Over

MonitorSpec == MonitorInit /\ [][MonitorNext]_allVars
--------------------------------------------------------------------------------
(* The threads are where their code is, and the sampler exists only once   *)
(* the log and both handlers do.                                           *)
MonitorTypeOK ==
  /\ CpuTypeOK
  /\ main \in {"load", "open", "handlers", "thread", "poll",
               "stop", "remove", "close", "raise"} \cup Gone
  /\ handled \subseteq Signals
  /\ guarded \in BOOLEAN /\ running \in BOOLEAN /\ attached \in BOOLEAN
  /\ csv \in {"none", "open", "closed"}
  /\ sampler \in {"none", "test", "row", "ended", "failed"}
  /\ signals \in 0 .. MaxSignals /\ rows \in 0 .. MaxRows
  /\ sampler # "none" => csv # "none" /\ handled = Signals

(* Whatever signals come, during a cleanup or the second one included, a   *)
(* process that ends by cleanup has taken the program off the interface    *)
(* and closed the log; it is killed without that only before its handlers  *)
(* are in place.                                                           *)
CleanExit ==
  /\ main = "exited" => ~ attached /\ csv = "closed"
  /\ main = "killed" => handled # Signals

(* Once cleanup has lowered the flag no row is begun: the sampler fails on *)
(* the closed log with at most the row it had in hand.                     *)
NoRowAfterStop ==
  [][rows' # rows => main \notin {"remove", "close", "raise"}]_allVars
================================================================================
