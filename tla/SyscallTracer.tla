----------------------------- MODULE SyscallTracer -----------------------------
(***************************************************************************)
(* eBPF_Sarah/monitor_adv.py with the workload test_app2.c.  The probe on  *)
(* sys_enter stores a stamp under the id of the calling task, the probe on *)
(* sys_exit submits the time since to the perf ring and deletes the entry. *)
(* The script launches the program RUNS times for each mode and type and   *)
(* polls the ring until the program has ended, then once more.             *)
(* exit_group never returns, so its entry stays; a fork returns in the     *)
(* child too, which may then find an entry left under its id by a process  *)
(* that is gone.  A task is the only one to touch its key, so each probe   *)
(* is one step.                                                            *)
(***************************************************************************)
EXTENDS Naturals, Sequences, FiniteSets

CONSTANTS
  Tids,         \* task ids the kernel can give to the tests
  None,         \* no task
  MAX_ENTRIES,  \* entries of the map that other tasks leave
  RingSize,     \* events a perf ring holds
  RUNS,         \* runs of each test
  ITER          \* iterations of each test

ASSUME TracerAssumption ==
  /\ IsFiniteSet(Tids) /\ None \notin Tids
  /\ MAX_ENTRIES \in Nat /\ RingSize \in Nat
  /\ RUNS \in Nat \ {0} /\ ITER \in Nat \ {0}

VARIABLES
  script,  \* where the script is
  test,    \* index of the current test
  run,     \* run of it, from 1
  p,       \* the program's task, None when it is not running
  state,   \* each task: "free", "user", "call", "forked" or "zombie"
  parent,  \* who waits for it
  todo,    \* calls it has still to make, the one it is in first
  start,   \* keys of the map start
  stale,   \* history: keys whose entry was stored by a task that is gone
  ended,   \* history: tasks ended since the map was created
  ring     \* events submitted and not polled

loop == <<script, test, run, p>>
tasks == <<state, parent, todo>>
probes == <<start, stale, ended, ring>>
vars == <<loop, tasks, probes>>

Modes == <<"sequential", "concurrent">>
Types == <<"suspicious-mem", "fork-bomb", "file-ops">>
Tests == [i \in 1 .. 6 |-> <<Modes[((i - 1) \div 3) + 1], Types[((i - 1) % 3) + 1]>>]

Times(n, calls) ==
  [i \in 1 .. n * Len(calls) |-> calls[((i - 1) % Len(calls)) + 1]]

(* A test function of n iterations.                                        *)
Body(type, n) ==
  CASE type = "suspicious-mem" -> Times(n, <<"open", "lseek", "write", "close">>)
    [] type = "file-ops" -> Times(n, <<"open", "write", "close", "unlink">>)
    [] type = "fork-bomb" -> Times(n, <<"fork">>) \o <<"wait">>

Program ==
  LET mode == Tests[test][1]
      type == Tests[test][2]
  IN  (IF mode = "sequential" THEN Body(type, ITER)
                              ELSE Times(ITER, <<"fork">>) \o <<"wait">>)
        \o <<"exit_group">>

(* Mutant: the child does not call exit.                                   *)
ChildProgramUnended(t) ==
  IF t = p /\ Tests[test][1] = "concurrent"
  THEN Body(Tests[test][2], 1)
  ELSE <<>>

(* What the child of t does.                                               *)
ChildProgram(t) ==
  (IF t = p /\ Tests[test][1] = "concurrent" THEN Body(Tests[test][2], 1) ELSE <<>>)
    \o <<"exit_group">>

Init ==
  /\ script = "popen"
  /\ test = 1
  /\ run = 1
  /\ p = None
  /\ state = [t \in Tids |-> "free"]
  /\ parent = [t \in Tids |-> None]
  /\ todo = [t \in Tids |-> <<>>]
  /\ start = {}
  /\ stale = {}
  /\ ended = 0
  /\ ring = <<>>

--------------------------------------------------------------------------------
(* A new task starts by returning from the call that created it.           *)
Birth(t, by, program) ==
  /\ state[t] = "free"
  /\ parent' = [parent EXCEPT ![t] = by]
  /\ todo' = [todo EXCEPT ![t] = <<"fork">> \o program]

Free(t) == [state EXCEPT ![t] = "free"]

SysEnter(t) ==
  /\ state[t] = "user"
  /\ todo[t] # <<>>
  /\ state' = [state EXCEPT ![t] = "call"]
  /\ IF t \in start \/ Cardinality(start) < MAX_ENTRIES
     THEN start' = start \cup {t} /\ stale' = stale \ {t}
     ELSE UNCHANGED <<start, stale>>
  /\ UNCHANGED <<loop, parent, todo, ended, ring>>

Fork(t) ==
  /\ state[t] = "call" /\ Head(todo[t]) = "fork"
  /\ \/ \E c \in Tids :
          /\ Birth(c, t, ChildProgram(t))
          /\ state' = [state EXCEPT ![t] = "forked", ![c] = "forked"]
     \/ /\ \A c \in Tids : state[c] # "free"
        /\ state' = [state EXCEPT ![t] = "forked"]
        /\ UNCHANGED <<parent, todo>>
  /\ UNCHANGED <<loop, probes>>

(* Mutant: the entry is not deleted.                                       *)
SysExitProbeKeeping(t) ==
  /\ ring' = IF t \in start /\ Len(ring) < RingSize
             THEN Append(ring, Head(todo[t])) ELSE ring
  /\ UNCHANGED <<start, stale>>

SysExitProbe(t) ==
  /\ ring' = IF t \in start /\ Len(ring) < RingSize
             THEN Append(ring, Head(todo[t])) ELSE ring
  /\ start' = start \ {t}
  /\ stale' = stale \ {t}

Return(t, rest) ==
  /\ todo' = [todo EXCEPT ![t] = rest]
  /\ SysExitProbe(t)
  /\ UNCHANGED <<loop, ended>>

Resume(t) == state' = [state EXCEPT ![t] = "user"] /\ UNCHANGED parent

(* A file that does not open ends its iteration.                           *)
SysExit(t) ==
  /\ \/ state[t] = "forked"
     \/ state[t] = "call" /\ Head(todo[t]) \notin {"fork", "wait", "exit_group"}
  /\ Resume(t)
  /\ \/ Return(t, Tail(todo[t]))
     \/ Head(todo[t]) = "open" /\ Return(t, SubSeq(todo[t], 5, Len(todo[t])))

(* Mutants: wait is called once, or does not return without children.      *)
WaitOnce(t) ==
  /\ state[t] = "call" /\ Head(todo[t]) = "wait"
  /\ \/ \E c \in Tids :
          /\ parent[c] = t /\ state[c] = "zombie"
          /\ state' = [Free(c) EXCEPT ![t] = "user"]
          /\ parent' = [parent EXCEPT ![c] = None]
          /\ Return(t, Tail(todo[t]))
     \/ /\ \A c \in Tids : parent[c] # t
        /\ Resume(t)
        /\ Return(t, Tail(todo[t]))

WaitStuck(t) ==
  /\ state[t] = "call" /\ Head(todo[t]) = "wait"
  /\ \E c \in Tids :
       /\ parent[c] = t /\ state[c] = "zombie"
       /\ state' = [Free(c) EXCEPT ![t] = "user"]
       /\ parent' = [parent EXCEPT ![c] = None]
       /\ Return(t, todo[t])

(* wait is called again until it finds no child.                           *)
Wait(t) ==
  /\ state[t] = "call" /\ Head(todo[t]) = "wait"
  /\ \/ \E c \in Tids :
          /\ parent[c] = t /\ state[c] = "zombie"
          /\ state' = [Free(c) EXCEPT ![t] = "user"]
          /\ parent' = [parent EXCEPT ![c] = None]
          /\ Return(t, todo[t])
     \/ /\ \A c \in Tids : parent[c] # t
        /\ Resume(t)
        /\ Return(t, Tail(todo[t]))

ExitGroup(t) ==
  /\ state[t] = "call" /\ Head(todo[t]) = "exit_group"
  /\ state' = [state EXCEPT ![t] = "zombie"]
  /\ todo' = [todo EXCEPT ![t] = <<>>]
  /\ stale' = stale \cup ({t} \cap start)
  /\ ended' = ended + 1
  /\ UNCHANGED <<loop, parent, start, ring>>

TaskStep(t) == SysEnter(t) \/ Fork(t) \/ SysExit(t) \/ Wait(t) \/ ExitGroup(t)

--------------------------------------------------------------------------------
Popen ==
  /\ script = "popen"
  /\ \E t \in Tids :
       /\ Birth(t, None, Program)
       /\ state' = [state EXCEPT ![t] = "forked"]
       /\ p' = t
  /\ script' = "poll"
  /\ UNCHANGED <<test, run, probes>>

(* p.poll() is None: take what the ring holds.                             *)
Poll ==
  /\ script = "poll"
  /\ state[p] # "zombie"
  /\ ring' = <<>>
  /\ UNCHANGED <<loop, tasks, start, stale, ended>>

(* p.poll() reaps the program.                                             *)
Reap ==
  /\ script = "poll"
  /\ state[p] = "zombie"
  /\ state' = Free(p)
  /\ p' = None
  /\ script' = "flush"
  /\ UNCHANGED <<test, run, parent, todo, probes>>

(* Mutant: what is left in the ring is not waited for.                     *)
NoFlush ==
  /\ script = "flush"
  /\ script' = "next"
  /\ UNCHANGED <<test, run, p, tasks, probes>>

Flush ==
  /\ script = "flush"
  /\ ring' = <<>>
  /\ script' = "next"
  /\ UNCHANGED <<test, run, p, tasks, start, stale, ended>>

NextRun ==
  /\ script = "next"
  /\ run < RUNS
  /\ run' = run + 1
  /\ script' = "popen"
  /\ UNCHANGED <<test, p, tasks, probes>>

(* Another BPF object, with maps of its own.                               *)
NextTest ==
  /\ script = "next"
  /\ run = RUNS
  /\ IF test < Len(Tests)
     THEN test' = test + 1 /\ run' = 1 /\ script' = "popen"
     ELSE script' = "done" /\ UNCHANGED <<test, run>>
  /\ start' = {}
  /\ stale' = {}
  /\ ended' = 0
  /\ ring' = <<>>
  /\ UNCHANGED <<p, tasks>>

Done == script = "done" /\ UNCHANGED vars

ScriptStep == Popen \/ Poll \/ Reap \/ Flush \/ NextRun \/ NextTest

Next == ScriptStep \/ (\E t \in Tids : TaskStep(t)) \/ Done

Spec == Init /\ [][Next]_vars

(* The kernel runs every task that can run, and the script polls again.    *)
FairSpec ==
  /\ Spec
  /\ \A t \in Tids : WF_vars(TaskStep(t))
  /\ WF_vars(Reap)
--------------------------------------------------------------------------------
Calls == {"open", "lseek", "write", "close", "unlink", "fork", "wait", "exit_group"}
Alive == {t \in Tids : state[t] \in {"user", "call", "forked"}}

(* Every variable holds a value of its type; the map and the ring stay     *)
(* within their capacity and a task in a call knows which.                 *)
TypeOK ==
  /\ script \in {"popen", "poll", "flush", "next", "done"}
  /\ test \in 1 .. Len(Tests) /\ run \in 1 .. RUNS
  /\ p \in Tids \cup {None}
  /\ state \in [Tids -> {"free", "user", "call", "forked", "zombie"}]
  /\ parent \in [Tids -> Tids \cup {None}]
  /\ todo \in [Tids -> Seq(Calls)]
  /\ start \subseteq Tids /\ Cardinality(start) <= MAX_ENTRIES
  /\ stale \subseteq start
  /\ ended \in Nat
  /\ ring \in Seq(Calls) /\ Len(ring) <= RingSize
  /\ \A t \in Tids : state[t] \in {"call", "forked"} => todo[t] # <<>>

(* The entries of the map are those of the calls in progress, and those    *)
(* that processes left when they ended; a process whose id had such an     *)
(* entry is rid of it as soon as it has returned from the call that        *)
(* created it, so that a wrong latency is reported for that call only.     *)
EntryOwners ==
  /\ start \ stale \subseteq {t \in Tids : state[t] \in {"call", "forked"}}
  /\ \A t \in stale :
       state[t] \notin {"free", "zombie"} => state[t] = "forked" /\ Head(todo[t]) = "fork"

(* A call is refused an entry, and then goes unmeasured, only when the     *)
(* calls in progress and the processes ended since the map was created     *)
(* fill it: completed calls never do.                                      *)
RefusedOnlyWhenFull ==
  [][\A t \in Tids :
       state[t] = "user" /\ state'[t] = "call" /\ t \notin start' =>
         ended + Cardinality({u \in Alive : state[u] # "user"}) >= MAX_ENTRIES]_vars

(* A run begins when no process of the runs before it is left and all      *)
(* their events have been taken: what is measured is this run's.           *)
RunStartsClean ==
  script = "popen" => ring = <<>> /\ \A t \in Tids : state[t] = "free"

(* Every run ends: all children are waited for, and wait finds none left.  *)
RunEnds == script = "poll" ~> script = "flush"
================================================================================
