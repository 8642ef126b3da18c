------------------------- MODULE SyscallTracer_proofs --------------------------
(***************************************************************************)
(* Proofs about the exhaustive tracer.  Who owns an entry is nearly        *)
(* inductive.  That a run starts clean is not: it takes the shape of the   *)
(* programs, which fork first, then wait, then neither, and so keep a      *)
(* wait ahead of them as long as they have children, and the shape of the  *)
(* tree of processes, which is two deep.                                   *)
(***************************************************************************)
EXTENDS SyscallTracer, FiniteSetTheorems, TLAPS

(* A program without children, and one that forks, waits, and is then      *)
(* without children.                                                       *)
Leaf(s) == \A i \in 1 .. Len(s) : s[i] \notin {"fork", "wait"}

Forking(s) ==
  \E k \in 1 .. Len(s) :
    /\ s[k] = "wait"
    /\ \A i \in 1 .. (k - 1) : s[i] = "fork"
    /\ \A i \in (k + 1) .. Len(s) : s[i] \notin {"fork", "wait"}

--------------------------------------------------------------------------------
(* What the next call of a program is, and what is left after it.          *)
LEMMA LeafTail ==
  ASSUME NEW s \in Seq(Calls), s # <<>>, Leaf(s)
  PROVE  /\ Head(s) \notin {"fork", "wait"}
         /\ Leaf(Tail(s))
         /\ Leaf(SubSeq(s, 5, Len(s)))
<1>1. Leaf(Tail(s)) /\ Head(s) \notin {"fork", "wait"}
  BY DEF Leaf
<1>2. Leaf(SubSeq(s, 5, Len(s)))
  BY DEF Leaf
<1> QED
  BY <1>1, <1>2

LEMMA ForkingTail ==
  ASSUME NEW s \in Seq(Calls), Forking(s)
  PROVE  /\ s # <<>> /\ Head(s) \in {"fork", "wait"}
         /\ Head(s) = "fork" => Forking(Tail(s))
         /\ Head(s) = "wait" => Leaf(Tail(s))
<1>1. PICK k \in 1 .. Len(s) :
        /\ s[k] = "wait"
        /\ \A i \in 1 .. (k - 1) : s[i] = "fork"
        /\ \A i \in (k + 1) .. Len(s) : s[i] \notin {"fork", "wait"}
  BY DEF Forking
<1>2. s # <<>> /\ Head(s) = s[1] /\ Len(Tail(s)) = Len(s) - 1
  BY <1>1
<1>3. \A i \in 1 .. Len(Tail(s)) : Tail(s)[i] = s[i + 1]
  BY <1>2
<1>4. Head(s) \in {"fork", "wait"}
  BY <1>1, <1>2
<1>5. ASSUME Head(s) = "fork" PROVE Forking(Tail(s))
  <2>1. k # 1
    BY <1>1, <1>2, <1>5
  <2>2. /\ k - 1 \in 1 .. Len(Tail(s)) /\ Tail(s)[k - 1] = "wait"
        /\ \A i \in 1 .. (k - 1 - 1) : Tail(s)[i] = "fork"
        /\ \A i \in (k - 1 + 1) .. Len(Tail(s)) : Tail(s)[i] \notin {"fork", "wait"}
    BY <1>1, <1>2, <1>3, <2>1
  <2> QED
    BY <2>2 DEF Forking
<1>6. ASSUME Head(s) = "wait" PROVE Leaf(Tail(s))
  <2>1. k = 1
    BY <1>1, <1>2, <1>6
  <2> QED
    BY <1>1, <1>2, <1>3, <2>1 DEF Leaf
<1> QED
  BY <1>2, <1>4, <1>5, <1>6

(* A program and the return from the call that creates its task.           *)
LEMMA Created ==
  ASSUME NEW s \in Seq(Calls)
  PROVE  /\ <<"fork">> \o s \in Seq(Calls)
         /\ <<"fork">> \o s # <<>>
         /\ Head(<<"fork">> \o s) = "fork"
         /\ Leaf(s) => Leaf(Tail(<<"fork">> \o s))
         /\ Forking(s) => Forking(<<"fork">> \o s)
<1> DEFINE f == <<"fork">> \o s
<1>1. /\ f \in Seq(Calls) /\ Len(f) = Len(s) + 1 /\ f[1] = "fork"
      /\ \A i \in 1 .. Len(s) : f[i + 1] = s[i]
  BY DEF Calls
<1> HIDE DEF f
<1>2. f # <<>> /\ Head(f) = "fork"
  BY <1>1
<1>3. Leaf(s) => Leaf(Tail(f))
  BY <1>1, <1>2 DEF Leaf
<1>4. ASSUME Forking(s) PROVE Forking(f)
  <2>1. PICK k \in 1 .. Len(s) :
          /\ s[k] = "wait"
          /\ \A i \in 1 .. (k - 1) : s[i] = "fork"
          /\ \A i \in (k + 1) .. Len(s) : s[i] \notin {"fork", "wait"}
    BY <1>4 DEF Forking
  <2>2. k + 1 \in 1 .. Len(f) /\ f[k + 1] = "wait"
    BY <1>1, <2>1
  <2>3. ASSUME NEW i \in 1 .. (k + 1 - 1) PROVE f[i] = "fork"
    <3>1. i = 1 \/ (i - 1 \in 1 .. (k - 1) /\ f[(i - 1) + 1] = s[i - 1])
      BY <1>1
    <3> QED
      BY <1>1, <2>1, <3>1
  <2>4. ASSUME NEW i \in (k + 1 + 1) .. Len(f) PROVE f[i] \notin {"fork", "wait"}
    <3>1. i - 1 \in (k + 1) .. Len(s) /\ f[(i - 1) + 1] = s[i - 1]
      BY <1>1
    <3> QED
      BY <2>1, <3>1
  <2> QED
    BY <2>2, <2>3, <2>4 DEF Forking
<1> QED
  BY <1>1, <1>2, <1>3, <1>4 DEF f

(* Calls that are repeated.                                                *)
LEMMA Repeated ==
  ASSUME NEW n \in Nat, NEW calls \in Seq(Calls), calls # <<>>
  PROVE  /\ Times(n, calls) \in Seq(Calls)
         /\ \A i \in 1 .. Len(Times(n, calls)) :
              \E j \in 1 .. Len(calls) : Times(n, calls)[i] = calls[j]
<1> DEFINE len == Len(calls)
<1>1. len \in Nat \ {0}
  OBVIOUS
<1>2. n * len \in Nat
  BY <1>1
<1>3. \A i \in 1 .. n * len : ((i - 1) % len) + 1 \in 1 .. len
  BY <1>1, <1>2
<1> DEFINE f == [i \in 1 .. n * len |-> calls[((i - 1) % len) + 1]]
<1>4. f \in Seq(Calls) /\ Len(f) = n * len
  BY <1>2, <1>3
<1>5. \A i \in 1 .. Len(f) : \E j \in 1 .. len : f[i] = calls[j]
  BY <1>3, <1>4
<1>6. Times(n, calls) = f
  BY DEF Times
<1> QED
  BY <1>4, <1>5, <1>6

(* n forks, then the wait, then the exit.                                  *)
LEMMA ForksThenWait ==
  ASSUME NEW n \in Nat
  PROVE  LET s == Times(n, <<"fork">>) \o <<"wait">> \o <<"exit_group">>
         IN  s \in Seq(Calls) /\ Forking(s)
<1> DEFINE f == Times(n, <<"fork">>)
           s == f \o <<"wait">> \o <<"exit_group">>
<1>1. f \in Seq(Calls) /\ \A i \in 1 .. Len(f) : f[i] = "fork"
  <2>1. <<"fork">> \in Seq(Calls) /\ <<"fork">> # <<>> /\ Len(<<"fork">>) = 1
    BY DEF Calls
  <2> QED
    BY <2>1, Repeated
<1> HIDE DEF f
<1>2. f \o <<"wait">> \in Seq(Calls) /\ Len(f \o <<"wait">>) = Len(f) + 1
  BY <1>1 DEF Calls
<1>3. s \in Seq(Calls) /\ Len(s) = Len(f) + 2
  BY <1>1, <1>2 DEF Calls
<1>4. /\ Len(f) + 1 \in 1 .. Len(s) /\ s[Len(f) + 1] = "wait"
      /\ s[Len(f) + 2] = "exit_group"
      /\ \A i \in 1 .. Len(f) : s[i] = "fork"
  BY <1>1, <1>2, <1>3 DEF Calls
<1>5. \A i \in (Len(f) + 1 + 1) .. Len(s) : i = Len(f) + 2
  BY <1>1, <1>3
<1>6. Forking(s)
  <2>1. \A i \in 1 .. (Len(f) + 1 - 1) : s[i] = "fork"
    BY <1>1, <1>4
  <2>2. \A i \in (Len(f) + 1 + 1) .. Len(s) : s[i] \notin {"fork", "wait"}
    BY <1>4, <1>5
  <2> HIDE DEF s
  <2> QED
    BY <1>4, <2>1, <2>2 DEF Forking
<1> HIDE DEF s
<1>7. s \in Seq(Calls) /\ Forking(s)
  BY <1>3, <1>6
<1> QED
  BY <1>7, Zenon DEF s, f

(* Calls on a file, then the exit.                                         *)
LEMMA FileCalls ==
  ASSUME NEW n \in Nat, NEW calls \in Seq(Calls), calls # <<>>, Leaf(calls)
  PROVE  LET s == Times(n, calls) \o <<"exit_group">>
         IN  s \in Seq(Calls) /\ Leaf(s)
<1> DEFINE f == Times(n, calls)
<1>1. f \in Seq(Calls) /\ \A i \in 1 .. Len(f) : f[i] \notin {"fork", "wait"}
  BY Repeated DEF Leaf
<1> HIDE DEF f
<1>2. f \o <<"exit_group">> \in Seq(Calls) /\ Leaf(f \o <<"exit_group">>)
  BY <1>1 DEF Calls, Leaf
<1> QED
  BY <1>2 DEF f

(* What a task runs is a sequence of calls of one of the two shapes.       *)
LEMMA BodyShape ==
  ASSUME NEW type \in {"suspicious-mem", "fork-bomb", "file-ops"}, NEW n \in Nat
  PROVE  LET s == Body(type, n) \o <<"exit_group">>
         IN  s \in Seq(Calls) /\ (Leaf(s) \/ Forking(s))
<1>1. CASE type = "suspicious-mem"
  <2> DEFINE calls == <<"open", "lseek", "write", "close">>
  <2>1. calls \in Seq(Calls) /\ calls # <<>> /\ Leaf(calls)
    BY DEF Calls, Leaf
  <2>2. Body(type, n) = Times(n, calls)
    BY <1>1 DEF Body
  <2> QED
    BY <2>1, <2>2, FileCalls
<1>2. CASE type = "file-ops"
  <2> DEFINE calls == <<"open", "write", "close", "unlink">>
  <2>1. calls \in Seq(Calls) /\ calls # <<>> /\ Leaf(calls)
    BY DEF Calls, Leaf
  <2>2. Body(type, n) = Times(n, calls)
    BY <1>2 DEF Body
  <2> QED
    BY <2>1, <2>2, FileCalls
<1>3. CASE type = "fork-bomb"
  <2>1. Body(type, n) = Times(n, <<"fork">>) \o <<"wait">>
    BY <1>3 DEF Body
  <2> QED
    BY <2>1, ForksThenWait
<1> QED
  BY <1>1, <1>2, <1>3

LEMMA ExitOnly == <<"exit_group">> \in Seq(Calls) /\ Leaf(<<"exit_group">>)
BY DEF Calls, Leaf

LEMMA TestTypes ==
  ASSUME NEW i \in 1 .. Len(Tests)
  PROVE  Tests[i][2] \in {"suspicious-mem", "fork-bomb", "file-ops"}
<1>1. Len(Tests) = 6
  BY DEF Tests
<1>2. (i - 1) % 3 \in 0 .. 2
  BY <1>1
<1>3. Tests[i][2] = Types[((i - 1) % 3) + 1]
  BY <1>1 DEF Tests
<1> QED
  BY <1>2, <1>3 DEF Types

LEMMA ProgramShape ==
  ASSUME test \in 1 .. Len(Tests)
  PROVE  Program \in Seq(Calls) /\ (Leaf(Program) \/ Forking(Program))
<1>1. ITER \in Nat
  BY TracerAssumption
<1>2. CASE Tests[test][1] = "sequential"
  BY <1>1, <1>2, TestTypes, BodyShape DEF Program
<1>3. CASE Tests[test][1] # "sequential"
  BY <1>1, <1>3, ForksThenWait DEF Program
<1> QED
  BY <1>2, <1>3

(* Only the children of the program may have children of their own.        *)
LEMMA ChildProgramShape ==
  ASSUME test \in 1 .. Len(Tests), NEW t
  PROVE  /\ ChildProgram(t) \in Seq(Calls)
         /\ Leaf(ChildProgram(t)) \/ (t = p /\ Forking(ChildProgram(t)))
<1>1. CASE t = p /\ Tests[test][1] = "concurrent"
  BY <1>1, TestTypes, BodyShape DEF ChildProgram
<1>2. CASE ~(t = p /\ Tests[test][1] = "concurrent")
  <2>1. ChildProgram(t) = <<>> \o <<"exit_group">>
    BY <1>2 DEF ChildProgram
  <2>2. <<>> \o <<"exit_group">> = <<"exit_group">>
    OBVIOUS
  <2> QED
    BY <2>1, <2>2, ExitOnly
<1> QED
  BY <1>1, <1>2

--------------------------------------------------------------------------------
LEMMA TypeInit == Init => TypeOK
<1> SUFFICES ASSUME Init PROVE TypeOK
  OBVIOUS
<1>1. Cardinality({}) = 0 /\ Len(Tests) = 6
  BY FS_EmptySet DEF Tests
<1> QED
  BY <1>1, TracerAssumption DEF Init, TypeOK

(* The map takes no entry beyond its capacity.                             *)
LEMMA RoomForOne ==
  ASSUME TypeOK, NEW t \in Tids, t \in start \/ Cardinality(start) < MAX_ENTRIES
  PROVE  start \cup {t} \subseteq Tids /\ Cardinality(start \cup {t}) <= MAX_ENTRIES
<1>1. IsFiniteSet(start) /\ Cardinality(start) \in Nat /\ MAX_ENTRIES \in Nat
  BY FS_Subset, FS_CardinalityType, TracerAssumption DEF TypeOK
<1>2. CASE t \in start
  <2>1. start \cup {t} = start
    BY <1>2
  <2> QED
    BY <2>1 DEF TypeOK
<1>3. CASE t \notin start /\ Cardinality(start) < MAX_ENTRIES
  <2>1. Cardinality(start \cup {t}) = Cardinality(start) + 1
    BY <1>1, <1>3, FS_AddElement
  <2> QED
    BY <1>1, <1>3, <2>1 DEF TypeOK
<1> QED
  BY <1>2, <1>3

(* What the probe on sys_exit does to the map and to the ring.             *)
LEMMA ExitProbeType ==
  ASSUME TypeOK, NEW t \in Tids, todo[t] # <<>>, SysExitProbe(t)
  PROVE  /\ start' \subseteq Tids /\ Cardinality(start') <= MAX_ENTRIES
         /\ stale' \subseteq start'
         /\ ring' \in Seq(Calls) /\ Len(ring') <= RingSize
<1>1. IsFiniteSet(start) /\ start' \subseteq start
  BY FS_Subset, TracerAssumption DEF TypeOK, SysExitProbe
<1>2. Cardinality(start') <= Cardinality(start)
  BY <1>1, FS_Subset
<1>3. /\ Cardinality(start) \in Nat /\ Cardinality(start') \in Nat
      /\ MAX_ENTRIES \in Nat /\ RingSize \in Nat
  BY <1>1, FS_Subset, FS_CardinalityType, TracerAssumption
<1>4. Head(todo[t]) \in Calls
  BY DEF TypeOK
<1> QED
  BY <1>1, <1>2, <1>3, <1>4 DEF TypeOK, SysExitProbe

LEMMA TypeStep == TypeOK /\ (script = "poll" => p \in Tids) /\ Next => TypeOK'
<1> SUFFICES ASSUME TypeOK, script = "poll" => p \in Tids, Next
             PROVE  TypeOK'
  OBVIOUS
<1> USE TracerAssumption
<1>1. ASSUME NEW t \in Tids, SysEnter(t) PROVE TypeOK'
  <2>1. /\ start' \subseteq Tids /\ Cardinality(start') <= MAX_ENTRIES
        /\ stale' \subseteq start'
    BY <1>1, RoomForOne DEF TypeOK, SysEnter
  <2> QED
    BY <1>1, <2>1 DEF TypeOK, SysEnter, loop
<1>2. ASSUME NEW t \in Tids, Fork(t) PROVE TypeOK'
  <2>1. todo' \in [Tids -> Seq(Calls)] /\ \A u \in Tids : todo[u] # <<>> => todo'[u] # <<>>
    <3>1. CASE UNCHANGED <<parent, todo>>
      BY <3>1 DEF TypeOK
    <3>2. CASE \E c \in Tids : Birth(c, t, ChildProgram(t))
      BY <3>2, ChildProgramShape, Created DEF TypeOK, Birth
    <3> QED
      BY <1>2, <3>1, <3>2 DEF Fork
  <2>2. \A u \in Tids : state'[u] \in {"call", "forked"} => todo'[u] # <<>>
    <3>1. CASE UNCHANGED <<parent, todo>> /\ state' = [state EXCEPT ![t] = "forked"]
      BY <1>2, <3>1 DEF TypeOK, Fork
    <3>2. ASSUME NEW c \in Tids, Birth(c, t, ChildProgram(t)),
                 state' = [state EXCEPT ![t] = "forked", ![c] = "forked"]
          PROVE  \A u \in Tids : state'[u] \in {"call", "forked"} => todo'[u] # <<>>
      <4>1. todo'[c] # <<>> /\ \A u \in Tids : u # c => todo'[u] = todo[u]
        BY <3>2, ChildProgramShape, Created DEF TypeOK, Birth
      <4> QED
        BY <1>2, <3>2, <4>1 DEF TypeOK, Fork
    <3> QED
      BY <1>2, <3>1, <3>2 DEF Fork
  <2>3. /\ state' \in [Tids -> {"free", "user", "call", "forked", "zombie"}]
        /\ parent' \in [Tids -> Tids \cup {None}]
    <3>1. CASE UNCHANGED <<parent, todo>> /\ state' = [state EXCEPT ![t] = "forked"]
      BY <3>1 DEF TypeOK
    <3>2. ASSUME NEW c \in Tids, Birth(c, t, ChildProgram(t)),
                 state' = [state EXCEPT ![t] = "forked", ![c] = "forked"]
          PROVE  /\ state' \in [Tids -> {"free", "user", "call", "forked", "zombie"}]
                 /\ parent' \in [Tids -> Tids \cup {None}]
      BY <3>2 DEF TypeOK, Birth
    <3> QED
      BY <1>2, <3>1, <3>2 DEF Fork
  <2> QED
    BY <1>2, <2>1, <2>2, <2>3 DEF TypeOK, Fork, loop, probes
<1>3. ASSUME NEW t \in Tids, SysExit(t) PROVE TypeOK'
  <2>1. todo[t] # <<>> /\ todo[t] \in Seq(Calls)
    BY <1>3 DEF SysExit, TypeOK
  <2>2. PICK rest \in Seq(Calls) : Return(t, rest)
    <3>1. Tail(todo[t]) \in Seq(Calls) /\ SubSeq(todo[t], 5, Len(todo[t])) \in Seq(Calls)
      BY <2>1
    <3>2. \/ Return(t, Tail(todo[t]))
          \/ Return(t, SubSeq(todo[t], 5, Len(todo[t])))
      BY <1>3 DEF SysExit
    <3> QED
      BY <3>1, <3>2
  <2>3. todo' \in [Tids -> Seq(Calls)] /\ \A u \in Tids : u # t => todo'[u] = todo[u]
    BY <2>2 DEF Return, TypeOK
  <2>4. state' = [state EXCEPT ![t] = "user"] /\ UNCHANGED parent
    BY <1>3 DEF SysExit, Resume
  <2> QED
    BY <2>1, <2>2, <2>3, <2>4, ExitProbeType DEF TypeOK, Return, loop
<1>4. ASSUME NEW t \in Tids, Wait(t) PROVE TypeOK'
  <2>1. todo[t] # <<>> /\ todo[t] \in Seq(Calls)
    BY <1>4 DEF Wait, TypeOK
  <2>2. PICK rest \in Seq(Calls) : Return(t, rest)
    <3>1. Tail(todo[t]) \in Seq(Calls)
      BY <2>1
    <3>2. Return(t, Tail(todo[t])) \/ Return(t, todo[t])
      BY <1>4 DEF Wait
    <3> QED
      BY <2>1, <3>1, <3>2
  <2>3. todo' \in [Tids -> Seq(Calls)] /\ \A u \in Tids : u # t => todo'[u] = todo[u]
    BY <2>2 DEF Return, TypeOK
  <2>4. /\ state' \in [Tids -> {"free", "user", "call", "forked", "zombie"}]
        /\ parent' \in [Tids -> Tids \cup {None}]
        /\ \A u \in Tids : state'[u] \in {"call", "forked"} => u # t /\ state[u] = state'[u]
    BY <1>4 DEF Wait, Resume, Free, TypeOK
  <2> QED
    BY <2>1, <2>2, <2>3, <2>4, ExitProbeType DEF TypeOK, Return, loop
<1>5. ASSUME NEW t \in Tids, ExitGroup(t) PROVE TypeOK'
  <2>1. <<>> \in Seq(Calls)
    OBVIOUS
  <2> QED
    BY <1>5, <2>1 DEF TypeOK, ExitGroup, loop
<1>6. ASSUME Popen PROVE TypeOK'
  <2>1. PICK t \in Tids :
          Birth(t, None, Program) /\ state' = [state EXCEPT ![t] = "forked"] /\ p' = t
    BY <1>6 DEF Popen
  <2>2. /\ todo' \in [Tids -> Seq(Calls)] /\ todo'[t] # <<>>
        /\ \A u \in Tids : u # t => todo'[u] = todo[u]
    BY <2>1, ProgramShape, Created DEF TypeOK, Birth
  <2> QED
    BY <1>6, <2>1, <2>2 DEF TypeOK, Popen, Birth, probes
<1>7. ASSUME Poll \/ Flush PROVE TypeOK'
  <2>1. <<>> \in Seq(Calls) /\ Len(<<>>) = 0
    OBVIOUS
  <2>2. /\ ring' = <<>> /\ UNCHANGED <<test, run, p, tasks, start, stale, ended>>
        /\ script' \in {"poll", "next"}
    BY <1>7 DEF TypeOK, Poll, Flush, loop
  <2> QED
    BY <2>1, <2>2 DEF TypeOK, tasks
<1>8. ASSUME Reap PROVE TypeOK'
  BY <1>8 DEF TypeOK, Reap, Free, probes
<1>9. ASSUME NextRun PROVE TypeOK'
  BY <1>9 DEF TypeOK, NextRun, tasks, probes
<1>10. ASSUME NextTest PROVE TypeOK'
  <2>1. Cardinality({}) = 0 /\ Len(Tests) = 6
    BY FS_EmptySet DEF Tests
  <2> QED
    BY <1>10, <2>1 DEF TypeOK, NextTest, tasks
<1>11. ASSUME Done PROVE TypeOK'
  BY <1>11 DEF TypeOK, Done, vars, loop, tasks, probes
<1> QED
  BY <1>1, <1>2, <1>3, <1>4, <1>5, <1>6, <1>7, <1>8, <1>9, <1>10, <1>11
  DEF Next, ScriptStep, TaskStep

--------------------------------------------------------------------------------
(* Who owns an entry: inductive with the types.                            *)
LEMMA OwnersStep == TypeOK /\ EntryOwners /\ Next => EntryOwners'
<1> SUFFICES ASSUME TypeOK, EntryOwners, Next PROVE EntryOwners'
  OBVIOUS
<1> USE TracerAssumption
<1>1. ASSUME NEW t \in Tids, SysEnter(t) PROVE EntryOwners'
  BY <1>1 DEF TypeOK, EntryOwners, SysEnter
<1>2. ASSUME NEW t \in Tids, Fork(t) PROVE EntryOwners'
  <2>1. CASE UNCHANGED <<parent, todo>> /\ state' = [state EXCEPT ![t] = "forked"]
    BY <1>2, <2>1 DEF TypeOK, EntryOwners, Fork, probes
  <2>2. ASSUME NEW c \in Tids, Birth(c, t, ChildProgram(t)),
               state' = [state EXCEPT ![t] = "forked", ![c] = "forked"]
        PROVE  EntryOwners'
    <3>1. Head(todo'[c]) = "fork" /\ \A u \in Tids : u # c => todo'[u] = todo[u]
      BY <2>2, ChildProgramShape, Created DEF TypeOK, Birth
    <3> QED
      BY <1>2, <2>2, <3>1 DEF TypeOK, EntryOwners, Fork, Birth, probes
  <2> QED
    BY <1>2, <2>1, <2>2 DEF Fork
<1>3. ASSUME NEW t \in Tids, SysExit(t) \/ Wait(t) PROVE EntryOwners'
  <2>1. PICK rest : Return(t, rest)
    BY <1>3 DEF SysExit, Wait
  <2>2. \A u \in Tids : u # t => todo'[u] = todo[u]
    BY <2>1 DEF TypeOK, Return
  <2>3. \A u \in Tids : u # t =>
           state'[u] = state[u] \/ (state[u] = "zombie" /\ state'[u] = "free")
    BY <1>3 DEF SysExit, Wait, Resume, Free, TypeOK
  <2> QED
    BY <2>1, <2>2, <2>3 DEF TypeOK, EntryOwners, Return, SysExitProbe
<1>4. ASSUME NEW t \in Tids, ExitGroup(t) PROVE EntryOwners'
  BY <1>4 DEF TypeOK, EntryOwners, ExitGroup
<1>5. ASSUME Popen PROVE EntryOwners'
  <2>1. PICK t \in Tids : Birth(t, None, Program) /\ state' = [state EXCEPT ![t] = "forked"]
    BY <1>5 DEF Popen
  <2>2. Head(todo'[t]) = "fork" /\ \A u \in Tids : u # t => todo'[u] = todo[u]
    BY <2>1, ProgramShape, Created DEF TypeOK, Birth
  <2> QED
    BY <1>5, <2>1, <2>2 DEF TypeOK, EntryOwners, Popen, Birth, probes
<1>6. ASSUME Reap PROVE EntryOwners'
  BY <1>6 DEF TypeOK, EntryOwners, Reap, Free, probes
<1>7. ASSUME Poll \/ Flush \/ NextRun \/ NextTest \/ Done PROVE EntryOwners'
  BY <1>7 DEF EntryOwners, Poll, Flush, NextRun, NextTest, Done, vars, tasks, probes
<1> QED
  BY <1>1, <1>2, <1>3, <1>4, <1>5, <1>6, <1>7 DEF Next, ScriptStep, TaskStep

(* No more entries are left behind than tasks have ended.                  *)
StaleInv == Cardinality(stale) <= ended

LEMMA StaleFinite == TypeOK => IsFiniteSet(stale) /\ Cardinality(stale) \in Nat
BY FS_Subset, FS_CardinalityType, TracerAssumption DEF TypeOK

LEMMA StaleStep == TypeOK /\ StaleInv /\ Next => StaleInv'
<1> SUFFICES ASSUME TypeOK, StaleInv, Next PROVE StaleInv'
  OBVIOUS
<1>1. IsFiniteSet(stale) /\ Cardinality(stale) \in Nat /\ ended \in Nat
  BY StaleFinite DEF TypeOK
<1>2. ASSUME stale' \subseteq stale, ended' = ended PROVE StaleInv'
  <2>1. Cardinality(stale') <= Cardinality(stale) /\ Cardinality(stale') \in Nat
    BY <1>1, <1>2, FS_Subset, FS_CardinalityType
  <2> QED
    BY <1>1, <1>2, <2>1 DEF StaleInv
<1>3. ASSUME NEW t \in Tids, ExitGroup(t) PROVE StaleInv'
  <2>1. stale' = stale \/ stale' = stale \cup {t}
    BY <1>3 DEF ExitGroup
  <2>2. Cardinality(stale') <= Cardinality(stale) + 1
    <3>1. CASE stale' = stale
      BY <1>1, <3>1
    <3>2. CASE stale' = stale \cup {t}
      BY <1>1, <3>2, FS_AddElement
    <3> QED
      BY <2>1, <3>1, <3>2
  <2>3. IsFiniteSet(stale')
    BY <1>1, <2>1, FS_AddElement
  <2> QED
    BY <1>1, <1>3, <2>2, <2>3, FS_CardinalityType DEF ExitGroup, StaleInv
<1>4. ASSUME NEW t \in Tids, SysEnter(t) PROVE StaleInv'
  BY <1>2, <1>4 DEF SysEnter
<1>5. ASSUME NEW t \in Tids, Fork(t) PROVE StaleInv'
  BY <1>2, <1>5 DEF Fork, probes
<1>6. ASSUME NEW t \in Tids, SysExit(t) \/ Wait(t) PROVE StaleInv'
  BY <1>2, <1>6 DEF SysExit, Wait, Return, SysExitProbe
<1>7. CASE NextTest
  BY <1>7, FS_EmptySet DEF NextTest, StaleInv
<1>8. CASE Popen \/ Poll \/ Reap \/ Flush \/ NextRun \/ Done
  BY <1>2, <1>8 DEF Popen, Poll, Reap, Flush, NextRun, Done, vars, probes
<1> QED
  BY <1>3, <1>4, <1>5, <1>6, <1>7, <1>8 DEF Next, ScriptStep, TaskStep

(* An entry is one of a call in progress or one left behind.               *)
LEMMA StartBounded ==
  ASSUME TypeOK, EntryOwners, StaleInv
  PROVE  Cardinality(start) <= ended + Cardinality({u \in Alive : state[u] # "user"})
<1> DEFINE inCall == {u \in Alive : state[u] # "user"}
<1>1. start \ stale \subseteq inCall
  BY DEF EntryOwners, Alive, TypeOK
<1>2. start \subseteq inCall \cup stale
  BY <1>1
<1>3. IsFiniteSet(inCall) /\ IsFiniteSet(stale) /\ IsFiniteSet(inCall \cup stale)
  <2>1. IsFiniteSet(inCall) /\ IsFiniteSet(stale)
    BY FS_Subset, TracerAssumption, StaleFinite DEF Alive
  <2> QED
    BY <2>1, FS_Union
<1> HIDE DEF inCall
<1>4. Cardinality(inCall \cup stale) <= Cardinality(inCall) + Cardinality(stale)
  <2>1. Cardinality(inCall \cup stale)
           = Cardinality(inCall) + Cardinality(stale) - Cardinality(inCall \cap stale)
    BY <1>3, FS_Union
  <2>2. IsFiniteSet(inCall \cap stale)
    BY <1>3, FS_Intersection
  <2>3. /\ Cardinality(inCall \cap stale) \in Nat
        /\ Cardinality(inCall) \in Nat /\ Cardinality(stale) \in Nat
    BY <1>3, <2>2, FS_CardinalityType
  <2> QED
    BY <2>1, <2>3
<1>5. Cardinality(start) <= Cardinality(inCall \cup stale)
  BY <1>2, <1>3, FS_Subset
<1>6. /\ Cardinality(start) \in Nat /\ Cardinality(inCall \cup stale) \in Nat
      /\ Cardinality(inCall) \in Nat /\ Cardinality(stale) \in Nat /\ ended \in Nat
  BY <1>2, <1>3, FS_Subset, FS_CardinalityType DEF TypeOK
<1>7. Cardinality(start) <= ended + Cardinality(inCall)
  BY <1>4, <1>5, <1>6 DEF StaleInv
<1> QED
  BY <1>7 DEF inCall

(* A call without an entry was refused one.                                *)
LEMMA RefusedStep ==
  TypeOK /\ EntryOwners /\ StaleInv /\ [Next]_vars =>
    \A t \in Tids :
       state[t] = "user" /\ state'[t] = "call" /\ t \notin start' =>
         ended + Cardinality({u \in Alive : state[u] # "user"}) >= MAX_ENTRIES
<1> SUFFICES ASSUME TypeOK, EntryOwners, StaleInv, [Next]_vars, NEW t \in Tids,
                    state[t] = "user", state'[t] = "call", t \notin start'
             PROVE  ended + Cardinality({u \in Alive : state[u] # "user"}) >= MAX_ENTRIES
  OBVIOUS
<1>1. SysEnter(t)
  <2>1. ASSUME NEW u \in Tids, TaskStep(u) PROVE SysEnter(t)
    <3>1. ASSUME SysEnter(u) PROVE u = t
      BY <3>1 DEF SysEnter, TypeOK
    <3>2. ~Fork(u)
      BY DEF Fork, TypeOK
    <3>3. ~SysExit(u) /\ ~Wait(u) /\ ~ExitGroup(u)
      BY DEF SysExit, Wait, ExitGroup, Resume, Free, TypeOK
    <3> QED
      BY <2>1, <3>1, <3>2, <3>3 DEF TaskStep
  <2>2. ~Popen /\ ~Poll /\ ~Reap /\ ~Flush /\ ~NextRun /\ ~NextTest /\ ~Done
    BY DEF Popen, Poll, Reap, Flush, NextRun, NextTest, Done, Free, TypeOK,
           vars, loop, tasks
  <2>3. ~UNCHANGED vars
    BY DEF vars, tasks
  <2> QED
    BY <2>1, <2>2, <2>3 DEF Next, ScriptStep
<1>2. ~(Cardinality(start) < MAX_ENTRIES)
  BY <1>1 DEF SysEnter
<1>3. Cardinality(start) \in Nat /\ MAX_ENTRIES \in Nat /\ ended \in Nat
  BY FS_Subset, FS_CardinalityType, TracerAssumption DEF TypeOK
<1>4. Cardinality({u \in Alive : state[u] # "user"}) \in Nat
  <2>1. IsFiniteSet({u \in Alive : state[u] # "user"})
    BY FS_Subset, TracerAssumption DEF Alive
  <2> QED
    BY <2>1, FS_CardinalityType
<1> QED
  BY <1>2, <1>3, <1>4, StartBounded

--------------------------------------------------------------------------------
(* The processes of a run.  A task that is gone or not there has nothing   *)
(* to do; one that has forked returns from it next; and one that may have  *)
(* children has still to wait for them.                                    *)
NoChildren(t) == \A c \in Tids : parent[c] # t

TasksInv ==
  \A t \in Tids :
    /\ state[t] \in {"free", "zombie"} => todo[t] = <<>>
    /\ state[t] = "free" => parent[t] = None
    /\ state[t] = "forked" => Head(todo[t]) = "fork"
    /\ \/ Forking(todo[t])
       \/ /\ NoChildren(t)
          /\ Leaf(todo[t]) \/ (state[t] = "forked" /\ Leaf(Tail(todo[t])))

(* Outside a run there is no process; in one, each is the program, a child *)
(* of it, or a child of a child, and the last has no children.             *)
TreeInv ==
  /\ IF script = "poll"
     THEN p \in Tids /\ parent[p] = None /\ state[p] # "free"
     ELSE p = None /\ \A t \in Tids : state[t] = "free"
  /\ \A t \in Tids : state[t] # "free" /\ t # p =>
       \/ parent[t] = p
       \/ parent[t] \in Tids /\ parent[parent[t]] = p /\ ~Forking(todo[t])

RingInv == script \in {"next", "popen", "done"} => ring = <<>>

LEMMA EmptyShape == Leaf(<<>>) /\ ~Forking(<<>>) /\ <<>> \in Seq(Calls)
BY DEF Leaf, Forking

(* A task that is gone or not there has no children.                       *)
LEMMA GoneIsChildless ==
  ASSUME TypeOK, TasksInv, NEW t \in Tids, state[t] \in {"free", "zombie"}
  PROVE  NoChildren(t) /\ ~Forking(todo[t])
BY EmptyShape DEF TasksInv

(* A leaf that has called something else than exit_group.                  *)
LEMMA ShapeInCall ==
  ASSUME TypeOK, TasksInv, NEW t \in Tids, state[t] = "call"
  PROVE  /\ Head(todo[t]) \in {"fork", "wait"} => Forking(todo[t])
         /\ Head(todo[t]) \notin {"fork", "wait"} => Leaf(todo[t]) /\ NoChildren(t)
<1>1. todo[t] \in Seq(Calls) /\ todo[t] # <<>>
  BY DEF TypeOK
<1>2. Forking(todo[t]) \/ (Leaf(todo[t]) /\ NoChildren(t))
  BY DEF TasksInv
<1> QED
  BY <1>1, <1>2, LeafTail, ForkingTail

LEMMA TreeInit == Init => TasksInv /\ TreeInv /\ RingInv
<1> SUFFICES ASSUME Init PROVE TasksInv /\ TreeInv /\ RingInv
  OBVIOUS
<1>1. TasksInv
  BY EmptyShape, TracerAssumption DEF Init, TasksInv, NoChildren
<1>2. TreeInv /\ RingInv
  BY DEF Init, TreeInv, RingInv
<1> QED
  BY <1>1, <1>2

LEMMA TasksStep == TypeOK /\ TasksInv /\ TreeInv /\ Next => TasksInv'
<1> SUFFICES ASSUME TypeOK, TasksInv, TreeInv, Next PROVE TasksInv'
  OBVIOUS
<1> USE TracerAssumption
<1>1. ASSUME NEW t \in Tids, SysEnter(t) PROVE TasksInv'
  BY <1>1 DEF TasksInv, SysEnter, NoChildren, TypeOK
<1>2. ASSUME NEW t \in Tids, Fork(t) PROVE TasksInv'
  <2>1. Forking(todo[t]) /\ Head(todo[t]) = "fork"
    BY <1>2, ShapeInCall DEF Fork
  <2>2. CASE UNCHANGED <<parent, todo>> /\ state' = [state EXCEPT ![t] = "forked"]
    BY <2>1, <2>2 DEF TasksInv, NoChildren, TypeOK
  <2>3. ASSUME NEW c \in Tids, Birth(c, t, ChildProgram(t)),
               state' = [state EXCEPT ![t] = "forked", ![c] = "forked"]
        PROVE  TasksInv'
    <3>1. /\ Head(todo'[c]) = "fork"
          /\ Forking(todo'[c]) \/ Leaf(Tail(todo'[c]))
          /\ \A u \in Tids : u # c => todo'[u] = todo[u]
      BY <2>3, ChildProgramShape, Created DEF TypeOK, Birth
    <3>2. NoChildren(c) /\ c # t
      BY <1>2, <2>3, GoneIsChildless DEF Birth, Fork
    <3>3. /\ parent'[c] = t
          /\ \A u \in Tids : u # c => parent'[u] = parent[u]
      BY <2>3 DEF Birth, TypeOK
    <3>4. NoChildren(c)' /\ \A u \in Tids : u # t /\ NoChildren(u) => NoChildren(u)'
      BY <3>2, <3>3 DEF NoChildren
    <3>5. /\ state'[t] = "forked" /\ state'[c] = "forked"
          /\ \A u \in Tids : u # t /\ u # c => state'[u] = state[u]
      BY <2>3 DEF TypeOK
    <3> QED
      BY <2>1, <3>1, <3>2, <3>3, <3>4, <3>5 DEF TasksInv
  <2> QED
    BY <1>2, <2>2, <2>3 DEF Fork
<1>3. ASSUME NEW t \in Tids, SysExit(t) PROVE TasksInv'
  <2>1. todo[t] # <<>> /\ todo[t] \in Seq(Calls)
    BY <1>3 DEF SysExit, TypeOK
  <2>2. /\ \A u \in Tids : u # t => todo'[u] = todo[u]
        /\ \/ todo'[t] = Tail(todo[t])
           \/ Head(todo[t]) = "open" /\ todo'[t] = SubSeq(todo[t], 5, Len(todo[t]))
    BY <1>3 DEF SysExit, Return, TypeOK
  <2>3. Forking(todo'[t]) \/ (NoChildren(t) /\ Leaf(todo'[t]))
    <3>1. CASE state[t] = "forked"
      <4>1. Head(todo[t]) = "fork"
        BY <3>1 DEF TasksInv
      <4>2. todo'[t] = Tail(todo[t])
        BY <2>2, <4>1
      <4>3. Forking(todo[t]) \/ (NoChildren(t) /\ Leaf(Tail(todo[t])))
        BY <2>1, <3>1, <4>1, LeafTail DEF TasksInv
      <4> QED
        BY <2>1, <4>1, <4>2, <4>3, ForkingTail
    <3>2. CASE state[t] = "call" /\ Head(todo[t]) \notin {"fork", "wait", "exit_group"}
      BY <2>1, <2>2, <3>2, ShapeInCall, LeafTail
    <3> QED
      BY <1>3, <3>1, <3>2 DEF SysExit
  <2>4. UNCHANGED parent /\ state' = [state EXCEPT ![t] = "user"]
    BY <1>3 DEF SysExit, Resume
  <2> QED
    BY <2>2, <2>3, <2>4 DEF TasksInv, NoChildren, TypeOK
<1>4. ASSUME NEW t \in Tids, Wait(t) PROVE TasksInv'
  <2>1. todo[t] # <<>> /\ todo[t] \in Seq(Calls) /\ Forking(todo[t])
    BY <1>4, ShapeInCall DEF Wait, TypeOK
  <2>2. \A u \in Tids : u # t => todo'[u] = todo[u]
    BY <1>4 DEF Wait, Return, TypeOK
  <2>3. CASE NoChildren(t) /\ Resume(t) /\ Return(t, Tail(todo[t]))
    <3>1. Leaf(todo'[t])
      BY <1>4, <2>1, <2>3, ForkingTail DEF Wait, Return, TypeOK
    <3> QED
      BY <2>2, <2>3, <3>1 DEF TasksInv, NoChildren, TypeOK, Resume
  <2>4. ASSUME NEW c \in Tids, parent[c] = t, state[c] = "zombie",
               state' = [Free(c) EXCEPT ![t] = "user"],
               parent' = [parent EXCEPT ![c] = None], Return(t, todo[t])
        PROVE  TasksInv'
    <3>1. todo' = todo /\ c # t
      BY <1>4, <2>4 DEF Return, Wait, TypeOK
    <3>2. /\ state'[t] = "user" /\ state'[c] = "free"
          /\ \A u \in Tids : u # t /\ u # c => state'[u] = state[u]
      BY <2>4, <3>1 DEF Free, TypeOK
    <3>3. parent'[c] = None /\ \A u \in Tids : u # c => parent'[u] = parent[u]
      BY <2>4 DEF TypeOK
    <3>4. \A u \in Tids : NoChildren(u) => NoChildren(u)'
      BY <3>3 DEF NoChildren
    <3> QED
      BY <2>1, <2>4, <3>1, <3>2, <3>3, <3>4 DEF TasksInv
  <2> QED
    BY <1>4, <2>3, <2>4 DEF Wait, NoChildren
<1>5. ASSUME NEW t \in Tids, ExitGroup(t) PROVE TasksInv'
  <2>1. NoChildren(t)
    BY <1>5, ShapeInCall DEF ExitGroup
  <2> QED
    BY <1>5, <2>1, EmptyShape DEF TasksInv, ExitGroup, NoChildren, TypeOK
<1>6. ASSUME Popen PROVE TasksInv'
  <2>1. PICK t \in Tids : Birth(t, None, Program) /\ state' = [state EXCEPT ![t] = "forked"]
    BY <1>6 DEF Popen
  <2>2. /\ Head(todo'[t]) = "fork"
        /\ Forking(todo'[t]) \/ Leaf(Tail(todo'[t]))
        /\ \A u \in Tids : u # t => todo'[u] = todo[u]
    BY <2>1, ProgramShape, Created DEF TypeOK, Birth
  <2>3. NoChildren(t)
    BY <2>1, GoneIsChildless DEF Birth
  <2>4. parent'[t] = None /\ \A u \in Tids : u # t => parent'[u] = parent[u]
    BY <2>1 DEF Birth, TypeOK
  <2>5. \A u \in Tids : NoChildren(u) => NoChildren(u)'
    BY <2>4 DEF NoChildren
  <2> QED
    BY <2>1, <2>2, <2>3, <2>4, <2>5 DEF TasksInv, TypeOK
<1>7. ASSUME Reap PROVE TasksInv'
  <2>1. p \in Tids /\ parent[p] = None /\ todo[p] = <<>>
    BY <1>7 DEF TreeInv, TasksInv, Reap
  <2> QED
    BY <1>7, <2>1 DEF TasksInv, NoChildren, Reap, Free, TypeOK
<1>8. ASSUME Poll \/ Flush \/ NextRun \/ NextTest \/ Done PROVE TasksInv'
  BY <1>8 DEF TasksInv, NoChildren, Poll, Flush, NextRun, NextTest, Done, vars, tasks
<1> QED
  BY <1>1, <1>2, <1>3, <1>4, <1>5, <1>6, <1>7, <1>8 DEF Next, ScriptStep, TaskStep

(* A task that takes a step is one of a run, and the script is polling.    *)
LEMMA InRun ==
  ASSUME TreeInv, NEW t \in Tids, state[t] # "free"
  PROVE  script = "poll" /\ p \in Tids /\ parent[p] = None /\ state[p] # "free"
BY DEF TreeInv

LEMMA TreeStep == TypeOK /\ TasksInv /\ TreeInv /\ Next => TreeInv'
<1> SUFFICES ASSUME TypeOK, TasksInv, TreeInv, Next PROVE TreeInv'
  OBVIOUS
<1> USE TracerAssumption
<1>1. ASSUME NEW t \in Tids, state[t] # "free", UNCHANGED <<loop, parent>>,
             \A u \in Tids : state'[u] = "free" <=> state[u] = "free",
             \A u \in Tids : Forking(todo'[u]) => Forking(todo[u])
      PROVE  TreeInv'
  <2>1. script = "poll" /\ p \in Tids
    BY <1>1, InRun
  <2> QED
    BY <1>1, <2>1 DEF TreeInv, loop
<1>2. ASSUME NEW t \in Tids, SysEnter(t) PROVE TreeInv'
  <2>1. state[t] # "free" /\ UNCHANGED <<loop, parent, todo>>
    BY <1>2 DEF SysEnter
  <2>2. \A u \in Tids : state'[u] = "free" <=> state[u] = "free"
    BY <1>2 DEF SysEnter, TypeOK
  <2> QED
    BY <1>1, <2>1, <2>2
<1>3. ASSUME NEW t \in Tids, Fork(t) PROVE TreeInv'
  <2>1. Forking(todo[t]) /\ state[t] # "free" /\ UNCHANGED loop
    BY <1>3, ShapeInCall DEF Fork
  <2>2. CASE UNCHANGED <<parent, todo>> /\ state' = [state EXCEPT ![t] = "forked"]
    <3>1. \A u \in Tids : state'[u] = "free" <=> state[u] = "free"
      BY <2>1, <2>2 DEF TypeOK
    <3> QED
      BY <1>1, <2>1, <2>2, <3>1
  <2>3. ASSUME NEW c \in Tids, Birth(c, t, ChildProgram(t)),
               state' = [state EXCEPT ![t] = "forked", ![c] = "forked"]
        PROVE  TreeInv'
    <3>1. script = "poll" /\ p \in Tids /\ parent[p] = None /\ state[p] # "free"
      BY <2>1, InRun
    <3>2. t = p \/ parent[t] = p
      BY <2>1 DEF TreeInv
    <3>3. t = p \/ ~Forking(todo'[c])
      <4>1. ASSUME t # p PROVE Leaf(ChildProgram(t)) /\ ChildProgram(t) \in Seq(Calls)
        BY <4>1, ChildProgramShape DEF TypeOK
      <4>2. ASSUME t # p PROVE ~Forking(todo'[c])
        <5>1. todo'[c] = <<"fork">> \o ChildProgram(t)
          BY <2>3 DEF Birth, TypeOK
        <5>2. Leaf(Tail(todo'[c])) /\ Head(todo'[c]) = "fork" /\ todo'[c] \in Seq(Calls)
          BY <4>1, <4>2, <5>1, Created
        <5>3. Tail(todo'[c]) \in Seq(Calls)
          BY <4>1, <4>2, <5>1, Created
        <5>4. ~(Leaf(Tail(todo'[c])) /\ Forking(Tail(todo'[c])))
          BY DEF Leaf, Forking
        <5> QED
          BY <5>2, <5>4, ForkingTail
      <4> QED
        BY <4>2
    <3>4. /\ parent'[c] = t
          /\ \A u \in Tids : u # c => parent'[u] = parent[u] /\ todo'[u] = todo[u]
      BY <2>3 DEF Birth, TypeOK
    <3>5. state[c] = "free" /\ NoChildren(c) /\ c # t /\ c # p
      BY <2>1, <2>3, <3>1, GoneIsChildless DEF Birth
    <3>6. /\ state'[t] = "forked" /\ state'[c] = "forked"
          /\ \A u \in Tids : u # t /\ u # c => state'[u] = state[u]
      BY <2>3 DEF TypeOK
    <3>7. ASSUME NEW u \in Tids, state'[u] # "free", u # p
          PROVE  \/ parent'[u] = p
                 \/ parent'[u] \in Tids /\ parent'[parent'[u]] = p /\ ~Forking(todo'[u])
      <4>1. CASE u = c
        BY <3>2, <3>3, <3>4, <3>5, <4>1
      <4>2. CASE u # c
        <5>1. state[u] # "free" /\ parent'[u] = parent[u] /\ todo'[u] = todo[u]
          BY <2>1, <3>4, <3>6, <3>7, <4>2
        <5>2. parent[u] # c
          BY <3>5 DEF NoChildren
        <5> QED
          BY <3>4, <3>7, <5>1, <5>2 DEF TreeInv
      <4> QED
        BY <4>1, <4>2
    <3> QED
      BY <2>1, <3>1, <3>4, <3>5, <3>6, <3>7 DEF TreeInv, loop
  <2> QED
    BY <1>3, <2>2, <2>3 DEF Fork
<1>4. ASSUME NEW t \in Tids, SysExit(t) PROVE TreeInv'
  <2>1. todo[t] # <<>> /\ todo[t] \in Seq(Calls) /\ state[t] # "free"
    BY <1>4 DEF SysExit, TypeOK
  <2>2. /\ \A u \in Tids : u # t => todo'[u] = todo[u]
        /\ \/ todo'[t] = Tail(todo[t])
           \/ Head(todo[t]) = "open" /\ todo'[t] = SubSeq(todo[t], 5, Len(todo[t]))
    BY <1>4 DEF SysExit, Return, TypeOK
  <2>3. Forking(todo'[t]) => Forking(todo[t])
    <3>1. \A s \in Seq(Calls) : ~(Leaf(s) /\ Forking(s))
      BY DEF Leaf, Forking
    <3>2. /\ Tail(todo[t]) \in Seq(Calls) /\ SubSeq(todo[t], 5, Len(todo[t])) \in Seq(Calls)
      BY <2>1
    <3>3. CASE Leaf(todo[t])
      BY <2>1, <2>2, <3>1, <3>2, <3>3, LeafTail
    <3>4. CASE state[t] = "forked" /\ Leaf(Tail(todo[t]))
      <4>1. todo'[t] = Tail(todo[t])
        BY <2>2, <3>4 DEF TasksInv
      <4> QED
        BY <3>1, <3>2, <3>4, <4>1
    <3> QED
      BY <3>3, <3>4 DEF TasksInv
  <2>4. UNCHANGED <<loop, parent>> /\ state' = [state EXCEPT ![t] = "user"]
    BY <1>4 DEF SysExit, Return, Resume
  <2>5. \A u \in Tids : state'[u] = "free" <=> state[u] = "free"
    BY <2>1, <2>4 DEF TypeOK
  <2> QED
    BY <1>1, <2>1, <2>2, <2>3, <2>4, <2>5
<1>5. ASSUME NEW t \in Tids, Wait(t) PROVE TreeInv'
  <2>1. state[t] # "free" /\ UNCHANGED loop /\ Forking(todo[t])
    BY <1>5, ShapeInCall DEF Wait, Return
  <2>2. script = "poll" /\ p \in Tids /\ parent[p] = None /\ state[p] # "free"
    BY <2>1, InRun
  <2>3. \A u \in Tids : Forking(todo'[u]) => Forking(todo[u])
    BY <1>5, <2>1 DEF Wait, Return, TypeOK
  <2>4. CASE NoChildren(t) /\ Resume(t)
    <3>1. \A u \in Tids : state'[u] = "free" <=> state[u] = "free"
      BY <2>1, <2>4 DEF Resume, TypeOK
    <3> QED
      BY <1>1, <2>1, <2>3, <2>4, <3>1 DEF Resume
  <2>5. ASSUME NEW c \in Tids, parent[c] = t, state[c] = "zombie",
               state' = [Free(c) EXCEPT ![t] = "user"],
               parent' = [parent EXCEPT ![c] = None]
        PROVE  TreeInv'
    <3>1. c # p /\ NoChildren(c) /\ c # t
      BY <1>5, <2>2, <2>5, GoneIsChildless DEF Wait
    <3>2. /\ state'[t] = "user" /\ state'[c] = "free"
          /\ \A u \in Tids : u # t /\ u # c => state'[u] = state[u]
      BY <2>5, <3>1 DEF Free, TypeOK
    <3>3. parent'[c] = None /\ \A u \in Tids : u # c => parent'[u] = parent[u]
      BY <2>5 DEF TypeOK
    <3>4. ASSUME NEW u \in Tids, state'[u] # "free", u # p
          PROVE  \/ parent'[u] = p
                 \/ parent'[u] \in Tids /\ parent'[parent'[u]] = p /\ ~Forking(todo'[u])
      <4>1. u # c /\ state[u] # "free" /\ parent'[u] = parent[u] /\ parent[u] # c
        BY <2>1, <3>1, <3>2, <3>3, <3>4 DEF NoChildren
      <4> QED
        BY <2>3, <3>3, <3>4, <4>1 DEF TreeInv
    <3> QED
      BY <2>1, <2>2, <3>1, <3>2, <3>3, <3>4 DEF TreeInv, loop
  <2> QED
    BY <1>5, <2>4, <2>5 DEF Wait, NoChildren
<1>6. ASSUME NEW t \in Tids, ExitGroup(t) PROVE TreeInv'
  <2>1. state[t] # "free" /\ UNCHANGED <<loop, parent>>
    BY <1>6 DEF ExitGroup
  <2>2. \A u \in Tids : state'[u] = "free" <=> state[u] = "free"
    BY <1>6 DEF ExitGroup, TypeOK
  <2>3. \A u \in Tids : Forking(todo'[u]) => Forking(todo[u])
    BY <1>6, EmptyShape DEF ExitGroup, TypeOK
  <2> QED
    BY <1>1, <2>1, <2>2, <2>3
<1>7. ASSUME Popen PROVE TreeInv'
  <2>1. PICK t \in Tids :
          Birth(t, None, Program) /\ state' = [state EXCEPT ![t] = "forked"] /\ p' = t
    BY <1>7 DEF Popen
  <2>2. /\ parent'[t] = None /\ state'[t] = "forked" /\ script' = "poll"
        /\ \A u \in Tids : u # t => state'[u] = "free"
    BY <1>7, <2>1 DEF Popen, Birth, TypeOK, TreeInv
  <2> QED
    BY <2>1, <2>2 DEF TreeInv
<1>8. ASSUME Reap PROVE TreeInv'
  <2>1. p \in Tids /\ state[p] = "zombie"
    BY <1>8 DEF Reap, TreeInv
  <2>2. NoChildren(p)
    BY <2>1, GoneIsChildless
  <2>3. \A t \in Tids : t # p => state[t] = "free"
    BY <2>2 DEF TreeInv, NoChildren
  <2>4. p' = None /\ script' = "flush" /\ \A t \in Tids : state'[t] = "free"
    BY <1>8, <2>1, <2>3 DEF Reap, Free, TypeOK
  <2> QED
    BY <2>4 DEF TreeInv
<1>9. ASSUME Poll PROVE TreeInv'
  BY <1>9 DEF TreeInv, Poll, loop, tasks
<1>10. ASSUME Flush \/ NextRun \/ NextTest \/ Done PROVE TreeInv'
  <2>1. /\ script # "poll" /\ script' # "poll" /\ UNCHANGED <<p, tasks>>
    BY <1>10 DEF Flush, NextRun, NextTest, Done, vars, loop
  <2> QED
    BY <2>1 DEF TreeInv, tasks
<1> QED
  BY <1>2, <1>3, <1>4, <1>5, <1>6, <1>7, <1>8, <1>9, <1>10 DEF Next, ScriptStep, TaskStep

LEMMA RingStep == TreeInv /\ RingInv /\ Next => RingInv'
<1> SUFFICES ASSUME TreeInv, RingInv, Next PROVE RingInv'
  OBVIOUS
<1>1. ASSUME NEW t \in Tids, TaskStep(t) PROVE RingInv'
  <2>1. state[t] # "free" /\ UNCHANGED loop
    BY <1>1 DEF TaskStep, SysEnter, Fork, SysExit, Wait, ExitGroup, Return
  <2> QED
    BY <2>1, InRun DEF RingInv, loop
<1>2. CASE ScriptStep \/ Done
  BY <1>2 DEF RingInv, ScriptStep, Popen, Poll, Reap, Flush, NextRun, NextTest, Done,
              vars, loop, probes
<1> QED
  BY <1>1, <1>2 DEF Next

--------------------------------------------------------------------------------
TracerInv ==
  /\ TypeOK
  /\ EntryOwners /\ StaleInv
  /\ TasksInv /\ TreeInv /\ RingInv

LEMMA TracerInvariant == Spec => []TracerInv
<1>1. Init => TracerInv
  <2>1. Init => EntryOwners /\ StaleInv
    BY FS_EmptySet DEF Init, EntryOwners, StaleInv
  <2> QED
    BY <2>1, TypeInit, TreeInit DEF TracerInv
<1>2. TracerInv /\ [Next]_vars => TracerInv'
  <2>1. TracerInv /\ Next => TracerInv'
    <3>1. TracerInv => (script = "poll" => p \in Tids)
      BY DEF TracerInv, TreeInv
    <3> QED
      BY <3>1, TypeStep, OwnersStep, StaleStep, TasksStep, TreeStep, RingStep DEF TracerInv
  <2>2. TracerInv /\ UNCHANGED vars => TracerInv'
    BY DEF TracerInv, TypeOK, EntryOwners, StaleInv, TasksInv, TreeInv, RingInv,
           NoChildren, vars, loop, tasks, probes
  <2> QED
    BY <2>1, <2>2
<1> QED
  BY <1>1, <1>2, PTL DEF Spec

(* Every variable of the tracer holds a value of its type, the map and the *)
(* ring stay within their capacity.                                        *)
THEOREM TypeCorrect == Spec => []TypeOK
BY TracerInvariant, PTL DEF TracerInv

(* The entries of the map start are those of the calls in progress and     *)
(* those that processes left when they ended.                              *)
THEOREM EntriesAreOwned == Spec => []EntryOwners
BY TracerInvariant, PTL DEF TracerInv

(* The probe on sys_enter finds the map full only when calls in progress   *)
(* and ended processes fill it.                                            *)
THEOREM RefusalsAreJustified == Spec => RefusedOnlyWhenFull
<1>1. TracerInv /\ [Next]_vars =>
        \A t \in Tids :
           state[t] = "user" /\ state'[t] = "call" /\ t \notin start' =>
             ended + Cardinality({u \in Alive : state[u] # "user"}) >= MAX_ENTRIES
  BY RefusedStep DEF TracerInv
<1> QED
  BY <1>1, TracerInvariant, PTL DEF Spec, RefusedOnlyWhenFull

(* The script launches a program when no process of the runs before it is  *)
(* left and it has taken all their events.                                 *)
THEOREM RunsStartClean == Spec => []RunStartsClean
<1>1. TracerInv => RunStartsClean
  BY DEF TracerInv, TreeInv, RingInv, RunStartsClean
<1> QED
  BY <1>1, TracerInvariant, PTL
================================================================================
