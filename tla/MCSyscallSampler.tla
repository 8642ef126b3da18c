---------------------------- MODULE MCSyscallSampler ---------------------------
(* SyscallSampler for TLC: the rates of the run, in the order of the       *)
(* script.  Process ids are interchangeable.                               *)
EXTENDS SyscallSampler, TLC

Rates == <<1, 5, 6>>

PidSymmetry == Permutations(Pids)
================================================================================
