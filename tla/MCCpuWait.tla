------------------------------- MODULE MCCpuWait -------------------------------
(* CpuWait with two threads of the measured cgroup, so that one waits      *)
(* while its sibling runs, and one of another.                             *)
EXTENDS CpuWait, TLC

CONSTANTS w1, w2, n1

Victim == 2
Noise == 3
CgroupOfThread == [t \in {w1, w2, n1} |-> IF t = n1 THEN Noise ELSE Victim]

Symmetry == Permutations(Cpus) \cup Permutations({w1, w2})
===============================================================================
