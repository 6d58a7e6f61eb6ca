------------------------------- MODULE MCSoftirq -------------------------------
(* Softirq with both cgroups measured, so that the work of one is the      *)
(* other's noise.                                                          *)
EXTENDS Softirq, TLC

Symmetry == Permutations(Cpus)
===============================================================================
