------------------------------ MODULE MCQueueWait ------------------------------
(* QueueWait with two addresses and two cgroups: an address can be reused  *)
(* by the other cgroup before its first packet was seen to leave.          *)
EXTENDS QueueWait, TLC

Symmetry == Permutations(Keys)
===============================================================================
