---------------------------- MODULE MCSchedCapture ----------------------------
(* SchedCapture with a thread of the measured container, one of another    *)
(* and a root thread on two CPUs.                                          *)
EXTENDS SchedCapture, TLC

CONSTANTS v, n, r

Victim == 2
Noise == 3
CgroupOfThread ==
  (v :> Victim) @@ (n :> Noise) @@ (r :> Root) @@ (Idle :> Root)

Symmetry == Permutations(Cpus)
===============================================================================
