------------------------------ MODULE MCNoiseFree ------------------------------
(* NoiseFree with a thread of the measured cgroup and one of another on    *)
(* one CPU, one packet and one block request.                              *)
EXTENDS NoiseFree, TLC

CONSTANTS v, n

Victim == 2
Noise == 3
CgroupOfThread == [t \in {v, n} |-> IF t = n THEN Noise ELSE Victim]
===============================================================================
