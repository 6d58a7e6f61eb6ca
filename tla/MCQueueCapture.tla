---------------------------- MODULE MCQueueCapture ----------------------------
(* QueueCapture with two addresses, so that one is served while the other  *)
(* waits, two sockets and room for one of them in the map.                 *)
EXTENDS QueueCapture, TLC

Symmetry == Permutations(Keys) \cup Permutations(Sockets)
===============================================================================
