------------------------------- MODULE MCHarness -------------------------------
(* Harness with a solo run and one with a stressor of each kind, on a      *)
(* machine whose interface is as the kernel makes it or tuned.             *)
EXTENDS Harness

SoloAndStressed == <<0, 1>>
PlainOrTuned == {[qdisc |-> "default", offloads |-> "on"], [qdisc |-> "own", offloads |-> "mixed"]}
===============================================================================
