------------------------------- MODULE MCTracer --------------------------------
(* Tracer on two CPUs.  No program starts once two or three records were   *)
(* wanted, so that up to four or five can be; with two slots the ring can  *)
(* be full, hold a reserved record in front of a submitted one, and lose   *)
(* the first or the second record of a sched_switch.  A buffer of four     *)
(* fragments is flushed in the middle of the second line and between the   *)
(* third and the fourth.                                                   *)
EXTENDS Tracer
===============================================================================
