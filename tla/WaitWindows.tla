------------------------------ MODULE WaitWindows ------------------------------
(***************************************************************************)
(* The interval arithmetic of tests/noise_free_makespan.py.  A history is  *)
(* the sequence of <<time, cgroup>> services a resource has given, oldest  *)
(* first; a wait runs from a start to a completion, and the operators say  *)
(* which part of it others are charged for.                                *)
(*                                                                         *)
(* Time is in whole nanoseconds, so a half-open interval [a, b) is the set *)
(* of the instants a, ..., b - 1, a union of intervals is a union of sets, *)
(* and interval_sum is the number of elements.                             *)
(***************************************************************************)
EXTENDS Integers, Sequences, FiniteSetsExt

CONSTANT
  NoAttribution  \* the --no-attribution ablation: charge one's own services too

ASSUME AttributionAssumption == NoAttribution \in BOOLEAN

ClosedOpen(a, b) == a .. b - 1

(* The two bisections.  On a history in order of time the entries before a *)
(* are history[:left], and those of the window history[left:right].        *)
Before(history, a) == {i \in DOMAIN history : history[i].ts < a}
Window(history, a, b) == {i \in DOMAIN history : a <= history[i].ts /\ history[i].ts < b}

(* Mutant of Charged: one's own services are charged too.                  *)
ChargedAlways(entry, mine) == TRUE

Charged(entry, mine) == NoAttribution \/ entry.cg # mine

(* The leading slice of the CPU and of the disk: the last service before   *)
(* the start still goes on, until the next one.                            *)
(* Mutant of LeadEnd: the leading slice lasts until the completion.        *)
LeadToCompletion(history, a, b) == b

LeadEnd(history, a, b) ==
  LET window == Window(history, a, b)
  IN  IF window = {} THEN b ELSE history[Min(window)].ts

(* Mutant of LeadSlice: it begins with the service, before the start.      *)
LeadFromService(history, a, b, mine) ==
  LET before == Before(history, a)
  IN  IF before # {} /\ Charged(history[Max(before)], mine)
      THEN ClosedOpen(history[Max(before)].ts, LeadEnd(history, a, b))
      ELSE {}

LeadSlice(history, a, b, mine) ==
  LET before == Before(history, a)
  IN  IF before # {} /\ Charged(history[Max(before)], mine)
      THEN ClosedOpen(a, LeadEnd(history, a, b))
      ELSE {}

(* Mutant of SliceEnd: a slice lasts until the completion, as a span does. *)
SliceToCompletion(history, i, a, b) == b

(* The CPU's slices: each charged switch-in until the next switch-in, or   *)
(* until the completion if it is the last.                                 *)
SliceEnd(history, i, a, b) ==
  IF i + 1 \in Window(history, a, b) THEN history[i + 1].ts ELSE b

(* Mutant of Slices: each slice begins an instant early.                   *)
SlicesEarly(history, a, b, mine) ==
  UNION {ClosedOpen(history[i].ts - 1, SliceEnd(history, i, a, b)) :
           i \in {j \in Window(history, a, b) : Charged(history[j], mine)}}

Slices(history, a, b, mine) ==
  UNION {ClosedOpen(history[i].ts, SliceEnd(history, i, a, b)) :
           i \in {j \in Window(history, a, b) : Charged(history[j], mine)}}

(* Mutant of Spans: each span begins an instant early.                     *)
SpansEarly(history, a, b, mine) ==
  UNION {ClosedOpen(history[i].ts - 1, b) :
           i \in {j \in Window(history, a, b) : Charged(history[j], mine)}}

(* The spans of the two queues: each charged service until the completion. *)
Spans(history, a, b, mine) ==
  UNION {ClosedOpen(history[i].ts, b) :
           i \in {j \in Window(history, a, b) : Charged(history[j], mine)}}

-------------------------------------------------------------------------------
(* What the arithmetic is to compute, instant by instant.                  *)

InOrder(history) ==
  \A i, j \in DOMAIN history : i <= j => history[i].ts <= history[j].ts

(* Entry i is the last service at or before instant p.                     *)
Current(history, i, p) ==
  /\ history[i].ts <= p
  /\ i + 1 \in DOMAIN history => p < history[i + 1].ts

(* The resource is held by a service that is charged to mine.              *)
HeldAt(history, p, mine) ==
  \E i \in DOMAIN history : Current(history, i, p) /\ Charged(history[i], mine)
===============================================================================
