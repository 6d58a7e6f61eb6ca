---------------------------- MODULE QueueOccupancy -----------------------------
(***************************************************************************)
(* What waiting in a device's queue means to the analyzer.  A request      *)
(* stands behind others from the first service given to another cgroup     *)
(* since it was queued until it is served itself; on a device that serves  *)
(* one request at a time (lead) it also does while the service that was    *)
(* going on when it was queued is another's.  Services at the very instant *)
(* of the queueing count as given after it.  The instants add up as time   *)
(* passes; QueueWait, which looks back when the request is served,         *)
(* implements this.                                                        *)
(***************************************************************************)
EXTENDS Integers

CONSTANTS Keys, Cgroups, Targets, NoAttribution, NoCg

VARIABLES
  lead,          \* whether the device serves one request at a time
  now,           \* the time of the last event
  last,          \* the cgroup last served before this instant, or NoCg
  latest,        \* the cgroup last served at this instant, or NoCg
  served,        \* the cgroups served at this instant
  queued,        \* what is known of each queued request
  waits          \* the instants each cgroup has waited

vars == <<lead, now, last, latest, served, queued, waits>>

NotQueued == [cg |-> NoCg, place |-> "none", added |-> {}]

Init ==
  /\ lead \in BOOLEAN
  /\ now = 0
  /\ last = NoCg
  /\ latest = NoCg
  /\ served = {}
  /\ queued = [k \in Keys |-> NotQueued]
  /\ waits = [g \in Cgroups |-> {}]

Charged(cg, mine) == cg # NoCg /\ (NoAttribution \/ cg # mine)

(* Time passes until ts.                                                   *)
LastBy(ts) == IF ts > now /\ latest # NoCg THEN latest ELSE last
ServedBy(ts) == IF ts > now THEN {} ELSE served
Until(ts) ==
  [k \in Keys |->
     IF queued[k].place \in {"lead", "behind"}
     THEN [queued[k] EXCEPT !.added = @ \cup (now .. ts - 1)]
     ELSE queued[k]]

(* Where a request of cg that is queued at ts finds itself.                *)
Place(cg, ts) ==
  CASE \E g \in ServedBy(ts) : Charged(g, cg) -> "behind"
    [] ServedBy(ts) = {} /\ lead /\ Charged(LastBy(ts), cg) -> "lead"
    [] OTHER -> "clear"

(* Where a waiting request is once one of cg has been served.              *)
After(request, cg) ==
  CASE request.place # "none" /\ Charged(cg, request.cg) -> [request EXCEPT !.place = "behind"]
    [] request.place = "lead" /\ ~Charged(cg, request.cg) -> [request EXCEPT !.place = "clear"]
    [] OTHER -> request

Enqueue(k, cg, ts) ==
  /\ now <= ts /\ now' = ts
  /\ queued' = [Until(ts) EXCEPT ![k] = [cg |-> cg, place |-> Place(cg, ts), added |-> {}]]
  /\ last' = LastBy(ts)
  /\ latest' = IF ts > now THEN NoCg ELSE latest
  /\ served' = ServedBy(ts)
  /\ UNCHANGED <<lead, waits>>

Serve(k, cg, ts) ==
  /\ now <= ts /\ now' = ts
  /\ waits' = IF queued[k].place # "none" /\ queued[k].cg \in Targets
              THEN [waits EXCEPT ![queued[k].cg] = @ \cup Until(ts)[k].added]
              ELSE waits
  /\ queued' = [j \in Keys |-> IF j = k THEN NotQueued ELSE After(Until(ts)[j], cg)]
  /\ last' = LastBy(ts)
  /\ latest' = cg
  /\ served' = ServedBy(ts) \cup {cg}
  /\ UNCHANGED lead

Pass(ts) ==
  /\ now <= ts /\ now' = ts
  /\ queued' = Until(ts)
  /\ last' = LastBy(ts)
  /\ latest' = IF ts > now THEN NoCg ELSE latest
  /\ served' = ServedBy(ts)
  /\ UNCHANGED <<lead, waits>>

Next ==
  /\ now' \in Nat
  /\ \/ Pass(now')
     \/ \E k \in Keys, cg \in Cgroups : Enqueue(k, cg, now') \/ Serve(k, cg, now')

Spec == Init /\ [][Next]_vars
===============================================================================
