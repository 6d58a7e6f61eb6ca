------------------------------- MODULE QueueWait -------------------------------
(***************************************************************************)
(* One queue of NoiseFreeAnalyzer: that of the network (_handle_net_queue  *)
(* and _handle_net_dequeue, keyed by the address of the packet) or that of *)
(* the disk (_handle_block_insert and _handle_block_issue, keyed by the    *)
(* address of the request).  The two differ in the leading slice only.     *)
(*                                                                         *)
(* The cgroup of a service need not be that of the start it is matched     *)
(* with: addresses are reused, and the tracer resolves the two cgroups     *)
(* separately.                                                             *)
(***************************************************************************)
EXTENDS WaitWindows

CONSTANTS
  Keys,          \* addresses
  Cgroups,
  Targets,       \* the cgroups that are measured
  MaxTime,       \* bound: timestamps
  MaxEvents      \* bound: events handled

ASSUME CgroupsAssumption == Cgroups \subseteq Nat \ {0}
ASSUME BoundAssumption == MaxTime \in Nat /\ MaxEvents \in Nat

VARIABLES
  device,        \* "net" or "block", for ever
  now,           \* the timestamp of the last event handled
  events,        \* how many events were handled
  pending,       \* the start no service has met yet, for each address
  history,       \* the services, oldest first
  queue_waits    \* cgroup_waits[cg].net or .bio

vars == <<device, now, events, pending, history, queue_waits>>

None == [ts |-> -1, cg |-> 0]

Init ==
  /\ device \in {"net", "block"}
  /\ now = 0
  /\ events = 0
  /\ pending = [k \in Keys |-> None]
  /\ history = <<>>
  /\ queue_waits = [g \in Cgroups |-> {}]

(* Mutant of Event: the trace is not sorted.                               *)
EventAsRecorded(ts) ==
  /\ events < MaxEvents
  /\ events' = events + 1
  /\ now' = ts

Event(ts) ==
  /\ events < MaxEvents
  /\ events' = events + 1
  /\ now <= ts
  /\ now' = ts

(* Mutant of HandleStart: the first start at an address is kept.           *)
StartKeepsFirst(k, cg, ts) ==
  /\ Event(ts)
  /\ pending' = [pending EXCEPT ![k] = IF @ = None THEN [ts |-> ts, cg |-> cg] ELSE @]
  /\ UNCHANGED <<device, history, queue_waits>>

(* A start replaces one at the same address that met no service.           *)
HandleStart(k, cg, ts) ==
  /\ Event(ts)
  /\ pending' = [pending EXCEPT ![k] = [ts |-> ts, cg |-> cg]]
  /\ UNCHANGED <<device, history, queue_waits>>

Lead == device = "block"

QueueCharge(h, a, b, mine) ==
  (IF Lead THEN LeadSlice(h, a, b, mine) ELSE {}) \cup Spans(h, a, b, mine)

(* The wait is charged to the cgroup of the start; the history takes that  *)
(* of the service.                                                         *)
HandleService(k, cg, ts) ==
  LET mine == pending[k].cg
  IN  /\ Event(ts)
      /\ pending' = [pending EXCEPT ![k] = None]
      /\ queue_waits' =
           IF pending[k] # None /\ mine \in Targets
           THEN [queue_waits EXCEPT ![mine] = @ \cup QueueCharge(history, pending[k].ts, ts, mine)]
           ELSE queue_waits
      /\ history' = Append(history, [ts |-> ts, cg |-> cg])
      /\ UNCHANGED device

(* An event of another queue, of a CPU or of a softirq.                    *)
OtherEvent(ts) == Event(ts) /\ UNCHANGED <<device, pending, history, queue_waits>>

Next ==
  \E ts \in 0 .. MaxTime :
    \/ OtherEvent(ts)
    \/ \E k \in Keys, cg \in Cgroups : HandleStart(k, cg, ts) \/ HandleService(k, cg, ts)

Spec == Init /\ [][Next]_vars

-------------------------------------------------------------------------------

TypeOK ==
  /\ device \in {"net", "block"}
  /\ now \in 0 .. MaxTime
  /\ events \in 0 .. MaxEvents
  /\ pending \in [Keys -> [ts : Nat, cg : Cgroups] \cup {None}]
  /\ history \in Seq([ts : Nat, cg : Cgroups])
  /\ queue_waits \in [Cgroups -> SUBSET Nat]

(* The services looked back at are in order of time, and none of them and  *)
(* no start lies in the future, whatever the order in the ring was.        *)
HistoryInOrder ==
  /\ InOrder(history)
  /\ \A i \in DOMAIN history : history[i].ts <= now
  /\ \A k \in Keys : pending[k].ts <= now

(* Looking back charges exactly what an accounting kept as time passes     *)
(* would: a request waits behind the first foreign service since its start *)
(* until its own, and on a disk behind the foreign service it found; its   *)
(* own cgroup's services neither start nor, once it stands behind others,  *)
(* end a wait.                                                             *)
NoCg == 0
ServedAt(t) == {i \in DOMAIN history : history[i].ts = t}
CgOfLast(services) == IF services = {} THEN NoCg ELSE history[Max(services)].cg

(* Where a start stands: behind a foreign service since, or behind the one *)
(* it found.                                                               *)
PlaceOf(p) ==
  LET since == {i \in DOMAIN history : history[i].ts >= p.ts}
      foreign == {i \in since : Charged(history[i], p.cg)}
      before == Before(history, p.ts)
  IN  CASE p = None -> "none"
        [] p # None /\ foreign # {} -> "behind"
        [] /\ p # None /\ Lead /\ since = {} /\ before # {}
           /\ Charged(history[Max(before)], p.cg) -> "lead"
        [] OTHER -> "clear"

(* What has added up by t, and where, as far as the history tells.         *)
QueuedBy(t) ==
  [k \in Keys |->
     [cg |-> pending[k].cg,
      place |-> PlaceOf(pending[k]),
      added |-> IF pending[k] = None THEN {}
                ELSE QueueCharge(history, pending[k].ts, t, pending[k].cg)]]

Accounting == INSTANCE QueueOccupancy WITH
  lead <- Lead,
  last <- CgOfLast(Before(history, now)),
  latest <- CgOfLast(ServedAt(now)),
  served <- {history[i].cg : i \in ServedAt(now)},
  queued <- QueuedBy(now),
  waits <- queue_waits

ImplementsOccupancy == Accounting!Spec
===============================================================================
