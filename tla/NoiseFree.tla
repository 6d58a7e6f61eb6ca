------------------------------- MODULE NoiseFree -------------------------------
(***************************************************************************)
(* NoiseFreeAnalyzer as a whole: one sorted trace goes through the         *)
(* handlers of CpuWait, of QueueWait once for packets and once for block   *)
(* requests, and of Softirq, which share the clock of the trace; what they *)
(* charge is merged, clamped to the lifetime of the cgroup and taken off   *)
(* its makespan.                                                           *)
(*                                                                         *)
(* Every prefix of a trace is a trace, so _compute_results is a set of     *)
(* operators on the state and not a last step, and the first pass, which   *)
(* collects the lifetimes, advances together with the second.              *)
(***************************************************************************)
EXTENDS Softirq

CONSTANTS
  Tids,
  CgOf,          \* the cgroup of each thread
  Skbs,          \* addresses of packets
  Requests       \* addresses of block requests

Root == 1        \* the cgroup an interrupted kernel thread is in

ASSUME RootAssumption == Root \notin Cgroups
ASSUME ThreadsAssumption == CgOf \in [Tids -> Cgroups]
ASSUME MeasuredAssumption == Targets \subseteq {CgOf[t] : t \in Tids}

VARIABLES
  pending_enqueues, cpu_switch_history, cpu_waits,
  pending_packets, net_dequeue_history, net_waits,
  pending_block_requests, block_issue_history, bio_waits,
  cgroup_time_range,   \* the first and the last timestamp stamped with each cgroup
  outstanding          \* history: the instants of each cgroup's matched waits

cpuVars == <<pending_enqueues, cpu_switch_history, cpu_waits>>
netVars == <<pending_packets, net_dequeue_history, net_waits>>
bioVars == <<pending_block_requests, block_issue_history, bio_waits>>
vars == <<now, events, cpuVars, netVars, bioVars, softirqVars, cgroup_time_range, outstanding>>

Cpu == INSTANCE CpuWait
Net == INSTANCE QueueWait WITH
  Keys <- Skbs, device <- "net", pending <- pending_packets,
  history <- net_dequeue_history, queue_waits <- net_waits
Disk == INSTANCE QueueWait WITH
  Keys <- Requests, device <- "block", pending <- pending_block_requests,
  history <- block_issue_history, queue_waits <- bio_waits

NotSeen == [first |-> 0, last |-> 0, seen |-> FALSE]

Init ==
  /\ Cpu!Init
  /\ Net!Init
  /\ Disk!Init
  /\ SoftirqInit
  /\ cgroup_time_range = [g \in Cgroups |-> NotSeen]
  /\ outstanding = [g \in Cgroups |-> {}]

-------------------------------------------------------------------------------

(* _detect_cgroups, for an event stamped with cg.                          *)
Stamped(cg, ts) ==
  cgroup_time_range' =
    [g \in Cgroups |->
       IF g # cg THEN cgroup_time_range[g]
       ELSE [first |-> IF cgroup_time_range[g].seen THEN cgroup_time_range[g].first ELSE ts,
             last |-> ts, seen |-> TRUE]]

(* The wait of cg that began at start, if it began, is over at ts.         *)
Matched(start, cg, ts) ==
  outstanding' = IF start = -1 THEN outstanding
                 ELSE [outstanding EXCEPT ![cg] = @ \cup ClosedOpen(start, ts)]

(* An enqueue event carries the cgroup of its thread when the thread was   *)
(* woken, but that of the thread that took its CPU when it was preempted.  *)
Enqueue(t, stamp, ts) ==
  /\ Cpu!HandleEnqueue(t, ts)
  /\ Stamped(stamp, ts)
  /\ UNCHANGED <<netVars, bioVars, softirqVars, outstanding>>

Switch(t, c, ts) ==
  /\ Cpu!HandleSwitch(t, c, ts)
  /\ Stamped(CgOf[t], ts)
  /\ Matched(pending_enqueues[t], CgOf[t], ts)
  /\ UNCHANGED <<netVars, bioVars, softirqVars>>

NetQueue(k, cg, ts) ==
  /\ Net!HandleStart(k, cg, ts)
  /\ Stamped(cg, ts)
  /\ UNCHANGED <<cpuVars, bioVars, softirqVars, outstanding>>

NetDequeue(k, cg, c, ts) ==
  /\ Net!HandleService(k, cg, ts)
  /\ RecordEvent(cg, c, ts)
  /\ Stamped(cg, ts)
  /\ Matched(pending_packets[k].ts, pending_packets[k].cg, ts)
  /\ UNCHANGED <<cpuVars, bioVars>>

BlockInsert(k, cg, ts) ==
  /\ Disk!HandleStart(k, cg, ts)
  /\ Stamped(cg, ts)
  /\ UNCHANGED <<cpuVars, netVars, softirqVars, outstanding>>

BlockIssue(k, cg, c, ts) ==
  /\ Disk!HandleService(k, cg, ts)
  /\ RecordEvent(cg, c, ts)
  /\ Stamped(cg, ts)
  /\ Matched(pending_block_requests[k].ts, pending_block_requests[k].cg, ts)
  /\ UNCHANGED <<cpuVars, netVars>>

(* A softirq runs on top of whatever thread it interrupts, and its events  *)
(* carry the cgroup of that thread.                                        *)
SoftirqEntry(c, stamp, ts) ==
  /\ HandleEntry(c, ts)
  /\ Stamped(stamp, ts)
  /\ UNCHANGED <<cpuVars, netVars, bioVars, outstanding>>

SoftirqExit(c, stamp, ts) ==
  /\ HandleExit(c, ts)
  /\ Stamped(stamp, ts)
  /\ UNCHANGED <<cpuVars, netVars, bioVars, outstanding>>

Next ==
  \E ts \in 0 .. MaxTime, c \in Cpus, cg \in Cgroups :
    \/ \E t \in Tids : Enqueue(t, cg, ts) \/ Switch(t, c, ts)
    \/ \E k \in Skbs : NetQueue(k, cg, ts) \/ NetDequeue(k, cg, c, ts)
    \/ \E k \in Requests : BlockInsert(k, cg, ts) \/ BlockIssue(k, cg, c, ts)
    \/ \E stamp \in {cg, Root} : SoftirqEntry(c, stamp, ts) \/ SoftirqExit(c, stamp, ts)

Spec == Init /\ [][Next]_vars

-------------------------------------------------------------------------------
(* _compute_results.                                                       *)

Span(g) == ClosedOpen(cgroup_time_range[g].first, cgroup_time_range[g].last)

original_makespan(g) == cgroup_time_range[g].last - cgroup_time_range[g].first

total_unique_wait(g) ==
  cpu_waits[g] \cup net_waits[g] \cup bio_waits[g] \cup softirq_other[g]
    \cup (IF NoAttribution THEN softirq_self[g] ELSE {})

(* Mutant of Removed: no clamp to the lifetime.                            *)
RemovedUnclamped(g) == total_unique_wait(g)

(* The instants that are taken off the makespan.                           *)
Removed(g) == total_unique_wait(g) \cap Span(g)

noise_free_makespan(g) == original_makespan(g) - Cardinality(Removed(g))

-------------------------------------------------------------------------------

TypeOK ==
  /\ Cpu!TypeOK
  /\ Net!TypeOK
  /\ Disk!TypeOK
  /\ SoftirqTypeOK
  /\ cgroup_time_range \in [Cgroups -> [first : Nat, last : Nat, seen : BOOLEAN]]
  /\ outstanding \in [Cgroups -> SUBSET Nat]

(* The assertions of _compute_results: whatever was charged where, what is *)
(* left of a makespan is neither negative nor more than the makespan.      *)
(* Softirqs of other CPUs, enqueues stamped with another's cgroup and      *)
(* reused addresses all charge instants outside the lifetime of a cgroup.  *)
NoiseFreeInBounds ==
  \A g \in Targets : noise_free_makespan(g) \in 0 .. original_makespan(g)

(* What is taken off for the CPU, the network and the disk lies in the     *)
(* waits of the cgroup, from a start to the completion matched with it.    *)
QueueWaitsAreOutstanding ==
  \A g \in Targets : cpu_waits[g] \cup net_waits[g] \cup bio_waits[g] \subseteq outstanding[g]

(* The waits for the CPU, the packets and the requests are each what an    *)
(* accounting kept as time passes would come to, with the events of all    *)
(* the others between their own: none of them delays, hides or moves a     *)
(* wait.                                                                   *)
WaitsAreExact ==
  Cpu!ImplementsOccupancy /\ Net!ImplementsOccupancy /\ Disk!ImplementsOccupancy

(* A solo run is the ground truth the experiments compare with: as long as *)
(* no CPU, queue or softirq has served any other cgroup nothing is taken   *)
(* off, however the cgroup's own threads, packets and requests wait for    *)
(* one another.                                                            *)
OnlyServed(g) ==
  /\ \A c \in Cpus : \A i \in DOMAIN cpu_switch_history[c] : cpu_switch_history[c][i].cg = g
  /\ \A i \in DOMAIN net_dequeue_history : net_dequeue_history[i].cg = g
  /\ \A i \in DOMAIN block_issue_history : block_issue_history[i].cg = g

SoloRunLosesNothing ==
  \A g \in Targets : OnlyServed(g) => noise_free_makespan(g) = original_makespan(g)

(* docs/IMPLEMENTATION_HANDOFF.md gives as the reason why nothing can be   *)
(* removed that was no waiting: every wait lies between a start and its    *)
(* completion, and those lie in the makespan.  Of what is removed in the   *)
(* end that would mean:                                                    *)
NoOverRemoval ==
  \A g \in Targets : Removed(g) \subseteq outstanding[g]
===============================================================================
