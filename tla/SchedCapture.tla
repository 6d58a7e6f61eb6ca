----------------------------- MODULE SchedCapture ------------------------------
(***************************************************************************)
(* What is recorded of the scheduler, and what becomes of it: threads that *)
(* block, wake, wait, run, are preempted and moved between CPUs; the hooks *)
(* handle_enqueue_task and handle_sched_switch of src/puretime.bpf.c,      *)
(* which see some of it; and the analyzer, CpuWait, which sees the events. *)
(* Beside them the truth is kept, instant by instant: who waited, and      *)
(* behind whom.                                                            *)
(*                                                                         *)
(* The kernel is the environment, modelled from how the hooks are attached *)
(* and what they read.  A hook runs under the lock of a run queue and      *)
(* takes no time here; its events are handled before the kernel's next     *)
(* step, which is no restriction: the analyzer looks at nothing but the    *)
(* trace.  No event is lost (a trace with losses is rejected).             *)
(***************************************************************************)
EXTENDS Integers, SequencesExt

CONSTANTS
  Cpus,
  Threads,         \* every thread but the idle ones
  CgOf,            \* the cgroup of each thread, Idle included
  Targets,         \* the cgroups that are measured
  NoAttribution,   \* the ablation of WaitWindows
  MaxTime,         \* bound: the last instant
  MaxEvents        \* bound: events recorded

Idle == "idle"     \* the idle task of each CPU, tid 0
Root == 1          \* the id of the root cgroup
NoCpu == "none"    \* the CPU of a thread that is not on a run queue

Tids == Threads \cup {Idle}

ASSUME TidsAssumption == Idle \notin Threads /\ NoCpu \notin Cpus
ASSUME CgroupAssumption == CgOf \in [Tids -> Nat \ {0}] /\ CgOf[Idle] = Root
ASSUME BoundAssumption == MaxTime \in Nat /\ MaxEvents \in Nat
ASSUME AttributionAssumption == NoAttribution \in BOOLEAN

(* A container's cgroup is neither 0 nor 1, which analyze_file leaves out  *)
(* when it chooses the cgroups itself.                                     *)
ASSUME TargetsAssumption == Targets \subseteq {CgOf[t] : t \in Threads} \ {Root}

VARIABLES
  clock,           \* bpf_ktime_get_ns
  running,         \* the thread on each CPU
  queued,          \* the CPU on whose run queue each thread waits, or NoCpu
  trace,           \* events recorded and not handled by the analyzer yet
  now, events, pending_enqueues, cpu_switch_history, cpu_waits,
  \* The truth, of measured threads and cgroups:
  waited,          \* the instants at which a thread of the cgroup waited
  behind,          \* those at which the thread, since it was last put on a run
                   \* queue, waited for a CPU that ran another container
  unseen,          \* whether it lost the CPU, waits on and no event told of it
  due              \* what was behind of the cgroup's threads when they got a CPU

kernelVars == <<clock, running, queued>>
analyzerVars == <<now, events, pending_enqueues, cpu_switch_history, cpu_waits>>
truthVars == <<waited, behind, unseen, due>>
vars == <<kernelVars, trace, analyzerVars, truthVars>>

Analyzer == INSTANCE CpuWait

Measured == {t \in Threads : CgOf[t] \in Targets}

Init ==
  /\ clock = 0
  /\ running = [c \in Cpus |-> Idle]
  /\ queued = [t \in Threads |-> NoCpu]
  /\ trace = <<>>
  /\ Analyzer!Init
  /\ waited = [g \in Targets |-> {}]
  /\ behind = [t \in Measured |-> {}]
  /\ unseen = [t \in Measured |-> FALSE]
  /\ due = [g \in Targets |-> {}]

-------------------------------------------------------------------------------
(* The hooks.                                                              *)

(* The filter of every hook.                                               *)
Container(g) == g > Root

(* An event carries what the analyzer's CPU half reads: the thread and, of *)
(* a switch, the CPU.  The cgroup stamped on the enqueue of a preempted    *)
(* thread, that of the thread preempting it, is not read there; NoiseFree  *)
(* has it.                                                                 *)
EnqueueEvent(t) == [kind |-> "enqueue", tid |-> t, cpu |-> NoCpu]
SwitchEvent(t, c) == [kind |-> "switch", tid |-> t, cpu |-> c]

(* Mutant of handle_enqueue_task: the event names the current task, which  *)
(* puts the other on the run queue.                                        *)
EnqueueOfCurrent(t, by) ==
  IF Container(CgOf[t]) THEN <<EnqueueEvent(by)>> ELSE <<>>

(* Thread t is put on a run queue by whatever runs then.                   *)
handle_enqueue_task(t, by) ==
  IF Container(CgOf[t]) THEN <<EnqueueEvent(t)>> ELSE <<>>

(* Mutant of handle_sched_switch: a preempted thread's return to the run   *)
(* queue is not recorded.                                                  *)
SwitchOnly(prev, next, runnable, c) ==
  IF Container(CgOf[next]) THEN <<SwitchEvent(next, c)>> ELSE <<>>

(* CPU c goes from prev to next.  All that is looked at of prev is whether *)
(* its state was TASK_RUNNING (runnable), which it always is of the idle   *)
(* task and may be of a root thread: an enqueue event is recorded for them *)
(* too.  The argument preempt is not looked at.                            *)
handle_sched_switch(prev, next, runnable, c) ==
  IF ~Container(CgOf[next]) THEN <<>>
  ELSE (IF runnable THEN <<EnqueueEvent(prev)>> ELSE <<>>) \o <<SwitchEvent(next, c)>>

-------------------------------------------------------------------------------
(* The kernel.                                                             *)

(* The analyzer is up to date, and events of one more hook fit the bound.  *)
Quiet == trace = <<>> /\ events + 2 <= MaxEvents

OnCpu(t) == \E c \in Cpus : running[c] = t
Blocked(t) == queued[t] = NoCpu /\ ~OnCpu(t)

(* enqueue_task, called by the thread on CPU by or by an interrupt there:  *)
(* from now on a wait of t is one that an event began.                     *)
EnqueueTask(t, by) ==
  /\ trace' = handle_enqueue_task(t, running[by])
  /\ behind' = [u \in Measured |-> IF u = t THEN {} ELSE behind[u]]
  /\ unseen' = [u \in Measured |-> u # t /\ unseen[u]]
  /\ UNCHANGED <<clock, running, analyzerVars, waited, due>>

(* A blocked thread wakes on some CPU.  (The wake-up of one that has not   *)
(* left its run queue enqueues nothing.)                                   *)
Wake(t, c, by) ==
  /\ Quiet /\ Blocked(t)
  /\ queued' = [queued EXCEPT ![t] = c]
  /\ EnqueueTask(t, by)

(* A waiting thread is moved to another CPU, or taken off its run queue    *)
(* and put back for a change of its priority or its affinity.              *)
Move(t, c, by) ==
  /\ Quiet /\ queued[t] # NoCpu
  /\ queued' = [queued EXCEPT ![t] = c]
  /\ EnqueueTask(t, by)

(* The same change made to a running thread, which keeps its CPU.          *)
Requeue(t, by) ==
  /\ Quiet /\ OnCpu(t)
  /\ UNCHANGED queued
  /\ EnqueueTask(t, by)

(* __schedule on CPU c.  Who loses the CPU stays on its run queue if it is *)
(* runnable, and also if it is not but was preempted on its way to sleep,  *)
(* or has a signal pending.  The idle task runs only if nobody waits there.*)
Schedule(c, next, runnable, stays) ==
  LET prev == running[c]
  IN  /\ Quiet /\ next # prev
      /\ runnable => stays
      /\ IF next = Idle
         THEN ~stays /\ \A t \in Threads : queued[t] # c
         ELSE queued[next] = c
      /\ prev = Idle => runnable
      /\ running' = [running EXCEPT ![c] = next]
      /\ queued' = [t \in Threads |-> IF t = next THEN NoCpu
                                      ELSE IF t = prev /\ stays THEN c ELSE queued[t]]
      /\ trace' = handle_sched_switch(prev, next, runnable, c)
      /\ due' = [g \in Targets |->
                   IF next \in Measured /\ g = CgOf[next] /\ ~unseen[next]
                   THEN due[g] \cup behind[next] ELSE due[g]]
      /\ behind' = [t \in Measured |-> IF t \in {prev, next} THEN {} ELSE behind[t]]
      /\ unseen' = [t \in Measured |->
                      IF t = prev THEN stays /\ ~(runnable /\ Container(CgOf[next]))
                      ELSE t # next /\ unseen[t]]
      /\ UNCHANGED <<clock, analyzerVars, waited>>

(* Another container's thread runs on the CPU t waits for.                 *)
ForeignAhead(t) ==
  /\ queued[t] # NoCpu
  /\ LET g == CgOf[running[queued[t]]] IN Container(g) /\ g # CgOf[t]

Tick ==
  /\ Quiet /\ clock < MaxTime
  /\ clock' = clock + 1
  /\ waited' = [g \in Targets |->
                  IF \E t \in Measured : CgOf[t] = g /\ queued[t] # NoCpu
                  THEN waited[g] \cup {clock} ELSE waited[g]]
  /\ behind' = [t \in Measured |-> IF ForeignAhead(t) THEN behind[t] \cup {clock} ELSE behind[t]]
  /\ UNCHANGED <<running, queued, trace, analyzerVars, unseen, due>>

(* The analyzer handles the events in the order of the trace.              *)
Handle ==
  /\ trace # <<>>
  /\ LET e == Head(trace)
     IN  \/ e.kind = "enqueue" /\ Analyzer!HandleEnqueue(e.tid, clock)
         \/ e.kind = "switch" /\ Analyzer!HandleSwitch(e.tid, e.cpu, clock)
  /\ trace' = Tail(trace)
  /\ UNCHANGED <<kernelVars, truthVars>>

Next ==
  \/ Tick
  \/ Handle
  \/ \E t \in Threads, by \in Cpus :
       Requeue(t, by) \/ \E c \in Cpus : Wake(t, c, by) \/ Move(t, c, by)
  \/ \E c \in Cpus, next \in Tids, runnable, stays \in BOOLEAN :
       Schedule(c, next, runnable, stays)

Spec == Init /\ [][Next]_vars

-------------------------------------------------------------------------------

TypeOK ==
  /\ clock \in 0 .. MaxTime
  /\ running \in [Cpus -> Tids]
  /\ queued \in [Threads -> Cpus \cup {NoCpu}]
  /\ trace \in Seq([kind : {"enqueue", "switch"}, tid : Tids, cpu : Cpus \cup {NoCpu}])
  /\ Analyzer!TypeOK
  /\ waited \in [Targets -> SUBSET Nat]
  /\ behind \in [Measured -> SUBSET Nat]
  /\ unseen \in [Measured -> BOOLEAN]
  /\ due \in [Targets -> SUBSET Nat]

(* What is taken off a makespan for the CPU was waiting: at every charged  *)
(* instant some thread of the cgroup was on a run queue and did not run.   *)
(* No preemption that goes unrecorded, no change of CPU, no enqueue of a   *)
(* thread that runs on, and no event of a root or idle thread turns time   *)
(* in which the cgroup ran or slept into waiting.                          *)
ChargedIsWaiting ==
  \A g \in Targets : cpu_waits[g] \subseteq waited[g]

(* And none of it is missed: whenever a thread gets the CPU it was queued  *)
(* on, every instant since it was queued at which another container ran    *)
(* there is charged, whoever else ran in between.  Two waits are excepted, *)
(* which begin nowhere because no event tells of them: of a thread that    *)
(* lost the CPU to a root thread, and of one that lost it in a state other *)
(* than TASK_RUNNING and yet stayed on its run queue.                      *)
ForeignHoldIsCharged ==
  trace = <<>> => \A g \in Targets : due[g] \subseteq cpu_waits[g]
===============================================================================
