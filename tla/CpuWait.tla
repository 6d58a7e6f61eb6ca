-------------------------------- MODULE CpuWait --------------------------------
(***************************************************************************)
(* The CPU half of NoiseFreeAnalyzer: the events of a trace, in the order  *)
(* of their timestamps, through _handle_enqueue and _handle_switch.        *)
(*                                                                         *)
(* Of an event the handlers use the time, the thread, and for a switch the *)
(* CPU and the cgroup of the thread; the cgroup an enqueue event carries   *)
(* is stored and never read for a CPU wait, and is left out.  A thread's   *)
(* cgroup is fixed here, that of all its switches (CgOf); a thread that is *)
(* moved to another while it is traced is not modelled.  The events of     *)
(* other handlers only take their time here.                               *)
(***************************************************************************)
EXTENDS WaitWindows

CONSTANTS
  Cpus, Tids,
  CgOf,          \* the cgroup of each thread
  Targets,       \* the cgroups that are measured
  MaxTime,       \* bound: timestamps
  MaxEvents      \* bound: events handled

ASSUME CgroupAssumption == CgOf \in [Tids -> Nat \ {0}]
ASSUME BoundAssumption == MaxTime \in Nat /\ MaxEvents \in Nat

VARIABLES
  now,               \* the timestamp of the last event handled
  events,            \* how many events were handled
  pending_enqueues,  \* the time of each thread's unmatched enqueue, or None
  cpu_switch_history,
  cpu_waits          \* cgroup_waits[cg].cpu

vars == <<now, events, pending_enqueues, cpu_switch_history, cpu_waits>>

None == -1
Owners == {CgOf[t] : t \in Tids}

Init ==
  /\ now = 0
  /\ events = 0
  /\ pending_enqueues = [t \in Tids |-> None]
  /\ cpu_switch_history = [c \in Cpus |-> <<>>]
  /\ cpu_waits = [g \in Owners |-> {}]

(* Mutant of Event: the trace is not sorted.                               *)
EventAsRecorded(ts) ==
  /\ events < MaxEvents
  /\ events' = events + 1
  /\ now' = ts

(* The next event of the sorted trace.                                     *)
Event(ts) ==
  /\ events < MaxEvents
  /\ events' = events + 1
  /\ now <= ts
  /\ now' = ts

(* _handle_enqueue: an earlier enqueue that met no switch is forgotten.    *)
HandleEnqueue(t, ts) ==
  /\ Event(ts)
  /\ pending_enqueues' = [pending_enqueues EXCEPT ![t] = ts]
  /\ UNCHANGED <<cpu_switch_history, cpu_waits>>

CpuCharge(history, a, b, mine) ==
  LeadSlice(history, a, b, mine) \cup Slices(history, a, b, mine)

(* _handle_switch.                                                         *)
HandleSwitch(t, c, ts) ==
  LET mine == CgOf[t]
      history == cpu_switch_history[c]
  IN  /\ Event(ts)
      /\ pending_enqueues' = [pending_enqueues EXCEPT ![t] = None]
      /\ cpu_waits' =
           IF pending_enqueues[t] # None /\ mine \in Targets
           THEN [cpu_waits EXCEPT ![mine] =
                   @ \cup CpuCharge(history, pending_enqueues[t], ts, mine)]
           ELSE cpu_waits
      /\ cpu_switch_history' =
           [cpu_switch_history EXCEPT ![c] = Append(@, [ts |-> ts, cg |-> mine])]

(* An event of the network, the disk or a softirq.                         *)
OtherEvent(ts) == Event(ts) /\ UNCHANGED <<pending_enqueues, cpu_switch_history, cpu_waits>>

Next ==
  \E ts \in 0 .. MaxTime :
    \/ OtherEvent(ts)
    \/ \E t \in Tids : HandleEnqueue(t, ts) \/ \E c \in Cpus : HandleSwitch(t, c, ts)

Spec == Init /\ [][Next]_vars

-------------------------------------------------------------------------------

TypeOK ==
  /\ now \in 0 .. MaxTime
  /\ events \in 0 .. MaxEvents
  /\ pending_enqueues \in [Tids -> Nat \cup {None}]
  /\ cpu_switch_history \in [Cpus -> Seq([ts : Nat, cg : Owners])]
  /\ cpu_waits \in [Owners -> SUBSET Nat]

(* What the bisections rely on and nothing in the handlers checks: every   *)
(* history is in order of time and ends, like every pending enqueue, at    *)
(* the present or before.  It holds because _calculate_waits sorts the     *)
(* events of all CPUs together, whatever order the ring had them in.       *)
HistoriesInOrder ==
  /\ \A c \in Cpus :
       /\ InOrder(cpu_switch_history[c])
       /\ \A i \in DOMAIN cpu_switch_history[c] : cpu_switch_history[c][i].ts <= now
  /\ \A t \in Tids : pending_enqueues[t] <= now

(* What the handlers' state stands for in CpuOccupancy.                    *)
NoCg == 0
Holder == [c \in Cpus |->
             LET history == cpu_switch_history[c]
             IN  IF history = <<>> THEN NoCg ELSE history[Len(history)].cg]
Waiting == {t \in Tids : pending_enqueues[t] # None}
Added == [t \in Tids |-> [c \in Cpus |->
            IF pending_enqueues[t] = None THEN {}
            ELSE {p \in ClosedOpen(pending_enqueues[t], now) :
                    HeldAt(cpu_switch_history[c], p, CgOf[t])}]]

Accounting == INSTANCE CpuOccupancy WITH
  holder <- Holder, waiting <- Waiting, added <- Added, waits <- cpu_waits

(* Looking back over the recorded switches, with a leading slice and one   *)
(* slice per foreign switch-in, charges exactly what an accounting kept as *)
(* time passes would: no instant of the thread's own cgroup, of its        *)
(* siblings, of the time before its enqueue or after its switch-in, and    *)
(* none left out, whatever events have equal timestamps, whatever enqueue  *)
(* replaced another and whatever CPU the thread was enqueued on.           *)
ImplementsOccupancy == Accounting!Spec
===============================================================================
