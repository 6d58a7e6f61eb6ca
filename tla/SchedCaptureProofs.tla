-------------------------- MODULE SchedCaptureProofs ---------------------------
(***************************************************************************)
(* Proofs about SchedCapture, for any CPUs, threads, cgroups and traces of *)
(* any length: what the analyzer charges was waiting, and what a thread    *)
(* waited for another container is charged.  The analyzer's part is that   *)
(* of CpuWaitProofs.                                                       *)
(***************************************************************************)
EXTENDS SchedCapture, SequenceTheorems, TLAPS

AP == INSTANCE CpuWaitProofs

(* What the hooks have recorded and the analyzer does not know yet: the    *)
(* threads enqueued and the CPUs on which a thread was switched in.        *)
EnqueuedIn(tr) == {t \in Tids : \E i \in DOMAIN tr : tr[i] = EnqueueEvent(t)}
SwitchedIn(tr, run) == {c \in Cpus : \E i \in DOMAIN tr : tr[i] = SwitchEvent(run[c], c)}
Enqueued == EnqueuedIn(trace)
Switched == SwitchedIn(trace, running)

TraceInv ==
  \/ trace = <<>>
  \/ \E t \in Tids : trace = <<EnqueueEvent(t)>>
  \/ \E c \in Cpus : trace = <<SwitchEvent(running[c], c)>>
  \/ \E c \in Cpus : \E t \in Tids \ {running[c]} :
       trace = <<EnqueueEvent(t), SwitchEvent(running[c], c)>>

(* A thread is at one place at most.                                       *)
KernelInv ==
  /\ \A c \in Cpus : running[c] # Idle => queued[running[c]] = NoCpu
  /\ \A c, d \in Cpus : c # d /\ running[c] = running[d] => running[c] = Idle

(* What a switch-in of t on c, now, charges.                               *)
Pending(t) == pending_enqueues[t] # AP!None
ChargeOf(history, a, b, mine) == {p \in AP!ClosedOpen(a, b) : AP!HeldAt(history, p, mine)}
Charge(t, c) == ChargeOf(cpu_switch_history[c], pending_enqueues[t], clock, CgOf[t])

(* A thread that waits or runs on a CPU is there since its enqueue, and    *)
(* what other containers ran there since then was waiting.                 *)
At(t, c) == queued[t] = c \/ running[c] = t
WaitInv ==
  \A t \in Measured, c \in Cpus :
    At(t, c) /\ t \notin Enqueued /\ Pending(t) => Charge(t, c) \subseteq waited[CgOf[t]]

(* The last switch-in of a CPU's history is that of the container's thread *)
(* that runs there.                                                        *)
HolderInv ==
  \A c \in Cpus : Container(CgOf[running[c]]) /\ c \notin Switched =>
    LET history == cpu_switch_history[c]
    IN  history # <<>> /\ history[Len(history)].cg = CgOf[running[c]]

(* An event told of each wait but the unseen ones, and what was behind of  *)
(* it will be charged; what it leaves was charged, or is about to be.      *)
BehindInv ==
  \A t \in Measured :
    IF queued[t] = NoCpu \/ t \in Enqueued THEN behind[t] = {}
    ELSE ~unseen[t] => Pending(t) /\ behind[t] \subseteq Charge(t, queued[t])

DueInv ==
  \A g \in Targets : \A p \in due[g] :
    \/ p \in cpu_waits[g]
    \/ \E c \in Switched : CgOf[running[c]] = g /\ Pending(running[c]) /\ p \in Charge(running[c], c)

Inv ==
  /\ TypeOK /\ AP!HistoriesInOrder /\ now <= clock /\ TraceInv /\ KernelInv
  /\ HolderInv /\ BehindInv /\ DueInv
  /\ ~NoAttribution => WaitInv /\ ChargedIsWaiting

-------------------------------------------------------------------------------
(* The constants and the analyzer.                                         *)

LEMMA CgroupFacts ==
  /\ \A t \in Tids : CgOf[t] \in Nat \ {0} /\ CgOf[t] \in AP!Owners
  /\ Targets \subseteq AP!Owners
  /\ \A t \in Measured : t \in Threads /\ t \in Tids /\ CgOf[t] \in Targets /\ Container(CgOf[t])
  /\ ~Container(CgOf[Idle])
<1>1. \A t \in Tids : CgOf[t] \in Nat \ {0}
  BY CgroupAssumption
<1>2. \A t \in Tids : CgOf[t] \in AP!Owners
  BY DEF AP!Owners
<1>3. Threads \subseteq Tids
  BY DEF Tids
<1>4. Targets \subseteq AP!Owners /\ Root \notin Targets
  BY <1>2, <1>3, TargetsAssumption
<1>5. \A t \in Measured : t \in Threads /\ t \in Tids /\ CgOf[t] \in Targets /\ Container(CgOf[t])
  BY <1>1, <1>3, <1>4 DEF Measured, Container, Root
<1> QED BY <1>1, <1>2, <1>4, <1>5, CgroupAssumption DEF Container, Root

LEMMA InstanceAssumptions ==
  AP!CgroupAssumption /\ AP!BoundAssumption /\ AP!AttributionAssumption
  BY CgroupAssumption, BoundAssumption, AttributionAssumption
     DEF AP!CgroupAssumption, AP!BoundAssumption, AP!AttributionAssumption

(* The analyzer SchedCapture runs is the one CpuWaitProofs is about.       *)
LEMMA SameCharge ==
  ASSUME NEW h, NEW a, NEW b, NEW mine
  PROVE  Analyzer!CpuCharge(h, a, b, mine) = AP!CpuCharge(h, a, b, mine)
  BY Zenon DEF Analyzer!CpuCharge, Analyzer!LeadSlice, Analyzer!Slices, Analyzer!Before,
       Analyzer!Charged, Analyzer!LeadEnd, Analyzer!SliceEnd, Analyzer!Window,
       Analyzer!ClosedOpen, Analyzer!Min, Analyzer!Max,
       AP!CpuCharge, AP!LeadSlice, AP!Slices, AP!Before,
       AP!Charged, AP!LeadEnd, AP!SliceEnd, AP!Window,
       AP!ClosedOpen, AP!Min, AP!Max

LEMMA SameEnqueue ==
  ASSUME NEW t \in Tids, NEW ts, Analyzer!HandleEnqueue(t, ts)
  PROVE  AP!HandleEnqueue(t, ts)
  BY DEF Analyzer!HandleEnqueue, Analyzer!Event, AP!HandleEnqueue, AP!Event

LEMMA SameSwitch ==
  ASSUME NEW t \in Tids, NEW c \in Cpus, NEW ts, Analyzer!HandleSwitch(t, c, ts)
  PROVE  AP!HandleSwitch(t, c, ts)
  BY SameCharge DEF Analyzer!HandleSwitch, Analyzer!Event, Analyzer!None,
                    AP!HandleSwitch, AP!Event, AP!None

LEMMA SameType == Analyzer!TypeOK <=> AP!TypeOK
  BY DEF Analyzer!TypeOK, Analyzer!Owners, Analyzer!None, AP!TypeOK, AP!Owners, AP!None

LEMMA SameInit == Analyzer!Init => AP!Init
  BY DEF Analyzer!Init, Analyzer!Owners, Analyzer!None, AP!Init, AP!Owners, AP!None

LEMMA AnalyzerInv == Inv => AP!IInv
  BY SameType DEF Inv, TypeOK, AP!IInv

LEMMA AnalyzerStep ==
  ASSUME Inv, clock \in 0 .. MaxTime, NEW t \in Tids,
         AP!HandleEnqueue(t, clock) \/ \E c \in Cpus : AP!HandleSwitch(t, c, clock)
  PROVE  AP!IInv' /\ Analyzer!TypeOK'
<1>1. AP!IInv /\ AP!Next
  BY AnalyzerInv DEF AP!Next
<1>2. AP!IInv /\ [AP!Next]_AP!vars => AP!IInv'
  BY InstanceAssumptions, AP!InvStep
<1>3. AP!IInv'
  BY <1>1, <1>2
<1>4. AP!TypeOK'
  BY <1>3 DEF AP!IInv
<1>5. Analyzer!TypeOK' <=> AP!TypeOK'
  BY DEF Analyzer!TypeOK, Analyzer!Owners, Analyzer!None, AP!TypeOK, AP!Owners, AP!None
<1> QED BY <1>3, <1>4, <1>5

(* What is known of the history of a CPU, and of a pending enqueue.        *)
Good(h, n) ==
  /\ h \in Seq(AP!Entry(AP!Owners)) /\ AP!InOrder(h) /\ n \in Nat
  /\ \A i \in DOMAIN h : h[i].ts \in Nat /\ h[i].ts <= n

LEMMA HistoryIsGood ==
  ASSUME Inv, NEW c \in Cpus
  PROVE  Good(cpu_switch_history[c], clock)
<1>1. AP!IInv /\ now <= clock /\ clock \in Nat
  BY AnalyzerInv, BoundAssumption DEF Inv, TypeOK
<1>2. /\ cpu_switch_history[c] \in Seq(AP!Entry(AP!Owners))
      /\ AP!InOrder(cpu_switch_history[c])
      /\ \A i \in DOMAIN cpu_switch_history[c] : cpu_switch_history[c][i].ts <= now
      /\ now \in Nat
  BY <1>1, InstanceAssumptions, AP!HistoryOf
<1>3. \A i \in DOMAIN cpu_switch_history[c] : cpu_switch_history[c][i].ts \in Nat
  BY <1>2, InstanceAssumptions, AP!HistoryFacts
<1> QED BY <1>1, <1>2, <1>3 DEF Good

LEMMA PendingType ==
  ASSUME Inv, NEW t \in Tids
  PROVE  /\ pending_enqueues[t] \in Nat \cup {AP!None} /\ clock \in Nat
         /\ pending_enqueues[t] <= clock
<1>1. AP!TypeOK /\ AP!HistoriesInOrder /\ now <= clock /\ clock \in 0 .. MaxTime
  BY SameType DEF Inv, TypeOK
<1>2. pending_enqueues[t] \in Nat \cup {AP!None} /\ pending_enqueues[t] <= now
  BY <1>1 DEF AP!TypeOK, AP!HistoriesInOrder
<1>3. now \in Nat /\ clock \in Nat
  BY <1>1, BoundAssumption DEF AP!TypeOK
<1> QED BY <1>1, <1>2, <1>3 DEF AP!None

(* An instant more is charged if the last switch-in was another's.         *)
LEMMA ChargeLater ==
  ASSUME NEW n, NEW h, Good(h, n), NEW a \in Nat, a <= n, NEW mine
  PROVE  ChargeOf(h, a, n + 1, mine)
           = ChargeOf(h, a, n, mine) \cup
             (IF h # <<>> /\ AP!Charged(h[Len(h)], mine) THEN {n} ELSE {})
<1>1. AP!HeldAt(h, n, mine) <=> h # <<>> /\ AP!Charged(h[Len(h)], mine)
  BY InstanceAssumptions, AP!HeldFromNow DEF Good
<1>2. n \in Nat /\ AP!ClosedOpen(a, n + 1) = AP!ClosedOpen(a, n) \cup {n}
  BY DEF AP!ClosedOpen, Good
<1> QED BY <1>1, <1>2 DEF ChargeOf

(* A switch-in now is no charge yet.                                       *)
LEMMA ChargeAppend ==
  ASSUME NEW n, NEW h, Good(h, n), NEW cg \in AP!Owners,
         NEW a \in Nat, NEW mine
  PROVE  ChargeOf(Append(h, [ts |-> n, cg |-> cg]), a, n, mine) = ChargeOf(h, a, n, mine)
<1> DEFINE g == Append(h, [ts |-> n, cg |-> cg])
<1>1. \A p \in AP!ClosedOpen(a, n) : p \in Nat /\ p < n
  BY DEF AP!ClosedOpen, Good
<1>2. \A p \in AP!ClosedOpen(a, n) : AP!HeldAt(g, p, mine) <=> AP!HeldAt(h, p, mine)
  BY <1>1, InstanceAssumptions, AP!HeldBeforeAppend DEF Good
<1> QED BY <1>2 DEF ChargeOf

-------------------------------------------------------------------------------
(* The trace.                                                              *)

EventType == [kind : {"enqueue", "switch"}, tid : Tids, cpu : Cpus \cup {NoCpu}]

LEMMA TraceShapes ==
  ASSUME NEW run
  PROVE  /\ EnqueuedIn(<<>>) = {} /\ SwitchedIn(<<>>, run) = {}
         /\ \A t \in Tids : /\ EnqueuedIn(<<EnqueueEvent(t)>>) = {t}
                            /\ SwitchedIn(<<EnqueueEvent(t)>>, run) = {}
         /\ \A c \in Cpus : /\ EnqueuedIn(<<SwitchEvent(run[c], c)>>) = {}
                            /\ SwitchedIn(<<SwitchEvent(run[c], c)>>, run) = {c}
         /\ \A t \in Tids, c \in Cpus :
              LET both == <<EnqueueEvent(t), SwitchEvent(run[c], c)>>
              IN  EnqueuedIn(both) = {t} /\ SwitchedIn(both, run) = {c}
<1>1. \A t, u, c : EnqueueEvent(t) # SwitchEvent(u, c)
  BY DEF EnqueueEvent, SwitchEvent
<1>2. \A t, u : EnqueueEvent(t) = EnqueueEvent(u) => t = u
  BY DEF EnqueueEvent
<1>3. \A t, u, c, d : SwitchEvent(t, c) = SwitchEvent(u, d) => c = d
  BY DEF SwitchEvent
<1>4. \A e : DOMAIN <<e>> = {1} /\ <<e>>[1] = e
  OBVIOUS
<1>5. \A e, f : DOMAIN <<e, f>> = {1, 2} /\ <<e, f>>[1] = e /\ <<e, f>>[2] = f
  OBVIOUS
<1>6. DOMAIN <<>> = {}
  OBVIOUS
<1>7. EnqueuedIn(<<>>) = {} /\ SwitchedIn(<<>>, run) = {}
  BY <1>6 DEF EnqueuedIn, SwitchedIn
<1>8. ASSUME NEW t \in Tids
      PROVE  /\ EnqueuedIn(<<EnqueueEvent(t)>>) = {t}
             /\ SwitchedIn(<<EnqueueEvent(t)>>, run) = {}
  BY <1>1, <1>2, <1>4 DEF EnqueuedIn, SwitchedIn
<1>9. ASSUME NEW c \in Cpus
      PROVE  /\ EnqueuedIn(<<SwitchEvent(run[c], c)>>) = {}
             /\ SwitchedIn(<<SwitchEvent(run[c], c)>>, run) = {c}
  BY <1>1, <1>3, <1>4 DEF EnqueuedIn, SwitchedIn
<1>10. ASSUME NEW t \in Tids, NEW c \in Cpus
       PROVE  LET both == <<EnqueueEvent(t), SwitchEvent(run[c], c)>>
              IN  EnqueuedIn(both) = {t} /\ SwitchedIn(both, run) = {c}
  BY <1>1, <1>2, <1>3, <1>5 DEF EnqueuedIn, SwitchedIn
<1> QED BY <1>7, <1>8, <1>9, <1>10

LEMMA EventTypes ==
  /\ \A t \in Tids : EnqueueEvent(t) \in EventType
  /\ \A t \in Tids, c \in Cpus : SwitchEvent(t, c) \in EventType
  BY DEF EnqueueEvent, SwitchEvent, EventType

LEMMA TwoEvents ==
  ASSUME NEW S, NEW e \in S, NEW f \in S
  PROVE  /\ <<e>> \in Seq(S) /\ <<e, f>> \in Seq(S)
         /\ <<>> \o <<e>> = <<e>> /\ <<e>> \o <<f>> = <<e, f>>
         /\ Head(<<e>>) = e /\ Tail(<<e>>) = <<>>
         /\ Head(<<e, f>>) = e /\ Tail(<<e, f>>) = <<f>>
<1>1. /\ <<e>> \in Seq(S) /\ Len(<<e>>) = 1 /\ <<e>>[1] = e
      /\ <<f>> \in Seq(S) /\ Len(<<f>>) = 1 /\ <<f>>[1] = f
  OBVIOUS
<1>2. <<e, f>> \in Seq(S) /\ Len(<<e, f>>) = 2 /\ <<e, f>>[1] = e /\ <<e, f>>[2] = f
  OBVIOUS
<1>3. <<e>> \o <<f>> = <<e, f>>
  <2> DEFINE both == <<e>> \o <<f>>
             pair == <<e, f>>
  <2>1. both \in Seq(S) /\ Len(both) = 2 /\ both[1] = e /\ both[2] = f
    BY <1>1, ConcatProperties
  <2>2. pair \in Seq(S) /\ Len(pair) = 2 /\ pair[1] = e /\ pair[2] = f
    BY <1>2
  <2> HIDE DEF both, pair
  <2>3. both = pair
    BY <2>1, <2>2, SeqEqual
  <2> QED BY <2>3 DEF both, pair
<1>4. <<>> \o <<e>> = <<e>>
  BY <1>1, ConcatEmptySeq
<1>5. Head(<<e>>) = e /\ Head(<<e, f>>) = e
  OBVIOUS
<1>6. Tail(<<e>>) = <<>>
  <2>1. <<e>> # <<>>
    BY <1>1
  <2>2. Tail(<<e>>) \in Seq(S) /\ Len(Tail(<<e>>)) = 0
    BY <1>1, <2>1, HeadTailProperties
  <2> QED BY <2>2, EmptySeq
<1>7. Tail(<<e, f>>) = <<f>>
  <2>1. <<e, f>> # <<>>
    BY <1>2
  <2> DEFINE rest == Tail(<<e, f>>)
             last == <<f>>
  <2>2. rest \in Seq(S) /\ Len(rest) = 1 /\ rest[1] = f
    BY <1>2, <2>1, HeadTailProperties
  <2>3. last \in Seq(S) /\ Len(last) = 1 /\ last[1] = f
    BY <1>1
  <2> HIDE DEF rest, last
  <2>4. rest = last
    BY <2>2, <2>3, SeqEqual
  <2> QED BY <2>4 DEF rest, last
<1> QED BY <1>1, <1>2, <1>3, <1>4, <1>5, <1>6, <1>7

-------------------------------------------------------------------------------
(* The kernel.                                                             *)

(* A thread is put on a run queue, where it begins to wait, or runs on.    *)
LEMMA EnqueueKeeps ==
  ASSUME Inv, trace = <<>>, NEW t \in Threads, NEW by \in Cpus, EnqueueTask(t, by),
         queued' \in [Threads -> Cpus \cup {NoCpu}],
         \A u \in Threads : u # t => queued'[u] = queued[u],
         OnCpu(t) => queued'[t] = NoCpu
  PROVE  Inv'
<1>1. UNCHANGED <<clock, running, now, events, pending_enqueues, cpu_switch_history, cpu_waits,
                  waited, due>>
  BY DEF EnqueueTask, analyzerVars
<1>2. /\ trace' = IF Container(CgOf[t]) THEN <<EnqueueEvent(t)>> ELSE <<>>
      /\ behind' = [u \in Measured |-> IF u = t THEN {} ELSE behind[u]]
      /\ unseen' = [u \in Measured |-> u # t /\ unseen[u]]
  BY DEF EnqueueTask, handle_enqueue_task
<1>3. t \in Tids
  BY DEF Tids
<1>4. /\ Enqueued = {} /\ Switched = {} /\ Switched' = {}
      /\ Enqueued' = IF Container(CgOf[t]) THEN {t} ELSE {}
  BY <1>2, <1>3, TraceShapes DEF Enqueued, Switched
<1>5. \A u, c : Charge(u, c)' = Charge(u, c) /\ Pending(u)' = Pending(u)
  BY <1>1 DEF Charge, Pending
<1>6. TypeOK'
  <2>1. trace' \in Seq(EventType)
    <3>1. <<>> \in Seq(EventType)
      BY EmptySeq
    <3>2. EnqueueEvent(t) \in EventType
      BY <1>3, EventTypes
    <3> QED BY <1>2, <3>1, <3>2
  <2>2. behind' \in [Measured -> SUBSET Nat]
    BY <1>2 DEF Inv, TypeOK
  <2>3. unseen' \in [Measured -> BOOLEAN]
    BY <1>2
  <2>4. Analyzer!TypeOK'
    <3>1. Analyzer!TypeOK
      BY DEF Inv, TypeOK
    <3> QED BY <1>1, <3>1 DEF Analyzer!TypeOK, Analyzer!Owners
  <2> QED BY <1>1, <2>1, <2>2, <2>3, <2>4 DEF Inv, TypeOK, EventType
<1>7. AP!HistoriesInOrder' /\ now' <= clock'
  BY <1>1 DEF Inv, AP!HistoriesInOrder, AP!InOrder
<1>8. TraceInv'
  BY <1>2, <1>3 DEF TraceInv
<1>9. KernelInv'
  <2>1. ASSUME NEW c \in Cpus, running[c] # Idle PROVE queued'[running[c]] = NoCpu
    <3>1. running[c] \in Threads /\ queued[running[c]] = NoCpu
      BY <2>1 DEF Inv, TypeOK, KernelInv, Tids
    <3>2. CASE running[c] = t
      BY <3>2 DEF OnCpu
    <3> QED BY <3>1, <3>2
  <2> QED BY <1>1, <2>1 DEF Inv, KernelInv
<1>10. HolderInv'
  BY <1>1, <1>4 DEF Inv, HolderInv
<1>11. BehindInv'
  <2>1. SUFFICES ASSUME NEW u \in Measured
                 PROVE  IF queued'[u] = NoCpu \/ u \in Enqueued' THEN behind'[u] = {}
                        ELSE ~unseen'[u] => Pending(u)' /\ behind'[u] \subseteq Charge(u, queued[u])'
    BY DEF BehindInv
  <2>2. CASE u = t
    <3>1. u \in Enqueued' /\ behind'[u] = {}
      BY <1>2, <1>4, <2>2, CgroupFacts
    <3> QED BY <3>1
  <2>3. CASE u # t
    <3>1. u \in Threads /\ queued'[u] = queued[u] /\ u \notin Enqueued' /\ u \notin Enqueued
      BY <1>4, <2>3, CgroupFacts
    <3>2. behind'[u] = behind[u] /\ (unseen'[u] <=> unseen[u])
      BY <1>2, <2>3 DEF Inv, TypeOK
    <3>3. IF queued[u] = NoCpu THEN behind[u] = {}
          ELSE ~unseen[u] => Pending(u) /\ behind[u] \subseteq Charge(u, queued[u])
      BY <3>1 DEF Inv, BehindInv
    <3>4. Charge(u, queued[u])' = Charge(u, queued[u]) /\ Pending(u)' = Pending(u)
      BY <1>1, <3>1 DEF Charge, Pending
    <3> QED BY <3>1, <3>2, <3>3, <3>4
  <2> QED BY <2>2, <2>3
<1>12. DueInv'
  BY <1>1, <1>4 DEF Inv, DueInv
<1>13. ASSUME ~NoAttribution PROVE WaitInv' /\ ChargedIsWaiting'
  <2>1. WaitInv /\ ChargedIsWaiting
    BY <1>13 DEF Inv
  <2>2. SUFFICES ASSUME NEW u \in Measured, NEW c \in Cpus, At(u, c)', u \notin Enqueued', Pending(u)'
                 PROVE  Charge(u, c)' \subseteq waited'[CgOf[u]]
    BY <1>1, <2>1 DEF WaitInv, ChargedIsWaiting
  <2>3. u # t /\ u \in Threads /\ u \notin Enqueued
    BY <1>4, <2>2, CgroupFacts
  <2>4. At(u, c) /\ Pending(u)
    BY <1>1, <2>2, <2>3 DEF At, Pending
  <2> QED BY <1>1, <1>5, <2>1, <2>3, <2>4 DEF WaitInv
<1> QED BY <1>6, <1>7, <1>8, <1>9, <1>10, <1>11, <1>12, <1>13 DEF Inv

(* A CPU goes from one thread to another.                                  *)
LEMMA ScheduleKeeps ==
  ASSUME Inv, NEW c \in Cpus, NEW next \in Tids, NEW runnable \in BOOLEAN,
         NEW stays \in BOOLEAN, Schedule(c, next, runnable, stays)
  PROVE  Inv'
<1> DEFINE prev == running[c]
<1>1. /\ trace = <<>> /\ next # prev
      /\ runnable => stays
      /\ next = Idle => ~stays
      /\ next # Idle => next \in Threads /\ queued[next] = c
      /\ prev = Idle => runnable
      /\ UNCHANGED <<clock, now, events, pending_enqueues, cpu_switch_history, cpu_waits, waited>>
  BY DEF Schedule, Quiet, analyzerVars, Tids
<1>2. /\ running' = [running EXCEPT ![c] = next]
      /\ queued' = [t \in Threads |-> IF t = next THEN NoCpu
                                      ELSE IF t = prev /\ stays THEN c ELSE queued[t]]
      /\ due' = [g \in Targets |->
                   IF next \in Measured /\ g = CgOf[next] /\ ~unseen[next]
                   THEN due[g] \cup behind[next] ELSE due[g]]
      /\ behind' = [t \in Measured |-> IF t \in {prev, next} THEN {} ELSE behind[t]]
      /\ unseen' = [t \in Measured |->
                      IF t = prev THEN stays /\ ~(runnable /\ Container(CgOf[next]))
                      ELSE t # next /\ unseen[t]]
  BY DEF Schedule
<1>3. /\ running \in [Cpus -> Tids] /\ queued \in [Threads -> Cpus \cup {NoCpu}] /\ prev \in Tids
      /\ NoCpu \notin Cpus /\ Idle \notin Threads
  BY TidsAssumption DEF Inv, TypeOK
<1>4. /\ running'[c] = next /\ \A d \in Cpus : d # c => running'[d] = running[d]
  BY <1>2, <1>3
<1>5. \/ ~Container(CgOf[next]) /\ trace' = <<>>
      \/ Container(CgOf[next]) /\ ~runnable /\ trace' = <<SwitchEvent(running'[c], c)>>
      \/ /\ Container(CgOf[next]) /\ runnable
         /\ trace' = <<EnqueueEvent(prev), SwitchEvent(running'[c], c)>>
  <2>1. trace' = IF ~Container(CgOf[next]) THEN <<>>
                 ELSE (IF runnable THEN <<EnqueueEvent(prev)>> ELSE <<>>) \o <<SwitchEvent(next, c)>>
    BY DEF Schedule, handle_sched_switch
  <2>2. /\ <<>> \o <<SwitchEvent(next, c)>> = <<SwitchEvent(next, c)>>
        /\ <<EnqueueEvent(prev)>> \o <<SwitchEvent(next, c)>> = <<EnqueueEvent(prev), SwitchEvent(next, c)>>
    <3>1. EnqueueEvent(prev) \in EventType /\ SwitchEvent(next, c) \in EventType
      BY <1>3, EventTypes
    <3> QED BY <3>1, TwoEvents
  <2> QED BY <1>4, <2>1, <2>2
<1>6. /\ Enqueued = {} /\ Switched = {}
      /\ Enqueued' = IF Container(CgOf[next]) /\ runnable THEN {prev} ELSE {}
      /\ Switched' = IF Container(CgOf[next]) THEN {c} ELSE {}
  <2>1. Enqueued = {} /\ Switched = {}
    BY <1>1, TraceShapes DEF Enqueued, Switched
  <2>2. Enqueued' = EnqueuedIn(trace') /\ Switched' = SwitchedIn(trace', running')
    BY DEF Enqueued, Switched
  <2>3. CASE ~Container(CgOf[next]) /\ trace' = <<>>
    BY <2>1, <2>2, <2>3, TraceShapes
  <2>4. CASE Container(CgOf[next]) /\ ~runnable /\ trace' = <<SwitchEvent(running'[c], c)>>
    <3>1. Enqueued' = {} /\ Switched' = {c}
      BY <2>2, <2>4, TraceShapes
    <3> QED BY <2>1, <2>4, <3>1
  <2>5. CASE /\ Container(CgOf[next]) /\ runnable
             /\ trace' = <<EnqueueEvent(prev), SwitchEvent(running'[c], c)>>
    <3>1. Enqueued' = {prev} /\ Switched' = {c}
      BY <1>3, <2>2, <2>5, TraceShapes
    <3> QED BY <2>1, <2>5, <3>1
  <2> QED BY <1>5, <2>3, <2>4, <2>5
<1>7. \A u, d : Charge(u, d)' = Charge(u, d) /\ Pending(u)' = Pending(u)
  BY <1>1 DEF Charge, Pending
<1>8. \A u \in Measured : u \in Threads /\ u # Idle /\ CgOf[u] \in Targets /\ Container(CgOf[u])
  BY <1>3, CgroupFacts
<1>9. BehindInv'
  <2>1. SUFFICES ASSUME NEW u \in Measured
                 PROVE  IF queued'[u] = NoCpu \/ u \in Enqueued' THEN behind'[u] = {}
                        ELSE ~unseen'[u] => Pending(u)' /\ behind'[u] \subseteq Charge(u, queued[u])'
    BY DEF BehindInv
  <2>2. CASE u = next
    BY <1>2, <1>8, <2>2
  <2>3. CASE u = prev
    <3>1. behind'[u] = {}
      BY <1>2, <2>3
    <3>2. CASE queued'[u] # NoCpu /\ u \notin Enqueued'
      <4>1. stays
        <5>1. queued[u] = NoCpu
          BY <1>8, <2>3 DEF Inv, KernelInv
        <5> QED BY <1>1, <1>2, <1>8, <2>3, <3>2, <5>1
      <4>2. ~(runnable /\ Container(CgOf[next]))
        BY <1>6, <2>3, <3>2
      <4>3. unseen'[u]
        BY <1>2, <1>8, <2>3, <4>1, <4>2
      <4> QED BY <3>2, <4>3
    <3> QED BY <3>1, <3>2
  <2>4. CASE u # prev /\ u # next
    <3>1. u \in Threads /\ queued'[u] = queued[u] /\ u \notin Enqueued' /\ u \notin Enqueued
      BY <1>2, <1>6, <1>8, <2>4
    <3>2. behind'[u] = behind[u] /\ (unseen'[u] <=> unseen[u])
      BY <1>2, <2>4
    <3>3. IF queued[u] = NoCpu THEN behind[u] = {}
          ELSE ~unseen[u] => Pending(u) /\ behind[u] \subseteq Charge(u, queued[u])
      BY <3>1 DEF Inv, BehindInv
    <3>4. Charge(u, queued[u])' = Charge(u, queued[u]) /\ Pending(u)' = Pending(u)
      BY <1>1, <3>1 DEF Charge, Pending
    <3> QED BY <3>1, <3>2, <3>3, <3>4
  <2> QED BY <2>2, <2>3, <2>4
<1>10. DueInv'
  <2>1. SUFFICES ASSUME NEW g \in Targets, NEW p \in due'[g]
                 PROVE  \/ p \in cpu_waits'[g]
                        \/ \E d \in Switched' : /\ CgOf[running'[d]] = g /\ Pending(running[d])'
                                                /\ p \in Charge(running[d], d)'
    BY DEF DueInv
  <2>2. CASE p \in due[g]
    BY <1>1, <1>6, <2>2 DEF Inv, DueInv
  <2>3. CASE next \in Measured /\ g = CgOf[next] /\ ~unseen[next] /\ p \in behind[next]
    <3>1. queued[next] = c /\ queued[next] # NoCpu /\ next \notin Enqueued
      BY <1>1, <1>3, <1>6, <1>8, <2>3
    <3>2. Pending(next) /\ behind[next] \subseteq Charge(next, c)
      BY <2>3, <3>1 DEF Inv, BehindInv
    <3>3. c \in Switched' /\ CgOf[running'[c]] = g
      BY <1>4, <1>6, <1>8, <2>3
    <3>4. Pending(running[c])' /\ p \in Charge(running[c], c)'
      BY <1>1, <1>4, <2>3, <3>2 DEF Pending, Charge
    <3> QED BY <3>3, <3>4
  <2> QED BY <1>2, <2>1, <2>2, <2>3
<1>11. ASSUME ~NoAttribution PROVE WaitInv' /\ ChargedIsWaiting'
  <2>1. WaitInv /\ ChargedIsWaiting
    BY <1>11 DEF Inv
  <2>2. SUFFICES ASSUME NEW u \in Measured, NEW d \in Cpus, At(u, d)', u \notin Enqueued', Pending(u)'
                 PROVE  Charge(u, d)' \subseteq waited'[CgOf[u]]
    BY <1>1, <2>1 DEF WaitInv, ChargedIsWaiting
  <2>3. At(u, d)
    <3>1. CASE running'[d] = u
      BY <1>1, <1>4, <1>8, <3>1 DEF At
    <3>2. CASE queued'[u] = d
      BY <1>2, <1>3, <1>8, <3>2 DEF At
    <3> QED BY <2>2, <3>1, <3>2 DEF At
  <2> QED BY <1>1, <1>6, <1>7, <2>1, <2>2, <2>3 DEF WaitInv
<1>12. HolderInv'
  <2>1. SUFFICES ASSUME NEW d \in Cpus, Container(CgOf[running'[d]]), d \notin Switched'
                 PROVE  /\ cpu_switch_history'[d] # <<>>
                        /\ cpu_switch_history'[d][Len(cpu_switch_history'[d])].cg = CgOf[running'[d]]
    BY DEF HolderInv
  <2>2. d # c
    BY <1>4, <1>6, <2>1
  <2> QED BY <1>1, <1>4, <1>6, <2>1, <2>2 DEF Inv, HolderInv
<1>13. KernelInv'
  <2>1. ASSUME NEW d \in Cpus, running'[d] # Idle PROVE queued'[running'[d]] = NoCpu
    <3>1. running'[d] \in Threads
      BY <1>3, <1>4, <2>1 DEF Tids
    <3>2. CASE d = c
      BY <1>2, <1>4, <3>1, <3>2
    <3>3. CASE d # c
      <4>1. running'[d] = running[d] /\ running[d] # prev /\ queued[running[d]] = NoCpu
        BY <1>4, <2>1, <3>3 DEF Inv, KernelInv
      <4> QED BY <1>2, <3>1, <4>1
    <3> QED BY <3>2, <3>3
  <2>2. ASSUME NEW d \in Cpus, NEW e \in Cpus, d # e, running'[d] = running'[e]
        PROVE  running'[d] = Idle
    <3>1. ASSUME NEW b \in Cpus, b # c, running[b] = next PROVE next = Idle
      BY <1>1, <1>3, <3>1 DEF Inv, KernelInv
    <3> QED BY <1>4, <2>2, <3>1 DEF Inv, KernelInv
  <2> QED BY <2>1, <2>2 DEF KernelInv
<1>14. TraceInv'
  BY <1>1, <1>3, <1>4, <1>5 DEF TraceInv
<1>15. TypeOK'
  <2>1. trace' \in Seq(EventType)
    <3>1. <<>> \in Seq(EventType)
      BY EmptySeq
    <3>2. EnqueueEvent(prev) \in EventType /\ SwitchEvent(running'[c], c) \in EventType
      BY <1>3, <1>4, EventTypes
    <3> QED BY <1>5, <3>1, <3>2, TwoEvents
  <2>2. behind' \in [Measured -> SUBSET Nat] /\ due' \in [Targets -> SUBSET Nat]
    BY <1>2 DEF Inv, TypeOK
  <2>3. unseen' \in [Measured -> BOOLEAN]
    BY <1>2
  <2>4. Analyzer!TypeOK'
    <3>1. Analyzer!TypeOK
      BY DEF Inv, TypeOK
    <3> QED BY <1>1, <3>1 DEF Analyzer!TypeOK, Analyzer!Owners
  <2>5. running' \in [Cpus -> Tids] /\ queued' \in [Threads -> Cpus \cup {NoCpu}]
    BY <1>2, <1>3
  <2> QED BY <1>1, <2>1, <2>2, <2>3, <2>4, <2>5 DEF Inv, TypeOK, EventType
<1>16. AP!HistoriesInOrder' /\ now' <= clock'
  BY <1>1 DEF Inv, AP!HistoriesInOrder, AP!InOrder
<1> QED BY <1>9, <1>10, <1>11, <1>12, <1>13, <1>14, <1>15, <1>16 DEF Inv

(* Time passes.                                                            *)
LEMMA TickKeeps ==
  ASSUME Inv, Tick
  PROVE  Inv'
<1>1. /\ trace = <<>> /\ clock < MaxTime /\ clock' = clock + 1
      /\ UNCHANGED <<running, queued, trace, now, events, pending_enqueues, cpu_switch_history,
                     cpu_waits, unseen, due>>
  BY DEF Tick, Quiet, analyzerVars
<1>2. /\ waited' = [g \in Targets |->
                      IF \E t \in Measured : CgOf[t] = g /\ queued[t] # NoCpu
                      THEN waited[g] \cup {clock} ELSE waited[g]]
      /\ behind' = [t \in Measured |->
                      IF ForeignAhead(t) THEN behind[t] \cup {clock} ELSE behind[t]]
  BY DEF Tick
<1>3. clock \in Nat /\ clock' \in 0 .. MaxTime
  BY <1>1, BoundAssumption DEF Inv, TypeOK
<1>4. Enqueued = {} /\ Switched = {} /\ Enqueued' = {} /\ Switched' = {}
  BY <1>1, TraceShapes DEF Enqueued, Switched
<1>5. \A g \in Targets : waited[g] \subseteq waited'[g]
  BY <1>2
<1>6. ASSUME NEW u \in Measured, NEW d \in Cpus, Pending(u)
      PROVE  LET h == cpu_switch_history[d]
             IN  Charge(u, d)' = Charge(u, d) \cup
                   (IF h # <<>> /\ AP!Charged(h[Len(h)], CgOf[u]) THEN {clock} ELSE {})
  <2>1. u \in Tids
    BY CgroupFacts
  <2>2. pending_enqueues[u] \in Nat /\ pending_enqueues[u] <= clock
    BY <1>6, <2>1, PendingType DEF Pending
  <2>3. Good(cpu_switch_history[d], clock)
    BY HistoryIsGood
  <2> QED BY <1>1, <2>2, <2>3, ChargeLater DEF Charge
<1>7. ASSUME NEW d \in Cpus, Container(CgOf[running[d]])
      PROVE  LET h == cpu_switch_history[d]
             IN  h # <<>> /\ h[Len(h)].cg = CgOf[running[d]]
  BY <1>4, <1>7 DEF Inv, HolderInv
<1>8. ASSUME ~NoAttribution PROVE WaitInv' /\ ChargedIsWaiting'
  <2>1. WaitInv /\ ChargedIsWaiting
    BY <1>8 DEF Inv
  <2>2. ChargedIsWaiting'
    BY <1>1, <1>5, <2>1 DEF ChargedIsWaiting
  <2>3. ASSUME NEW u \in Measured, NEW d \in Cpus, At(u, d), Pending(u)
        PROVE  Charge(u, d)' \subseteq waited'[CgOf[u]]
    <3>1. Charge(u, d) \subseteq waited[CgOf[u]] /\ CgOf[u] \in Targets
      BY <1>4, <2>1, <2>3, CgroupFacts DEF WaitInv
    <3>2. CASE queued[u] = d
      <4>1. queued[u] # NoCpu
        BY <3>2, TidsAssumption
      <4>2. clock \in waited'[CgOf[u]]
        BY <1>2, <3>1, <4>1
      <4> QED BY <1>5, <1>6, <2>3, <3>1, <4>2
    <3>3. CASE running[d] = u
      <4>1. ~AP!Charged(cpu_switch_history[d][Len(cpu_switch_history[d])], CgOf[u])
        BY <1>7, <1>8, <3>3, CgroupFacts DEF AP!Charged
      <4> QED BY <1>5, <1>6, <2>3, <3>1, <4>1
    <3> QED BY <2>3, <3>2, <3>3 DEF At
  <2>4. WaitInv'
    BY <1>1, <2>3 DEF WaitInv, At, Pending
  <2> QED BY <2>2, <2>4
<1>9. BehindInv'
  <2>1. SUFFICES ASSUME NEW u \in Measured
                 PROVE  IF queued'[u] = NoCpu \/ u \in Enqueued' THEN behind'[u] = {}
                        ELSE ~unseen'[u] => Pending(u)' /\ behind'[u] \subseteq Charge(u, queued[u])'
    BY DEF BehindInv
  <2>2. CASE queued[u] = NoCpu
    <3>1. behind[u] = {} /\ ~ForeignAhead(u)
      BY <2>2 DEF Inv, BehindInv, ForeignAhead
    <3> QED BY <1>1, <1>2, <2>2, <3>1
  <2>3. CASE queued[u] # NoCpu /\ ~unseen[u]
    <3>1. PICK d \in Cpus : d = queued[u]
      BY <2>3, CgroupFacts DEF Inv, TypeOK
    <3>2. Pending(u) /\ behind[u] \subseteq Charge(u, d)
      BY <1>4, <2>3, <3>1 DEF Inv, BehindInv
    <3> DEFINE h == cpu_switch_history[d]
    <3>3. Charge(u, d)' = Charge(u, d) \cup
            (IF h # <<>> /\ AP!Charged(h[Len(h)], CgOf[u]) THEN {clock} ELSE {})
      BY <1>6, <3>2
    <3>4. ForeignAhead(u) => h # <<>> /\ AP!Charged(h[Len(h)], CgOf[u])
      BY <1>7, <3>1 DEF ForeignAhead, AP!Charged
    <3>5. behind'[u] \subseteq Charge(u, d)'
      BY <1>2, <3>2, <3>3, <3>4
    <3>6. Charge(u, queued[u])' = Charge(u, d)' /\ Pending(u)'
      BY <1>1, <3>1, <3>2 DEF Charge, Pending
    <3> QED BY <1>1, <1>4, <2>3, <3>5, <3>6
  <2>4. CASE queued[u] # NoCpu /\ unseen[u]
    BY <1>1, <1>4, <2>4
  <2> QED BY <2>2, <2>3, <2>4
<1>10. DueInv'
  BY <1>1, <1>4 DEF Inv, DueInv
<1>11. HolderInv' /\ KernelInv' /\ TraceInv'
  BY <1>1, <1>4 DEF Inv, HolderInv, KernelInv, TraceInv
<1>12. TypeOK'
  <2>1. waited' \in [Targets -> SUBSET Nat] /\ behind' \in [Measured -> SUBSET Nat]
    BY <1>2, <1>3 DEF Inv, TypeOK
  <2>2. Analyzer!TypeOK'
    <3>1. Analyzer!TypeOK
      BY DEF Inv, TypeOK
    <3> QED BY <1>1, <3>1 DEF Analyzer!TypeOK, Analyzer!Owners
  <2> QED BY <1>1, <1>3, <2>1, <2>2 DEF Inv, TypeOK
<1>13. AP!HistoriesInOrder'
  BY <1>1 DEF Inv, AP!HistoriesInOrder, AP!InOrder
<1>14. now' <= clock'
  <2>1. now \in Nat /\ now <= clock
    BY BoundAssumption DEF Inv, TypeOK, Analyzer!TypeOK
  <2> QED BY <1>1, <1>3, <2>1
<1> QED BY <1>8, <1>9, <1>10, <1>11, <1>12, <1>13, <1>14 DEF Inv

-------------------------------------------------------------------------------
(* The analyzer.                                                           *)

(* It learns of an enqueue.                                                *)
LEMMA HandleEnqueueKeeps ==
  ASSUME Inv, NEW t \in Tids, AP!HandleEnqueue(t, clock), UNCHANGED <<kernelVars, truthVars>>,
         trace' \in Seq(EventType), TraceInv',
         Enqueued = {t}, Enqueued' = {}, Switched' = Switched, \A c \in Switched : running[c] # t
  PROVE  Inv'
<1>1. /\ UNCHANGED <<clock, running, queued, waited, behind, unseen, due>>
      /\ UNCHANGED <<cpu_switch_history, cpu_waits>> /\ now' = clock
      /\ pending_enqueues' = [pending_enqueues EXCEPT ![t] = clock]
  BY DEF kernelVars, truthVars, AP!HandleEnqueue, AP!Event
<1>2. clock \in 0 .. MaxTime /\ clock \in Nat
  BY BoundAssumption DEF Inv, TypeOK
<1>3. AP!IInv' /\ Analyzer!TypeOK'
  BY <1>2, AnalyzerStep
<1>4. pending_enqueues'[t] = clock /\ \A u \in Tids : u # t => pending_enqueues'[u] = pending_enqueues[u]
  BY <1>1, SameType DEF Inv, TypeOK, AP!TypeOK
<1>5. \A u \in Tids : \A d : u # t => Charge(u, d)' = Charge(u, d) /\ (Pending(u)' <=> Pending(u))
  BY <1>1, <1>4 DEF Charge, Pending
<1>6. \A d : Charge(t, d)' = {} /\ Pending(t)'
  BY <1>1, <1>2, <1>4 DEF Charge, ChargeOf, Pending, AP!ClosedOpen, AP!None
<1>7. ASSUME ~NoAttribution PROVE WaitInv' /\ ChargedIsWaiting'
  <2>1. WaitInv /\ ChargedIsWaiting
    BY <1>7 DEF Inv
  <2>2. ASSUME NEW u \in Measured, NEW d \in Cpus, At(u, d), Pending(u)'
        PROVE  Charge(u, d)' \subseteq waited[CgOf[u]]
    <3>1. CASE u = t
      BY <1>6, <3>1
    <3>2. CASE u # t
      BY <1>5, <2>1, <2>2, <3>2, CgroupFacts DEF WaitInv
    <3> QED BY <3>1, <3>2
  <2>3. WaitInv'
    BY <1>1, <2>2 DEF WaitInv, At
  <2> QED BY <1>1, <2>1, <2>3 DEF ChargedIsWaiting
<1>8. BehindInv'
  <2>1. SUFFICES ASSUME NEW u \in Measured
                 PROVE  IF queued'[u] = NoCpu \/ u \in Enqueued' THEN behind'[u] = {}
                        ELSE ~unseen'[u] => Pending(u)' /\ behind'[u] \subseteq Charge(u, queued[u])'
    BY DEF BehindInv
  <2>2. CASE u = t
    BY <1>1, <1>6, <2>2 DEF Inv, BehindInv
  <2>3. CASE u # t
    <3>1. u \in Tids /\ u \notin Enqueued
      BY <2>3, CgroupFacts
    <3>2. IF queued[u] = NoCpu THEN behind[u] = {}
          ELSE ~unseen[u] => Pending(u) /\ behind[u] \subseteq Charge(u, queued[u])
      BY <3>1 DEF Inv, BehindInv
    <3>3. Charge(u, queued[u])' = Charge(u, queued[u]) /\ (Pending(u)' <=> Pending(u))
      BY <1>1, <1>4, <2>3, <3>1 DEF Charge, Pending
    <3> QED BY <1>1, <3>2, <3>3
  <2> QED BY <2>2, <2>3
<1>9. DueInv'
  <2>1. SUFFICES ASSUME NEW g \in Targets, NEW p \in due[g], p \notin cpu_waits[g]
                 PROVE  \E c \in Switched : /\ CgOf[running[c]] = g /\ Pending(running[c])'
                                            /\ p \in Charge(running[c], c)'
    BY <1>1 DEF DueInv
  <2>2. PICK c \in Switched : /\ CgOf[running[c]] = g /\ Pending(running[c])
                              /\ p \in Charge(running[c], c)
    BY <2>1 DEF Inv, DueInv
  <2>3. running[c] \in Tids /\ running[c] # t
    BY <2>2 DEF Inv, TypeOK, Switched, SwitchedIn
  <2>4. Charge(running[c], c)' = Charge(running[c], c) /\ (Pending(running[c])' <=> Pending(running[c]))
    BY <1>1, <1>4, <2>3 DEF Charge, Pending
  <2> QED BY <2>2, <2>4
<1>10. HolderInv' /\ KernelInv'
  BY <1>1 DEF Inv, HolderInv, KernelInv
<1>11. TypeOK'
  BY <1>1, <1>3 DEF Inv, TypeOK, EventType
<1>12. now' <= clock'
  BY <1>1, <1>2
<1> QED BY <1>3, <1>7, <1>8, <1>9, <1>10, <1>11, <1>12 DEF Inv, AP!IInv

(* It learns of a switch, and charges what the thread waited for.          *)
LEMMA HandleSwitchKeeps ==
  ASSUME Inv, NEW c \in Cpus, AP!HandleSwitch(running[c], c, clock),
         UNCHANGED <<kernelVars, truthVars>>, trace' = <<>>,
         Enqueued = {}, Switched = {c}
  PROVE  Inv'
<1> DEFINE h(d) == cpu_switch_history[d]
           next == running[c]
           e == [ts |-> clock, cg |-> CgOf[next]]
<1>1. /\ UNCHANGED <<clock, running, queued, waited, behind, unseen, due>> /\ now' = clock
      /\ pending_enqueues' = [pending_enqueues EXCEPT ![next] = AP!None]
      /\ cpu_switch_history' = [cpu_switch_history EXCEPT ![c] = Append(h(c), e)]
      /\ cpu_waits' = IF pending_enqueues[next] # AP!None /\ CgOf[next] \in Targets
                      THEN [cpu_waits EXCEPT ![CgOf[next]] =
                              @ \cup AP!CpuCharge(h(c), pending_enqueues[next], clock, CgOf[next])]
                      ELSE cpu_waits
  BY DEF kernelVars, truthVars, AP!HandleSwitch, AP!Event
<1>2. clock \in 0 .. MaxTime /\ clock \in Nat /\ next \in Tids /\ CgOf[next] \in AP!Owners
  BY BoundAssumption, CgroupFacts DEF Inv, TypeOK
<1>3. AP!IInv' /\ Analyzer!TypeOK'
  BY <1>2, AnalyzerStep
<1>4. Enqueued' = {} /\ Switched' = {}
  BY <1>1, TraceShapes DEF Enqueued, Switched
<1>5. AP!TypeOK
  BY SameType DEF Inv, TypeOK
<1>6. /\ pending_enqueues'[next] = AP!None
      /\ \A u \in Tids : u # next => pending_enqueues'[u] = pending_enqueues[u]
  BY <1>1, <1>2, <1>5 DEF AP!TypeOK
<1>7. h(c)' = Append(h(c), e) /\ \A d \in Cpus : d # c => h(d)' = h(d)
  BY <1>1, <1>5 DEF AP!TypeOK
<1>8. \A d \in Cpus : Good(h(d), clock)
  BY HistoryIsGood
<1>9. ASSUME NEW u \in Tids, NEW d \in Cpus, u # next, Pending(u)
      PROVE  Charge(u, d)' = Charge(u, d)
  <2>1. pending_enqueues[u] \in Nat /\ pending_enqueues'[u] = pending_enqueues[u]
    BY <1>6, <1>9, PendingType DEF Pending
  <2>2. CASE d = c
    <3>1. ChargeOf(Append(h(c), e), pending_enqueues[u], clock, CgOf[u])
            = ChargeOf(h(c), pending_enqueues[u], clock, CgOf[u])
      BY <1>2, <1>8, <2>1, ChargeAppend
    <3> QED BY <1>1, <1>7, <2>1, <2>2, <3>1 DEF Charge
  <2>3. CASE d # c
    BY <1>1, <1>7, <2>1, <2>3 DEF Charge
  <2> QED BY <2>2, <2>3
<1>10. \A u \in Tids : u # next => (Pending(u)' <=> Pending(u))
  BY <1>6 DEF Pending
<1>11. ASSUME Pending(next)
       PROVE  AP!CpuCharge(h(c), pending_enqueues[next], clock, CgOf[next]) = Charge(next, c)
  <2>1. pending_enqueues[next] \in Nat /\ pending_enqueues[next] <= clock
    BY <1>2, <1>11, PendingType DEF Pending
  <2> QED BY <1>2, <1>8, <2>1, InstanceAssumptions, AP!CpuChargeIsExact
          DEF Good, Charge, ChargeOf, AP!CpuCharge
<1>12. \A g \in Targets :
         cpu_waits'[g] = cpu_waits[g] \cup
           (IF Pending(next) /\ CgOf[next] = g THEN Charge(next, c) ELSE {})
  BY <1>1, <1>2, <1>5, <1>11, CgroupFacts DEF Pending, AP!TypeOK
<1>13. ASSUME ~NoAttribution PROVE WaitInv' /\ ChargedIsWaiting'
  <2>1. WaitInv /\ ChargedIsWaiting
    BY <1>13 DEF Inv
  <2>2. WaitInv'
    <3>1. SUFFICES ASSUME NEW u \in Measured, NEW d \in Cpus, At(u, d)', Pending(u)'
                   PROVE  Charge(u, d)' \subseteq waited'[CgOf[u]]
      BY DEF WaitInv
    <3>2. u # next /\ u \in Tids
      BY <1>6, <3>1, CgroupFacts DEF Pending
    <3>3. Pending(u) /\ At(u, d)
      BY <1>1, <1>10, <3>1, <3>2 DEF At
    <3> QED BY <1>1, <1>9, <2>1, <3>2, <3>3 DEF WaitInv
  <2>3. ChargedIsWaiting'
    <3>1. SUFFICES ASSUME NEW g \in Targets PROVE cpu_waits'[g] \subseteq waited[g]
      BY <1>1 DEF ChargedIsWaiting
    <3>2. ASSUME Pending(next), CgOf[next] = g PROVE Charge(next, c) \subseteq waited[g]
      <4>1. next \in Measured
        BY <1>2, <3>2, CgroupFacts, TargetsAssumption, CgroupAssumption DEF Measured, Tids
      <4> QED BY <2>1, <3>2, <4>1 DEF WaitInv, At
    <3> QED BY <1>12, <2>1, <3>2 DEF ChargedIsWaiting
  <2> QED BY <2>2, <2>3
<1>14. BehindInv'
  <2>1. SUFFICES ASSUME NEW u \in Measured
                 PROVE  IF queued'[u] = NoCpu \/ u \in Enqueued' THEN behind'[u] = {}
                        ELSE ~unseen'[u] => Pending(u)' /\ behind'[u] \subseteq Charge(u, queued[u])'
    BY DEF BehindInv
  <2>2. u \in Threads /\ u \in Tids /\ u # Idle
    BY CgroupFacts, TidsAssumption
  <2>3. IF queued[u] = NoCpu THEN behind[u] = {}
        ELSE ~unseen[u] => Pending(u) /\ behind[u] \subseteq Charge(u, queued[u])
    BY DEF Inv, BehindInv
  <2>4. CASE queued[u] = NoCpu
    BY <1>1, <2>3, <2>4
  <2>5. CASE queued[u] # NoCpu /\ ~unseen[u]
    <3>1. u # next
      BY <2>2, <2>5 DEF Inv, KernelInv
    <3>2. PICK d \in Cpus : d = queued[u]
      BY <2>2, <2>5 DEF Inv, TypeOK
    <3>3. Pending(u) /\ behind[u] \subseteq Charge(u, d)
      BY <2>3, <2>5, <3>2
    <3>4. Charge(u, d)' = Charge(u, d) /\ Pending(u)'
      BY <1>9, <1>10, <2>2, <3>1, <3>3
    <3>5. Charge(u, queued[u])' = Charge(u, d)'
      BY <1>1, <3>2 DEF Charge
    <3> QED BY <1>1, <1>4, <2>5, <3>3, <3>4, <3>5
  <2>6. CASE queued[u] # NoCpu /\ unseen[u]
    BY <1>1, <1>4, <2>6
  <2> QED BY <2>4, <2>5, <2>6
<1>15. DueInv'
  <2>1. SUFFICES ASSUME NEW g \in Targets, NEW p \in due[g] PROVE p \in cpu_waits'[g]
    BY <1>1 DEF DueInv
  <2>2. \/ p \in cpu_waits[g]
        \/ CgOf[next] = g /\ Pending(next) /\ p \in Charge(next, c)
    BY DEF Inv, DueInv
  <2> QED BY <1>12, <2>2
<1>16. HolderInv'
  <2>1. SUFFICES ASSUME NEW d \in Cpus, Container(CgOf[running[d]])
                 PROVE  h(d)' # <<>> /\ h(d)'[Len(h(d)')].cg = CgOf[running[d]]
    BY <1>1 DEF HolderInv
  <2>2. CASE d = c
    <3>1. e \in AP!Entry(AP!Owners) /\ h(c) \in Seq(AP!Entry(AP!Owners))
      BY <1>2, <1>8 DEF AP!Entry, Good
    <3>2. Append(h(c), e) # <<>> /\ Append(h(c), e)[Len(Append(h(c), e))] = e
      BY <3>1, AppendProperties
    <3> QED BY <1>7, <2>2, <3>2
  <2>3. CASE d # c
    BY <1>7, <2>1, <2>3 DEF Inv, HolderInv
  <2> QED BY <2>2, <2>3
<1>17. KernelInv' /\ TraceInv'
  BY <1>1 DEF Inv, KernelInv, TraceInv
<1>18. TypeOK'
  <2>1. trace' \in Seq(EventType)
    BY EmptySeq
  <2> QED BY <1>1, <1>3, <2>1 DEF Inv, TypeOK, EventType
<1>19. now' <= clock'
  BY <1>1, <1>2
<1> QED BY <1>3, <1>13, <1>14, <1>15, <1>16, <1>17, <1>18, <1>19 DEF Inv, AP!IInv

(* One event of the trace, of any shape, is handled.                       *)
LEMMA HandleKeeps ==
  ASSUME Inv, Handle
  PROVE  Inv'
<1> DEFINE first == Head(trace)
<1>1. /\ trace # <<>> /\ trace' = Tail(trace) /\ UNCHANGED <<kernelVars, truthVars>>
      /\ \/ first.kind = "enqueue" /\ Analyzer!HandleEnqueue(first.tid, clock)
         \/ first.kind = "switch" /\ Analyzer!HandleSwitch(first.tid, first.cpu, clock)
  BY DEF Handle
<1>2. running' = running /\ \A c \in Cpus : running[c] \in Tids
  BY <1>1 DEF kernelVars, Inv, TypeOK
<1>3. /\ Enqueued = EnqueuedIn(trace) /\ Switched = SwitchedIn(trace, running)
      /\ Enqueued' = EnqueuedIn(trace') /\ Switched' = SwitchedIn(trace', running)
  BY <1>2 DEF Enqueued, Switched
<1>4. ASSUME NEW t \in Tids, trace = <<EnqueueEvent(t)>>
      PROVE  Inv'
  <2>1. first = EnqueueEvent(t) /\ trace' = <<>>
    BY <1>1, <1>4, EventTypes, TwoEvents
  <2>2. AP!HandleEnqueue(t, clock)
    BY <1>1, <2>1, SameEnqueue DEF EnqueueEvent
  <2>3. Enqueued = {t} /\ Enqueued' = {} /\ Switched = {} /\ Switched' = {}
    BY <1>3, <1>4, <2>1, TraceShapes
  <2>4. trace' \in Seq(EventType) /\ TraceInv'
    BY <2>1, EmptySeq DEF TraceInv
  <2> QED BY <1>1, <2>2, <2>3, <2>4, HandleEnqueueKeeps
<1>5. ASSUME NEW c \in Cpus, trace = <<SwitchEvent(running[c], c)>>
      PROVE  Inv'
  <2>1. first = SwitchEvent(running[c], c) /\ trace' = <<>>
    BY <1>1, <1>2, <1>5, EventTypes, TwoEvents
  <2>2. AP!HandleSwitch(running[c], c, clock)
    BY <1>1, <1>2, <2>1, SameSwitch DEF SwitchEvent
  <2>3. Enqueued = {} /\ Switched = {c}
    BY <1>3, <1>5, TraceShapes
  <2> QED BY <1>1, <2>1, <2>2, <2>3, HandleSwitchKeeps
<1>6. ASSUME NEW c \in Cpus, NEW t \in Tids \ {running[c]},
             trace = <<EnqueueEvent(t), SwitchEvent(running[c], c)>>
      PROVE  Inv'
  <2>1. /\ EnqueueEvent(t) \in EventType /\ SwitchEvent(running[c], c) \in EventType
    BY <1>2, EventTypes
  <2>2. /\ first = EnqueueEvent(t) /\ trace' = <<SwitchEvent(running[c], c)>>
        /\ trace' \in Seq(EventType)
    BY <1>1, <1>6, <2>1, TwoEvents
  <2>3. AP!HandleEnqueue(t, clock)
    BY <1>1, <2>2, SameEnqueue DEF EnqueueEvent
  <2>4. Enqueued = {t} /\ Switched = {c}
    BY <1>3, <1>6, TraceShapes
  <2>5. Enqueued' = {} /\ Switched' = {c}
    BY <1>3, <2>2, TraceShapes
  <2>6. TraceInv'
    BY <1>2, <2>2 DEF TraceInv
  <2>7. \A d \in Switched : running[d] # t
    BY <1>6, <2>4
  <2>8. Switched' = Switched
    BY <2>4, <2>5
  <2> QED BY <1>1, <2>2, <2>3, <2>4, <2>5, <2>6, <2>7, <2>8, HandleEnqueueKeeps
<1> QED BY <1>1, <1>4, <1>5, <1>6 DEF Inv, TraceInv

-------------------------------------------------------------------------------
(* The invariant, and what follows from it.                                *)

LEMMA InvInit == Init => Inv
<1> SUFFICES ASSUME Init PROVE Inv
  OBVIOUS
<1> USE DEF Init
<1>1. Enqueued = {} /\ Switched = {}
  BY TraceShapes DEF Enqueued, Switched
<1>2. AP!IInv
  BY SameInit, InstanceAssumptions, AP!InvInit
<1>3. /\ now = 0 /\ \A c \in Cpus : running[c] = Idle
      /\ \A t \in Tids : pending_enqueues[t] = AP!None
      /\ \A g \in Targets : cpu_waits[g] = {}
  BY CgroupFacts, SameInit DEF AP!Init
<1>4. TypeOK
  <2>1. trace \in Seq(EventType)
    BY EmptySeq
  <2>2. Analyzer!TypeOK
    BY <1>2, SameType DEF AP!IInv
  <2> QED BY <2>1, <2>2, BoundAssumption DEF TypeOK, EventType, Tids
<1>5. KernelInv /\ TraceInv
  BY <1>3 DEF KernelInv, TraceInv
<1>6. HolderInv
  BY <1>3, CgroupFacts DEF HolderInv
<1>7. BehindInv /\ DueInv
  BY CgroupFacts DEF BehindInv, DueInv
<1>8. WaitInv /\ ChargedIsWaiting
  BY <1>3, CgroupFacts DEF WaitInv, ChargedIsWaiting, Pending
<1>9. now <= clock
  BY <1>3
<1> QED BY <1>2, <1>4, <1>5, <1>6, <1>7, <1>8, <1>9 DEF Inv, AP!IInv

LEMMA InvStep == Inv /\ [Next]_vars => Inv'
<1> SUFFICES ASSUME Inv, [Next]_vars PROVE Inv'
  OBVIOUS
<1>1. queued \in [Threads -> Cpus \cup {NoCpu}] /\ Threads \subseteq Tids
  BY DEF Inv, TypeOK, Tids
<1>2. ASSUME NEW t \in Threads, OnCpu(t) PROVE queued[t] = NoCpu
  BY <1>2, TidsAssumption DEF OnCpu, Inv, KernelInv
<1>3. CASE Tick
  BY <1>3, TickKeeps
<1>4. CASE Handle
  BY <1>4, HandleKeeps
<1>5. ASSUME NEW t \in Threads, NEW c \in Cpus, NEW by \in Cpus, Wake(t, c, by)
      PROVE  Inv'
  <2>1. queued' = [queued EXCEPT ![t] = c] /\ trace = <<>> /\ EnqueueTask(t, by) /\ ~OnCpu(t)
    BY <1>5 DEF Wake, Quiet, Blocked
  <2> QED BY <1>1, <2>1, EnqueueKeeps
<1>6. ASSUME NEW t \in Threads, NEW c \in Cpus, NEW by \in Cpus, Move(t, c, by)
      PROVE  Inv'
  <2>1. queued' = [queued EXCEPT ![t] = c] /\ trace = <<>> /\ EnqueueTask(t, by) /\ ~OnCpu(t)
    BY <1>2, <1>6 DEF Move, Quiet
  <2> QED BY <1>1, <2>1, EnqueueKeeps
<1>7. ASSUME NEW t \in Threads, NEW by \in Cpus, Requeue(t, by)
      PROVE  Inv'
  <2>1. queued' = queued /\ trace = <<>> /\ EnqueueTask(t, by) /\ queued[t] = NoCpu
    BY <1>2, <1>7 DEF Requeue, Quiet
  <2> QED BY <1>1, <2>1, EnqueueKeeps
<1>8. ASSUME NEW c \in Cpus, NEW next \in Tids, NEW runnable \in BOOLEAN,
             NEW stays \in BOOLEAN, Schedule(c, next, runnable, stays)
      PROVE  Inv'
  BY <1>8, ScheduleKeeps
<1>9. CASE UNCHANGED vars
  BY <1>9 DEF vars, kernelVars, analyzerVars, truthVars, Inv, TypeOK, Analyzer!TypeOK,
       Analyzer!Owners, AP!HistoriesInOrder, AP!InOrder, TraceInv, KernelInv, HolderInv,
       BehindInv, DueInv, WaitInv, At, Charge, Pending, Enqueued, Switched, ChargedIsWaiting
<1> QED BY <1>3, <1>4, <1>5, <1>6, <1>7, <1>8, <1>9 DEF Next

LEMMA Invariant == Spec => []Inv
  BY InvInit, InvStep, PTL DEF Spec

(* The hooks, the trace, the analyzer and the truth beside them keep their *)
(* types whatever the scheduler does.                                      *)
THEOREM TypeCorrect == Spec => []TypeOK
<1>1. Inv => TypeOK
  BY DEF Inv
<1> QED BY <1>1, Invariant, PTL

(* What is taken off a makespan for the CPU was waiting, whatever is woken,*)
(* moved, preempted or requeued, and wherever: the recorded enqueues and   *)
(* switches never turn time in which a cgroup ran or slept into a wait.    *)
(* It is a property of the attribution: the ablation charges a thread for  *)
(* its own earlier service.                                                *)
THEOREM ChargesAreWaits == ~NoAttribution => (Spec => []ChargedIsWaiting)
<1>1. ~NoAttribution => (Inv => ChargedIsWaiting)
  BY DEF Inv
<1>2. CASE NoAttribution
  BY <1>2
<1>3. CASE ~NoAttribution
  <2>1. Inv => ChargedIsWaiting
    BY <1>1, <1>3
  <2> QED BY <2>1, Invariant, PTL
<1> QED BY <1>2, <1>3

(* Once the analyzer is up to date, every instant a thread of a container  *)
(* waited behind another one, of a wait an event told of, is charged, with *)
(* the attribution and without it.  No event tells of the wait of a thread *)
(* that lost the CPU to a root thread, or that lost it in a state other    *)
(* than TASK_RUNNING.                                                      *)
THEOREM WaitsAreCharged == Spec => []ForeignHoldIsCharged
<1>1. Inv => ForeignHoldIsCharged
  <2> SUFFICES ASSUME Inv, trace = <<>> PROVE \A g \in Targets : due[g] \subseteq cpu_waits[g]
    BY DEF ForeignHoldIsCharged
  <2>1. Switched = {}
    BY TraceShapes DEF Switched
  <2> QED BY <2>1 DEF Inv, DueInv
<1> QED BY <1>1, Invariant, PTL

-------------------------------------------------------------------------------
(* The analyzer within.                                                    *)

LEMMA StepIsAnalyzers == Inv /\ [Next]_vars => [AP!Next]_AP!vars
<1> SUFFICES ASSUME Inv, [Next]_vars PROVE [AP!Next]_AP!vars
  OBVIOUS
<1>1. CASE Handle
  <2> DEFINE first == Head(trace)
  <2>1. /\ trace # <<>>
        /\ \/ first.kind = "enqueue" /\ Analyzer!HandleEnqueue(first.tid, clock)
           \/ first.kind = "switch" /\ Analyzer!HandleSwitch(first.tid, first.cpu, clock)
    BY <1>1 DEF Handle
  <2>2. clock \in 0 .. MaxTime /\ \A c \in Cpus : running[c] \in Tids
    BY DEF Inv, TypeOK
  <2>3. \/ \E t \in Tids : first = EnqueueEvent(t)
        \/ \E c \in Cpus : first = SwitchEvent(running[c], c)
    <3>1. ASSUME NEW t \in Tids, NEW c \in Cpus
          PROVE  /\ Head(<<EnqueueEvent(t)>>) = EnqueueEvent(t)
                 /\ Head(<<SwitchEvent(running[c], c)>>) = SwitchEvent(running[c], c)
                 /\ Head(<<EnqueueEvent(t), SwitchEvent(running[c], c)>>) = EnqueueEvent(t)
      BY <2>2, EventTypes, TwoEvents
    <3>2. CASE \E t \in Tids : trace = <<EnqueueEvent(t)>>
      <4>1. PICK t \in Tids : trace = <<EnqueueEvent(t)>>
        BY <3>2
      <4>2. Head(<<EnqueueEvent(t)>>) = EnqueueEvent(t)
        BY EventTypes, TwoEvents
      <4> QED BY <4>1, <4>2
    <3>3. CASE \E c \in Cpus : trace = <<SwitchEvent(running[c], c)>>
      <4>1. PICK c \in Cpus : trace = <<SwitchEvent(running[c], c)>>
        BY <3>3
      <4>2. Head(<<SwitchEvent(running[c], c)>>) = SwitchEvent(running[c], c)
        BY <2>2, EventTypes, TwoEvents
      <4> QED BY <4>1, <4>2
    <3>4. CASE \E c \in Cpus : \E t \in Tids \ {running[c]} :
                 trace = <<EnqueueEvent(t), SwitchEvent(running[c], c)>>
      BY <3>1, <3>4
    <3> QED BY <2>1, <3>2, <3>3, <3>4 DEF Inv, TraceInv
  <2>4. ASSUME NEW t \in Tids, first = EnqueueEvent(t) PROVE AP!HandleEnqueue(t, clock)
    BY <2>1, <2>4, SameEnqueue DEF EnqueueEvent
  <2>5. ASSUME NEW c \in Cpus, first = SwitchEvent(running[c], c)
        PROVE  AP!HandleSwitch(running[c], c, clock)
    BY <2>1, <2>2, <2>5, SameSwitch DEF SwitchEvent
  <2> QED BY <2>2, <2>3, <2>4, <2>5 DEF AP!Next
<1>2. CASE Tick \/ UNCHANGED vars
  BY <1>2 DEF Tick, vars, analyzerVars, AP!vars
<1>3. CASE \E t \in Threads, by \in Cpus :
             Requeue(t, by) \/ \E c \in Cpus : Wake(t, c, by) \/ Move(t, c, by)
  BY <1>3 DEF Requeue, Wake, Move, EnqueueTask, analyzerVars, AP!vars
<1>4. CASE \E c \in Cpus, next \in Tids, runnable, stays \in BOOLEAN :
             Schedule(c, next, runnable, stays)
  BY <1>4 DEF Schedule, analyzerVars, AP!vars
<1> QED BY <1>1, <1>2, <1>3, <1>4 DEF Next

LEMMA SameAccounting ==
  /\ AP!Accounting!Init <=> Analyzer!Accounting!Init
  /\ [AP!Accounting!Next]_AP!Accounting!vars
       <=> [Analyzer!Accounting!Next]_Analyzer!Accounting!vars
  BY Zenon
     DEF AP!Accounting!Init, AP!Accounting!Next, AP!Accounting!vars, AP!Accounting!Wake,
         AP!Accounting!Run, AP!Accounting!Pass, AP!Accounting!Until, AP!Accounting!ChargedTo,
         AP!Accounting!Owners, AP!Holder, AP!Waiting, AP!Added, AP!NoCg, AP!None,
         AP!ClosedOpen, AP!HeldAt, AP!Current, AP!Charged,
         Analyzer!Accounting!Init, Analyzer!Accounting!Next, Analyzer!Accounting!vars,
         Analyzer!Accounting!Wake, Analyzer!Accounting!Run, Analyzer!Accounting!Pass,
         Analyzer!Accounting!Until, Analyzer!Accounting!ChargedTo,
         Analyzer!Accounting!Owners, Analyzer!Holder, Analyzer!Waiting, Analyzer!Added,
         Analyzer!NoCg, Analyzer!None, Analyzer!ClosedOpen, Analyzer!HeldAt,
         Analyzer!Current, Analyzer!Charged

(* The two hooks give the analyzer nothing but what it is specified for:   *)
(* events of threads and CPUs there are, in order of time.  So on what is  *)
(* recorded of any scheduling it comes to the same as the accounting kept  *)
(* as time passes.                                                         *)
THEOREM CapturedIsExact == Spec => Analyzer!ImplementsOccupancy
<1>1. Init => AP!Init
  BY SameInit DEF Init
<1>2. Spec => AP!Spec
  BY <1>1, Invariant, StepIsAnalyzers, PTL DEF Spec, AP!Spec
<1>3. AP!Spec => AP!ImplementsOccupancy
  BY InstanceAssumptions, AP!LookingBackIsExact
<1> QED BY <1>2, <1>3, SameAccounting, PTL
        DEF AP!ImplementsOccupancy, Analyzer!ImplementsOccupancy,
            AP!Accounting!Spec, Analyzer!Accounting!Spec
===============================================================================
