---------------------------- MODULE NoiseFreeProofs ----------------------------
(***************************************************************************)
(* Proofs about NoiseFree, for traces of any length over any CPUs, packets *)
(* and requests: what is taken off a makespan is within it, was waited for *)
(* and, of a cgroup that is alone, is nothing.  The handlers of the CPU    *)
(* are those of CpuWaitProofs, and those of the queues of QueueWaitProofs; *)
(* the proofs about Softirq, which NoiseFree extends and implements, come  *)
(* first.                                                                  *)
(***************************************************************************)
EXTENDS NoiseFree, SequenceTheorems, FiniteSetTheorems, TLAPS

CP == INSTANCE CpuWaitProofs

(* The lemmas on a queue; this instance is the network's, and they are of  *)
(* any starts, services and waits.                                         *)
QP == INSTANCE QueueWaitProofs WITH
  Keys <- Skbs, device <- "net", pending <- pending_packets,
  history <- net_dequeue_history, queue_waits <- net_waits

(* The disk's, for the accounting its queue implements.                    *)
QD == INSTANCE QueueWaitProofs WITH
  Keys <- Requests, device <- "block", pending <- pending_block_requests,
  history <- block_issue_history, queue_waits <- bio_waits

Later == now <= now' /\ now' \in 0 .. MaxTime /\ events' \in 0 .. MaxEvents

(* Event i entered the softirq that CPU c is still in.                     *)
Entered(c, i) ==
  /\ i \in DOMAIN log /\ log[i].kind = "entry" /\ log[i].cpu = c
  /\ \A k \in DOMAIN log : i < k /\ log[k].cpu = c => log[k].kind = "service"

(* The services of cgroup g on CPU c since event i.                        *)
ServedSince(c, i, g) ==
  {k \in DOMAIN log : /\ i < k /\ log[k].cpu = c
                      /\ log[k].kind = "service" /\ log[k].cg = g}

(* A CPU is in the softirq of its last entry, if no exit came since, and   *)
(* has counted the services of its own since then.                         *)
PendingOf(c) ==
  LET softirq == pending_softirqs[c]
  IN  /\ softirq.entry <= now
      /\ softirq.entry = -1 => softirq = NoSoftirq
      /\ softirq = NoSoftirq => \A i \in DOMAIN log : ~Entered(c, i)
      /\ softirq # NoSoftirq =>
           \E i \in DOMAIN log :
             /\ Entered(c, i) /\ log[i].ts = softirq.entry
             /\ \A g \in Cgroups : softirq.counts[g] = Cardinality(ServedSince(c, i, g))

PendingInv == \A c \in Cpus : PendingOf(c)

ServiceInv == \A k \in DOMAIN log : log[k].kind = "service" => log[k].cg \in Cgroups

(* What is charged is past, and where all events are of one CPU it is      *)
(* before the softirq the CPU is in.                                       *)
PastInv == \A g \in Targets : \A p \in softirq_self[g] \cup softirq_other[g] : p < now

OneCpu == \A i, j \in DOMAIN log : log[i].cpu = log[j].cpu

ApartInv ==
  OneCpu =>
    \A g \in Targets :
      /\ softirq_self[g] \cap softirq_other[g] = {}
      /\ \A c \in Cpus : pending_softirqs[c] # NoSoftirq =>
           \A p \in softirq_self[g] \cup softirq_other[g] : p < pending_softirqs[c].entry

SoftirqInv ==
  /\ SoftirqTypeOK /\ PendingInv /\ ServiceInv /\ PastInv /\ ApartInv /\ SharesComeFromService

(* The two queues, with what they record in order.                         *)
NetInv == QP!QueueGood(Cgroups, Skbs, pending_packets, net_dequeue_history, net_waits, now)
DiskInv == QP!QueueGood(Cgroups, Requests, pending_block_requests, block_issue_history, bio_waits, now)

(* No softirq counts a service the queues have not seen.                   *)
Served(g) ==
  \/ \E i \in DOMAIN net_dequeue_history : net_dequeue_history[i].cg = g
  \/ \E i \in DOMAIN block_issue_history : block_issue_history[i].cg = g

SoftInv ==
  /\ SoftirqInv
  /\ \A c \in Cpus, g \in Cgroups : pending_softirqs[c].counts[g] > 0 => Served(g)

(* The lifetimes.                                                          *)
RangeInv ==
  /\ cgroup_time_range \in [Cgroups -> [first : Nat, last : Nat, seen : BOOLEAN]]
  /\ \A g \in Cgroups : LET range == cgroup_time_range[g]
                        IN  range.first <= range.last /\ range.last <= now

OutstandingInv == outstanding \in [Cgroups -> SUBSET Nat] /\ QueueWaitsAreOutstanding

(* A cgroup that was alone was charged nothing.                            *)
SoloInv == \A g \in Targets : OnlyServed(g) => total_unique_wait(g) = {}

Inv ==
  /\ CP!IInv /\ NetInv /\ DiskInv /\ SoftInv /\ RangeInv /\ OutstandingInv
  /\ ~NoAttribution => SoloInv

-------------------------------------------------------------------------------
(* The constants and the instances.                                        *)

LEMMA CgroupFacts ==
  /\ Cgroups \subseteq Nat \ {0} /\ \A t \in Tids : CgOf[t] \in Cgroups
  /\ CP!Owners \subseteq Cgroups /\ Targets \subseteq CP!Owners /\ Targets \subseteq Cgroups
<1>1. \A t \in Tids : CgOf[t] \in Cgroups
  BY ThreadsAssumption
<1>2. CP!Owners = {CgOf[t] : t \in Tids}
  BY DEF CP!Owners
<1> QED BY <1>1, <1>2, CgroupsAssumption, MeasuredAssumption

LEMMA InstanceAssumptions ==
  /\ CP!CgroupAssumption /\ CP!BoundAssumption /\ CP!AttributionAssumption
  /\ QP!CgroupsAssumption /\ QP!BoundAssumption /\ QP!AttributionAssumption
<1>1. CgOf \in [Tids -> Nat \ {0}]
  BY ThreadsAssumption, CgroupsAssumption
<1> QED BY <1>1, CgroupsAssumption, BoundAssumption, AttributionAssumption
        DEF CP!CgroupAssumption, CP!BoundAssumption, CP!AttributionAssumption,
            QP!CgroupsAssumption, QP!BoundAssumption, QP!AttributionAssumption

(* The slices of the instances are those of WaitWindows.                   *)
LEMMA SameCharge ==
  ASSUME NEW h, NEW a, NEW b, NEW mine
  PROVE  Cpu!CpuCharge(h, a, b, mine) = CP!CpuCharge(h, a, b, mine)
  BY Zenon DEF Cpu!CpuCharge, Cpu!LeadSlice, Cpu!Slices, Cpu!Before, Cpu!Charged, Cpu!LeadEnd,
       Cpu!SliceEnd, Cpu!Window, Cpu!ClosedOpen, Cpu!Min, Cpu!Max,
       CP!CpuCharge, CP!LeadSlice, CP!Slices, CP!Before, CP!Charged, CP!LeadEnd,
       CP!SliceEnd, CP!Window, CP!ClosedOpen, CP!Min, CP!Max

LEMMA SameQueueCharge ==
  ASSUME NEW h, NEW a, NEW b, NEW mine
  PROVE  /\ Net!QueueCharge(h, a, b, mine) \subseteq
              QP!LeadSlice(h, a, b, mine) \cup QP!Spans(h, a, b, mine)
         /\ Disk!QueueCharge(h, a, b, mine) \subseteq
              QP!LeadSlice(h, a, b, mine) \cup QP!Spans(h, a, b, mine)
<1>1. /\ Net!LeadSlice(h, a, b, mine) = QP!LeadSlice(h, a, b, mine)
      /\ Net!Spans(h, a, b, mine) = QP!Spans(h, a, b, mine)
  BY Zenon DEF Net!LeadSlice, Net!Spans, Net!Before, Net!Charged, Net!LeadEnd,
       Net!Window, Net!ClosedOpen, Net!Min, Net!Max,
       QP!LeadSlice, QP!Spans, QP!Before, QP!Charged, QP!LeadEnd, QP!Window, QP!ClosedOpen, QP!Min, QP!Max
<1>2. /\ Disk!LeadSlice(h, a, b, mine) = QP!LeadSlice(h, a, b, mine)
      /\ Disk!Spans(h, a, b, mine) = QP!Spans(h, a, b, mine)
  BY Zenon DEF Disk!LeadSlice, Disk!Spans, Disk!Before, Disk!Charged, Disk!LeadEnd,
       Disk!Window, Disk!ClosedOpen, Disk!Min, Disk!Max,
       QP!LeadSlice, QP!Spans, QP!Before, QP!Charged, QP!LeadEnd, QP!Window, QP!ClosedOpen, QP!Min, QP!Max
<1> QED BY <1>1, <1>2 DEF Net!QueueCharge, Disk!QueueCharge

LEMMA SameType ==
  /\ Cpu!TypeOK <=> CP!TypeOK
  /\ NetInv => (Net!TypeOK <=> now \in 0 .. MaxTime /\ events \in 0 .. MaxEvents)
  /\ DiskInv => (Disk!TypeOK <=> now \in 0 .. MaxTime /\ events \in 0 .. MaxEvents)
<1>1. Cpu!TypeOK <=> CP!TypeOK
  BY DEF Cpu!TypeOK, Cpu!Owners, Cpu!None, CP!TypeOK, CP!Owners, CP!None
<1>2. NetInv => (Net!TypeOK <=> now \in 0 .. MaxTime /\ events \in 0 .. MaxEvents)
  BY DEF NetInv, QP!QueueGood, Net!TypeOK, Net!None, QP!NoStart, QP!Entry
<1>3. DiskInv => (Disk!TypeOK <=> now \in 0 .. MaxTime /\ events \in 0 .. MaxEvents)
  BY DEF DiskInv, QP!QueueGood, Disk!TypeOK, Disk!None, QP!NoStart, QP!Entry
<1> QED BY <1>1, <1>2, <1>3

-------------------------------------------------------------------------------
(* Softirq by itself: what is charged, from the log of its events.         *)

(* A softirq that served one cgroup only has all its services from there.  *)
LEMMA TotalOfOne ==
  ASSUME NEW counts \in [Cgroups -> Nat], NEW g \in Cgroups,
         \A h \in Cgroups \ {g} : counts[h] = 0
  PROVE  TotalOf(counts) = counts[g]
<1> DEFINE All == UNION {{h} \X (1 .. counts[h]) : h \in Cgroups}
           mine == {g} \X (1 .. counts[g])
<1>1. \A h \in Cgroups \ {g} : 1 .. counts[h] = {}
  OBVIOUS
<1>2. All = mine
  BY <1>1
<1>3. IsFiniteSet(1 .. counts[g]) /\ Cardinality(1 .. counts[g]) = counts[g] /\ counts[g] \in Nat
  BY FS_Interval
<1>4. IsFiniteSet({g}) /\ Cardinality({g}) = 1
  BY FS_Singleton
<1>5. Cardinality(mine) = 1 * counts[g]
  BY <1>3, <1>4, FS_Product
<1>6. TotalOf(counts) = Cardinality(All)
  BY DEF TotalOf
<1>7. 1 * counts[g] = counts[g]
  BY <1>3
<1> QED BY <1>2, <1>5, <1>6, <1>7, Zenon

(* Division with remainder.                                                *)
LEMMA Quotient ==
  ASSUME NEW x \in Nat, NEW t \in Nat \ {0}
  PROVE  /\ x \div t \in Nat
         /\ x % t \in 0 .. t - 1
         /\ x = t * (x \div t) + (x % t)
<1>1. x \div t \in Int /\ x % t \in Int /\ 0 <= x % t /\ x % t < t
  OBVIOUS
<1>2. x = t * (x \div t) + (x % t)
  OBVIOUS
<1>3. x \div t >= 0
  BY <1>1, <1>2
<1> QED BY <1>1, <1>2, <1>3

(* The two shares of a softirq that _handle_softirq_exit gives a cgroup,   *)
(* however the ratios were rounded: its own, from the entry on, and that   *)
(* of the others, up to the exit, do not overlap, and two instants at the  *)
(* most are in neither.                                                    *)
THEOREM SharesFit ==
  ASSUME NEW entry \in Nat, NEW duration \in Nat, NEW total \in Nat \ {0}, NEW n \in 0 .. total,
         NEW mine \in Shares(duration, n, total),
         NEW others \in Shares(duration, total - n, total)
  PROVE  /\ mine \in 0 .. duration /\ others \in 0 .. duration
         /\ mine + others \in duration - 2 .. duration
         /\ ClosedOpen(entry, entry + mine)
              \cap ClosedOpen(entry + duration - others, entry + duration) = {}
<1> DEFINE x == duration * n
           y == duration * (total - n)
<1>1. x \in Nat /\ y \in Nat /\ x + y = duration * total
  OBVIOUS
<1>2. PICK q, r, a, b : q = x \div total /\ r = x % total /\ a = y \div total /\ b = y % total
  OBVIOUS
<1>3. /\ q \in Nat /\ a \in Nat /\ r \in 0 .. total - 1 /\ b \in 0 .. total - 1
      /\ x = total * q + r /\ y = total * a + b
  BY <1>1, <1>2, Quotient
<1>4. mine = q \/ (mine = q - 1 /\ r = 0 /\ q > 0)
  BY <1>2 DEF Shares
<1>5. others = a \/ (others = a - 1 /\ b = 0 /\ a > 0)
  BY <1>2 DEF Shares
<1> HIDE DEF x, y
<1>6. duration * total = total * (q + a) + (r + b)
  BY <1>1, <1>3
(* Either both quotients are whole, or one instant is cut in two.          *)
<1>7. q + a = duration \/ (q + a = duration - 1 /\ r + b = total)
  <2>1. PICK e \in Int : e = duration - (q + a)
    BY <1>3
  <2>2. total * e = r + b
    BY <1>3, <1>6, <2>1
  <2>3. e >= 0
    BY <1>3, <2>1, <2>2
  <2>4. e < 2
    BY <1>3, <2>1, <2>2
  <2> QED BY <1>3, <2>1, <2>2, <2>3, <2>4
<1>8. q + a = duration - 1 => r # 0 /\ b # 0
  BY <1>3, <1>7
<1>9. mine \in Nat /\ others \in Nat /\ mine + others \in duration - 2 .. duration
  BY <1>3, <1>4, <1>5, <1>7, <1>8
<1> QED BY <1>9 DEF ClosedOpen


(* The services of a softirq are at least as many as those of each cgroup. *)
LEMMA TotalBounds ==
  ASSUME NEW counts \in [Cgroups -> Nat]
  PROVE  /\ TotalOf(counts) \in Nat
         /\ \A g \in Cgroups : counts[g] <= TotalOf(counts)
         /\ TotalOf(counts) > 0 => \E g \in Cgroups : counts[g] > 0
<1> DEFINE Of(g) == {g} \X (1 .. counts[g])
           All == UNION {Of(g) : g \in Cgroups}
<1>1. \A g \in Cgroups : IsFiniteSet(Of(g)) /\ Cardinality(Of(g)) = counts[g]
  <2> SUFFICES ASSUME NEW g \in Cgroups
               PROVE  IsFiniteSet(Of(g)) /\ Cardinality(Of(g)) = counts[g]
    OBVIOUS
  <2>1. IsFiniteSet(1 .. counts[g]) /\ Cardinality(1 .. counts[g]) = counts[g] /\ counts[g] \in Nat
    BY FS_Interval
  <2>2. IsFiniteSet({g}) /\ Cardinality({g}) = 1
    BY FS_Singleton
  <2>3. IsFiniteSet(Of(g)) /\ Cardinality(Of(g)) = 1 * counts[g]
    BY <2>1, <2>2, FS_Product
  <2> QED BY <2>1, <2>3
<1>2. IsFiniteSet({Of(g) : g \in Cgroups})
  <2> DEFINE all == {Of(g) : g \in Cgroups}
             f == [g \in Cgroups |-> Of(g)]
  <2>1. f \in [Cgroups -> all] /\ \A t \in all : \E g \in Cgroups : f[g] = t
    OBVIOUS
  <2>2. f \in Surjection(Cgroups, all)
    BY <2>1 DEF Surjection
  <2> HIDE DEF f
  <2>3. IsFiniteSet(all)
    <3> HIDE DEF all
    <3> QED BY <2>2, CgroupsAssumption, FS_Surjection
  <2> QED BY <2>3
<1>3. IsFiniteSet(All) /\ Cardinality(All) \in Nat
  BY <1>1, <1>2, FS_UNION, FS_CardinalityType
<1>4. TotalOf(counts) = Cardinality(All)
  BY DEF TotalOf
<1>5. \A g \in Cgroups : counts[g] <= Cardinality(All)
  <2> SUFFICES ASSUME NEW g \in Cgroups PROVE counts[g] <= Cardinality(All)
    OBVIOUS
  <2>1. Of(g) \in SUBSET All
    OBVIOUS
  <2>2. Cardinality(Of(g)) <= Cardinality(All)
    BY <1>3, <2>1, FS_Subset
  <2> QED BY <1>1, <2>2
<1>6. ASSUME Cardinality(All) > 0 PROVE \E g \in Cgroups : counts[g] > 0
  <2>1. All # {}
    BY <1>6, FS_EmptySet
  <2>2. PICK g \in Cgroups : 1 .. counts[g] # {}
    BY <2>1
  <2>3. counts[g] > 0
    BY <2>2
  <2> QED BY <2>3
<1> HIDE DEF All
<1> QED BY <1>3, <1>4, <1>5, <1>6

(* A share of nothing is nothing.                                          *)
LEMMA NoShare ==
  ASSUME NEW duration \in Nat, NEW total \in Nat \ {0}, NEW share \in Shares(duration, 0, total)
  PROVE  share = 0
<1>1. (duration * 0) \div total = 0
  OBVIOUS
<1> QED BY <1>1 DEF Shares

-------------------------------------------------------------------------------
(* The softirqs of a log that grows.                                       *)

LEMMA LogGrows ==
  ASSUME log \in Seq(LogEntry), NEW e \in LogEntry, log' = Append(log, e)
  PROVE  /\ log' \in Seq(LogEntry) /\ Len(log) \in Nat /\ DOMAIN log = 1 .. Len(log)
         /\ DOMAIN log' = 1 .. Len(log) + 1
         /\ \A k \in DOMAIN log : log'[k] = log[k] /\ log[k] \in LogEntry
         /\ log'[Len(log) + 1] = e
<1>1. Len(log) \in Nat /\ DOMAIN log = 1 .. Len(log)
  BY LenProperties
<1>2. \A k \in DOMAIN log : log[k] \in LogEntry
  BY ElementOfSeq
<1>3. /\ log' \in Seq(LogEntry) /\ Len(log') = Len(log) + 1
      /\ \A k \in 1 .. Len(log) : log'[k] = log[k]
      /\ log'[Len(log) + 1] = e
  BY AppendProperties
<1>4. DOMAIN log' = 1 .. Len(log')
  BY <1>3, LenProperties
<1> QED BY <1>1, <1>2, <1>3, <1>4

(* What is known of a softirq that is over does not change.                *)
LEMMA WindowsStay ==
  ASSUME log \in Seq(LogEntry), NEW e \in LogEntry, log' = Append(log, e), NEW w \in Windows
  PROVE  /\ w \in Windows' /\ w[1] \in DOMAIN log /\ w[2] \in DOMAIN log
         /\ Instants(w)' = Instants(w)
         /\ \A G : ServedIn(w, G)' = ServedIn(w, G)
<1>1. /\ w[1] \in DOMAIN log /\ w[2] \in DOMAIN log /\ w \in (DOMAIN log) \X (DOMAIN log)
      /\ w[1] < w[2]
      /\ log[w[1]].kind = "entry" /\ log[w[2]].kind = "exit" /\ log[w[1]].cpu = log[w[2]].cpu
      /\ \A k \in w[1] + 1 .. w[2] - 1 : log[k].cpu = log[w[1]].cpu => log[k].kind = "service"
  BY DEF Windows
<1>2. \A k \in w[1] .. w[2] : k \in DOMAIN log /\ k \in DOMAIN log' /\ log'[k] = log[k]
  BY <1>1, LogGrows
<1>3. w \in (DOMAIN log') \X (DOMAIN log')
  BY <1>1, LogGrows
<1>4. w[1] \in w[1] .. w[2] /\ w[2] \in w[1] .. w[2] /\ w[1] + 1 .. w[2] - 1 \subseteq w[1] .. w[2]
  BY <1>1, LogGrows
<1>5. w \in Windows'
  BY <1>1, <1>2, <1>3, <1>4 DEF Windows
<1>6. Instants(w)' = Instants(w)
  BY <1>2, <1>4 DEF Instants
<1>7. \A G : ServedIn(w, G)' = ServedIn(w, G)
  <2> SUFFICES ASSUME NEW G PROVE ServedIn(w, G)' = ServedIn(w, G)
    OBVIOUS
  <2>1. {k \in w[1] .. w[2] : /\ log'[k].kind = "service" /\ log'[k].cg \in G
                              /\ log'[k].cpu = log'[w[1]].cpu}
        = {k \in w[1] .. w[2] : /\ log[k].kind = "service" /\ log[k].cg \in G
                                /\ log[k].cpu = log[w[1]].cpu}
    BY <1>2, <1>4
  <2> QED BY <2>1 DEF ServedIn
<1> QED BY <1>1, <1>5, <1>6, <1>7

(* A softirq is over when its CPU leaves it.                               *)
LEMMA WindowsGrow ==
  ASSUME log \in Seq(LogEntry), NEW e \in LogEntry, log' = Append(log, e),
         NEW w \in Windows', w \notin Windows
  PROVE  e.kind = "exit" /\ w[2] = Len(log) + 1 /\ Entered(e.cpu, w[1])
<1>1. /\ w \in (DOMAIN log') \X (DOMAIN log')
      /\ w[1] \in DOMAIN log' /\ w[2] \in DOMAIN log' /\ w[1] < w[2]
      /\ log'[w[1]].kind = "entry" /\ log'[w[2]].kind = "exit" /\ log'[w[1]].cpu = log'[w[2]].cpu
      /\ \A k \in w[1] + 1 .. w[2] - 1 : log'[k].cpu = log'[w[1]].cpu => log'[k].kind = "service"
  BY DEF Windows
<1>2. w[1] \in DOMAIN log
  BY <1>1, LogGrows
<1>3. CASE w[2] \in DOMAIN log
  <2>1. \A k \in w[1] .. w[2] : k \in DOMAIN log /\ log'[k] = log[k]
    BY <1>2, <1>3, LogGrows
  <2>2. w[1] \in w[1] .. w[2] /\ w[2] \in w[1] .. w[2] /\ w[1] + 1 .. w[2] - 1 \subseteq w[1] .. w[2]
    BY <1>1, <1>2, <1>3, LogGrows
  <2>3. w \in (DOMAIN log) \X (DOMAIN log)
    BY <1>1, <1>2, <1>3
  <2>4. w \in Windows
    BY <1>1, <2>1, <2>2, <2>3 DEF Windows
  <2> QED BY <2>4
<1>4. CASE w[2] \notin DOMAIN log
  <2>1. w[2] = Len(log) + 1 /\ log'[w[2]] = e
    BY <1>1, <1>4, LogGrows
  <2>2. log'[w[1]] = log[w[1]]
    BY <1>2, LogGrows
  <2>3. ASSUME NEW k \in DOMAIN log, w[1] < k, log[k].cpu = e.cpu
        PROVE  log[k].kind = "service"
    <3>1. k \in w[1] + 1 .. w[2] - 1 /\ log'[k] = log[k]
      BY <1>2, <2>1, <2>3, LogGrows
    <3> QED BY <1>1, <2>1, <2>2, <2>3, <3>1
  <2> QED BY <1>1, <1>2, <2>1, <2>2, <2>3 DEF Entered
<1> QED BY <1>3, <1>4


(* An event of another CPU changes nothing for the softirq a CPU is in.    *)
LEMMA OtherCpuStays ==
  ASSUME SoftirqTypeOK, SoftirqTypeOK', NEW e \in LogEntry, log' = Append(log, e), now <= now',
         NEW d \in Cpus, d # e.cpu, pending_softirqs'[d] = pending_softirqs[d], PendingOf(d)
  PROVE  PendingOf(d)'
<1>1. log \in Seq(LogEntry)
  BY DEF SoftirqTypeOK
<1>2. \A i : Entered(d, i)' <=> Entered(d, i)
  BY <1>1, LogGrows DEF Entered
<1>3. ASSUME NEW i, NEW g PROVE ServedSince(d, i, g)' = ServedSince(d, i, g)
  BY <1>1, LogGrows DEF ServedSince
<1>4. \A i \in DOMAIN log : i \in DOMAIN log' /\ log'[i] = log[i]
  BY <1>1, LogGrows
<1>5. /\ now \in Nat /\ now' \in Nat
      /\ pending_softirqs[d] \in [entry : Nat \cup {-1}, counts : [Cgroups -> Nat]]
  BY BoundAssumption DEF SoftirqTypeOK
<1>6. pending_softirqs[d].entry <= now'
  BY <1>5 DEF PendingOf
<1>7. pending_softirqs[d] = NoSoftirq => \A i \in DOMAIN log' : ~Entered(d, i)'
  BY <1>2 DEF PendingOf, Entered
<1>8. ASSUME pending_softirqs[d] # NoSoftirq
      PROVE  \E i \in DOMAIN log' :
               /\ Entered(d, i)' /\ log'[i].ts = pending_softirqs[d].entry
               /\ \A g \in Cgroups : pending_softirqs[d].counts[g] = Cardinality(ServedSince(d, i, g)')
  <2>1. PICK i \in DOMAIN log :
          /\ Entered(d, i) /\ log[i].ts = pending_softirqs[d].entry
          /\ \A g \in Cgroups : pending_softirqs[d].counts[g] = Cardinality(ServedSince(d, i, g))
    BY <1>8 DEF PendingOf
  <2>2. \A g \in Cgroups : pending_softirqs[d].counts[g] = Cardinality(ServedSince(d, i, g)')
    BY <1>3, <2>1
  <2> QED BY <1>2, <1>4, <2>1, <2>2
<1> QED BY <1>6, <1>7, <1>8 DEF PendingOf, NoSoftirq

(* An entry, which also forgets an earlier one.                            *)
LEMMA PendingEnters ==
  ASSUME SoftirqTypeOK, SoftirqTypeOK', PendingInv, NEW c \in Cpus, NEW ts \in Nat,
         now <= now', ts = now',
         pending_softirqs' = [pending_softirqs EXCEPT ![c] = [NoSoftirq EXCEPT !.entry = ts]],
         Logged("entry", c, ts, 0)
  PROVE  PendingInv'
<1> DEFINE e == [kind |-> "entry", cpu |-> c, ts |-> ts, cg |-> 0]
<1>1. log \in Seq(LogEntry) /\ e \in LogEntry /\ log' = Append(log, e) /\ e.cpu = c
  BY DEF SoftirqTypeOK, LogEntry, Logged
<1>2. PICK n \in DOMAIN log' : log'[n] = e /\ \A k \in DOMAIN log' : ~(n < k)
  BY <1>1, LogGrows
<1>3. pending_softirqs'[c] = [entry |-> ts, counts |-> [g \in Cgroups |-> 0]]
  BY DEF SoftirqTypeOK, NoSoftirq
<1>4. pending_softirqs'[c].entry = ts /\ \A g \in Cgroups : pending_softirqs'[c].counts[g] = 0
  BY <1>3
<1>5. NoSoftirq' = NoSoftirq /\ NoSoftirq.entry = -1
  BY DEF NoSoftirq
<1>6. PendingOf(c)'
  <2>1. Entered(c, n)'
    BY <1>2 DEF Entered
  <2>2. \A g \in Cgroups : ServedSince(c, n, g)' = {}
    BY <1>2 DEF ServedSince
  <2>3. \A g \in Cgroups : Cardinality(ServedSince(c, n, g)') = 0
    BY <2>2, FS_EmptySet
  <2>4. log'[n].ts = ts
    BY <1>2
  <2> HIDE DEF e
  <2>5. \E i \in DOMAIN log' :
          /\ Entered(c, i)' /\ log'[i].ts = pending_softirqs'[c].entry
          /\ \A g \in Cgroups :
               pending_softirqs'[c].counts[g] = Cardinality(ServedSince(c, i, g)')
    BY <1>2, <1>4, <2>1, <2>3, <2>4
  <2>6. pending_softirqs'[c].entry <= now' /\ pending_softirqs'[c].entry # -1
    BY <1>4
  <2> QED BY <1>5, <2>5, <2>6 DEF PendingOf
<1>7. ASSUME NEW d \in Cpus, d # c PROVE PendingOf(d)'
  <2>1. pending_softirqs'[d] = pending_softirqs[d]
    BY <1>7 DEF SoftirqTypeOK
  <2> QED BY <1>1, <1>7, <2>1, OtherCpuStays DEF PendingInv
<1> QED BY <1>6, <1>7 DEF PendingInv

LEMMA PendingExits ==
  ASSUME SoftirqTypeOK, SoftirqTypeOK', PendingInv, NEW c \in Cpus, NEW ts \in Nat, now <= now',
         pending_softirqs' = [pending_softirqs EXCEPT ![c] = NoSoftirq],
         Logged("exit", c, ts, 0)
  PROVE  PendingInv'
<1> DEFINE e == [kind |-> "exit", cpu |-> c, ts |-> ts, cg |-> 0]
           n == Len(log) + 1
<1>1. log \in Seq(LogEntry) /\ e \in LogEntry /\ log' = Append(log, e) /\ e.cpu = c
  BY DEF SoftirqTypeOK, LogEntry, Logged
<1>2. n \in DOMAIN log' /\ log'[n] = e /\ \A k \in DOMAIN log' : k = n \/ k < n
  BY <1>1, LogGrows
<1>3. pending_softirqs'[c] = NoSoftirq
  BY DEF SoftirqTypeOK
<1>4. NoSoftirq' = NoSoftirq /\ NoSoftirq.entry = -1
  BY DEF NoSoftirq
<1>5. PendingOf(c)'
  <2>1. \A i \in DOMAIN log' : ~Entered(c, i)'
    BY <1>2 DEF Entered
  <2>2. now' \in Nat
    BY BoundAssumption DEF SoftirqTypeOK
  <2>3. pending_softirqs'[c].entry <= now'
    BY <1>3, <1>4, <2>2
  <2> QED BY <1>3, <1>4, <2>1, <2>3 DEF PendingOf
<1>6. ASSUME NEW d \in Cpus, d # c PROVE PendingOf(d)'
  <2>1. pending_softirqs'[d] = pending_softirqs[d]
    BY <1>6 DEF SoftirqTypeOK
  <2> QED BY <1>1, <1>6, <2>1, OtherCpuStays DEF PendingInv
<1> QED BY <1>5, <1>6 DEF PendingInv

(* What a service changes in the softirq it is counted in.                 *)
LEMMA CountsOne ==
  ASSUME SoftirqTypeOK, NEW c \in Cpus, NEW g \in Cgroups, NEW ts, RecordEvent(g, c, ts),
         pending_softirqs[c] # NoSoftirq
  PROVE  /\ pending_softirqs'[c].entry = pending_softirqs[c].entry
         /\ pending_softirqs'[c].counts = [pending_softirqs[c].counts EXCEPT ![g] = @ + 1]
         /\ \A d \in Cpus \ {c} : pending_softirqs'[d] = pending_softirqs[d]
         /\ pending_softirqs' \in [Cpus -> [entry : Nat \cup {-1}, counts : [Cgroups -> Nat]]]
<1> DEFINE old == pending_softirqs[c]
           new == [entry |-> old.entry, counts |-> [old.counts EXCEPT ![g] = @ + 1]]
<1>1. pending_softirqs \in [Cpus -> [entry : Nat \cup {-1}, counts : [Cgroups -> Nat]]]
  BY DEF SoftirqTypeOK
<1>2. pending_softirqs' = [pending_softirqs EXCEPT ![c].counts[g] = @ + 1]
  BY Zenon DEF RecordEvent
<1>3. PICK x \in Nat \cup {-1}, y \in [Cgroups -> Nat] : old = [entry |-> x, counts |-> y]
  BY <1>1
<1>4. [old EXCEPT !.counts[g] = @ + 1] = new
  BY <1>3
<1>5. new \in [entry : Nat \cup {-1}, counts : [Cgroups -> Nat]]
  BY <1>1
<1>6. pending_softirqs' = [pending_softirqs EXCEPT ![c] = [old EXCEPT !.counts[g] = @ + 1]]
  BY <1>2, Zenon
<1>7. pending_softirqs' = [pending_softirqs EXCEPT ![c] = new]
  <2> HIDE DEF old, new
  <2> QED BY <1>4, <1>6
<1>8. new.entry = old.entry /\ new.counts = [old.counts EXCEPT ![g] = @ + 1]
  OBVIOUS
<1> HIDE DEF new, old
<1>9. pending_softirqs'[c] = new /\ \A d \in Cpus \ {c} : pending_softirqs'[d] = pending_softirqs[d]
  BY <1>1, <1>7
<1>10. pending_softirqs' \in [Cpus -> [entry : Nat \cup {-1}, counts : [Cgroups -> Nat]]]
  BY <1>1, <1>5, <1>7
<1> QED BY <1>8, <1>9, <1>10 DEF old

LEMMA PendingRecords ==
  ASSUME SoftirqTypeOK, SoftirqTypeOK', PendingInv, NEW c \in Cpus, NEW g \in Cgroups,
         NEW ts \in Nat, now <= now', RecordEvent(g, c, ts)
  PROVE  PendingInv'
<1> DEFINE e == [kind |-> "service", cpu |-> c, ts |-> ts, cg |-> g]
           n == Len(log) + 1
<1>1. log \in Seq(LogEntry) /\ e \in LogEntry /\ log' = Append(log, e) /\ e.cpu = c
  BY DEF SoftirqTypeOK, LogEntry, Logged, RecordEvent
<1>2. /\ n \in DOMAIN log' /\ log'[n] = e /\ \A k \in DOMAIN log' : k = n \/ k \in DOMAIN log
      /\ \A k \in DOMAIN log : k < n /\ k \in DOMAIN log' /\ log'[k] = log[k]
  BY <1>1, LogGrows
<1>3. NoSoftirq' = NoSoftirq /\ NoSoftirq.entry = -1 /\ now \in Nat /\ now' \in Nat
  BY BoundAssumption DEF NoSoftirq, SoftirqTypeOK
<1>4. pending_softirqs[c] \in [entry : Nat \cup {-1}, counts : [Cgroups -> Nat]]
  BY DEF SoftirqTypeOK
<1>5. CASE pending_softirqs[c] = NoSoftirq
  <2>1. pending_softirqs' = pending_softirqs
    BY <1>5 DEF RecordEvent
  <2>2. \A i \in DOMAIN log' : ~Entered(c, i)'
    <3> SUFFICES ASSUME NEW i \in DOMAIN log', Entered(c, i)' PROVE FALSE
      OBVIOUS
    <3>1. i \in DOMAIN log
      BY <1>2 DEF Entered
    <3>2. ~Entered(c, i)
      BY <1>5, <3>1 DEF PendingInv, PendingOf
    <3> QED BY <1>2, <3>1, <3>2 DEF Entered
  <2>3. pending_softirqs[c].entry <= now'
    BY <1>3, <1>5
  <2>4. PendingOf(c)'
    BY <1>3, <1>5, <2>1, <2>2, <2>3 DEF PendingOf
  <2> QED BY <1>1, <2>1, <2>4, OtherCpuStays DEF PendingInv
<1>6. CASE pending_softirqs[c] # NoSoftirq
  <2>1. /\ pending_softirqs'[c].entry = pending_softirqs[c].entry
        /\ pending_softirqs'[c].counts = [pending_softirqs[c].counts EXCEPT ![g] = @ + 1]
        /\ \A d \in Cpus \ {c} : pending_softirqs'[d] = pending_softirqs[d]
    BY <1>6, CountsOne
  <2>2. PICK i \in DOMAIN log :
          /\ Entered(c, i) /\ log[i].ts = pending_softirqs[c].entry
          /\ \A h \in Cgroups : pending_softirqs[c].counts[h] = Cardinality(ServedSince(c, i, h))
    BY <1>6 DEF PendingInv, PendingOf
  <2>3. Entered(c, i)' /\ log'[i].ts = pending_softirqs'[c].entry
    BY <1>2, <2>1, <2>2 DEF Entered
  <2>4. \A h \in Cgroups \ {g} : ServedSince(c, i, h)' = ServedSince(c, i, h)
    BY <1>2 DEF ServedSince
  <2>5. ServedSince(c, i, g)' = ServedSince(c, i, g) \cup {n}
    BY <1>2, <2>2 DEF ServedSince
  <2>6. n \notin ServedSince(c, i, g) /\ IsFiniteSet(ServedSince(c, i, g))
    <3>1. IsFiniteSet(1 .. Len(log)) /\ DOMAIN log = 1 .. Len(log)
      BY <1>1, LogGrows, FS_Interval
    <3>2. ServedSince(c, i, g) \in SUBSET (DOMAIN log)
      BY DEF ServedSince
    <3>3. n \notin DOMAIN log
      BY <1>2
    <3> HIDE DEF n
    <3> QED BY <3>1, <3>2, <3>3, FS_Subset
  <2> HIDE DEF n, e
  <2>7. Cardinality(ServedSince(c, i, g)') = Cardinality(ServedSince(c, i, g)) + 1
    BY <2>5, <2>6, FS_AddElement
  <2>8. ASSUME NEW h \in Cgroups
        PROVE  pending_softirqs'[c].counts[h] = Cardinality(ServedSince(c, i, h)')
    <3>1. CASE h = g
      BY <1>4, <2>1, <2>2, <2>7, <3>1
    <3>2. CASE h # g
      <4>1. pending_softirqs'[c].counts[h] = pending_softirqs[c].counts[h]
        BY <1>4, <2>1, <3>2
      <4> QED BY <2>2, <2>4, <3>2, <4>1
    <3> QED BY <3>1, <3>2
  <2>9. pending_softirqs[c].entry # -1 /\ pending_softirqs[c].entry <= now
    BY <1>6 DEF PendingInv, PendingOf
  <2>10. pending_softirqs'[c].entry # -1 /\ pending_softirqs'[c].entry <= now'
    BY <1>3, <1>4, <2>1, <2>9
  <2>11. PendingOf(c)'
    BY <1>2, <1>3, <2>3, <2>8, <2>10 DEF PendingOf
  <2>12. ASSUME NEW d \in Cpus, d # c PROVE PendingOf(d)'
    <3>1. pending_softirqs'[d] = pending_softirqs[d]
      BY <2>1, <2>12
    <3> QED BY <1>1, <2>12, <3>1, OtherCpuStays DEF PendingInv
  <2> QED BY <2>11, <2>12 DEF PendingInv
<1> QED BY <1>5, <1>6


-------------------------------------------------------------------------------
(* Where the shares come from.                                             *)

(* What was charged to a cgroup stays accounted for.                       *)
LEMMA OldShares ==
  ASSUME log \in Seq(LogEntry), NEW e \in LogEntry, log' = Append(log, e),
         SharesComeFromService, NEW g \in Targets,
         softirq_self[g] \subseteq softirq_self'[g], softirq_other[g] \subseteq softirq_other'[g]
  PROVE  /\ \A p \in softirq_self[g] :
              \E w \in Windows' : /\ ServedIn(w, Cgroups)' > 0 /\ p \in Instants(w)'
                                  /\ ServedIn(w, {g})' > 0
         /\ \A p \in softirq_other[g] :
              \E w \in Windows' : /\ ServedIn(w, Cgroups)' > 0 /\ p \in Instants(w)'
                                  /\ ServedIn(w, Cgroups \ {g})' > 0
         /\ \A w \in Windows : ServedIn(w, Cgroups)' > 0 =>
              Cardinality(Instants(w)' \ (softirq_self'[g] \cup softirq_other'[g])) <= 2
<1>1. /\ \A p \in softirq_self[g] :
           \E w \in Windows : /\ ServedIn(w, Cgroups) > 0 /\ p \in Instants(w)
                              /\ ServedIn(w, {g}) > 0
      /\ \A p \in softirq_other[g] :
           \E w \in Windows : /\ ServedIn(w, Cgroups) > 0 /\ p \in Instants(w)
                              /\ ServedIn(w, Cgroups \ {g}) > 0
      /\ \A w \in Windows : ServedIn(w, Cgroups) > 0 =>
           Cardinality(Instants(w) \ (softirq_self[g] \cup softirq_other[g])) <= 2
  BY DEF SharesComeFromService
<1>2. \A w \in Windows : /\ w \in Windows' /\ Instants(w)' = Instants(w)
                         /\ \A G : ServedIn(w, G)' = ServedIn(w, G)
  BY WindowsStay
<1>3. ASSUME NEW w \in Windows, ServedIn(w, Cgroups)' > 0
      PROVE  Cardinality(Instants(w)' \ (softirq_self'[g] \cup softirq_other'[g])) <= 2
  <2> DEFINE before == Instants(w) \ (softirq_self[g] \cup softirq_other[g])
             after == Instants(w) \ (softirq_self'[g] \cup softirq_other'[g])
  <2>1. Cardinality(before) <= 2
    BY <1>1, <1>2, <1>3
  <2>2. IsFiniteSet(Instants(w))
    <3>1. log[w[1]].ts \in Int /\ log[w[2]].ts - 1 \in Int
      BY WindowsStay, LogGrows DEF LogEntry
    <3> QED BY <3>1, FS_Interval DEF Instants, ClosedOpen
  <2>3. IsFiniteSet(before) /\ Cardinality(before) \in Nat
    BY <2>2, FS_Subset, FS_CardinalityType
  <2>4. after \in SUBSET before
    OBVIOUS
  <2> HIDE DEF before, after
  <2>5. Cardinality(after) <= Cardinality(before) /\ Cardinality(after) \in Nat
    BY <2>3, <2>4, FS_Subset, FS_CardinalityType
  <2>6. Cardinality(after) <= 2
    BY <2>1, <2>3, <2>5
  <2> QED BY <1>2, <2>6 DEF after
<1> QED BY <1>1, <1>2, <1>3

LEMMA SharesStay ==
  ASSUME log \in Seq(LogEntry), NEW e \in LogEntry, log' = Append(log, e), Windows' = Windows,
         SharesComeFromService, UNCHANGED <<softirq_self, softirq_other>>
  PROVE  SharesComeFromService'
<1> SUFFICES ASSUME NEW g \in Targets
             PROVE  /\ \A p \in softirq_self'[g] :
                         \E w \in Windows' : /\ ServedIn(w, Cgroups)' > 0 /\ p \in Instants(w)'
                                             /\ ServedIn(w, {g})' > 0
                    /\ \A p \in softirq_other'[g] :
                         \E w \in Windows' : /\ ServedIn(w, Cgroups)' > 0 /\ p \in Instants(w)'
                                             /\ ServedIn(w, Cgroups \ {g})' > 0
                    /\ \A w \in Windows' : ServedIn(w, Cgroups)' > 0 =>
                         Cardinality(Instants(w)' \ (softirq_self'[g] \cup softirq_other'[g])) <= 2
  BY DEF SharesComeFromService
<1> QED BY OldShares

(* An exit that no entry went before ends nothing.                         *)
LEMMA NoExitWindow ==
  ASSUME SoftirqTypeOK, PendingInv, NEW c \in Cpus, NEW ts \in Nat,
         Logged("exit", c, ts, 0), pending_softirqs[c] = NoSoftirq
  PROVE  Windows' = Windows
<1> DEFINE e == [kind |-> "exit", cpu |-> c, ts |-> ts, cg |-> 0]
<1>1. log \in Seq(LogEntry) /\ e \in LogEntry /\ log' = Append(log, e) /\ e.cpu = c
  BY DEF SoftirqTypeOK, LogEntry, Logged
<1>2. \A i : ~Entered(c, i)
  BY DEF PendingInv, PendingOf, Entered
<1> QED BY <1>1, <1>2, WindowsGrow, WindowsStay

(* The softirq that an exit ends: from its entry to now, and it served     *)
(* the cgroups that were counted.                                          *)
LEMMA ExitWindow ==
  ASSUME SoftirqTypeOK, PendingInv, ServiceInv, NEW c \in Cpus, NEW ts \in Nat,
         Logged("exit", c, ts, 0), pending_softirqs[c] # NoSoftirq
  PROVE  \E w \in Windows' :
           /\ Windows' \subseteq Windows \cup {w}
           /\ Instants(w)' = ClosedOpen(pending_softirqs[c].entry, ts)
           /\ \A G \in SUBSET Cgroups :
                ServedIn(w, G)' > 0 <=> \E g \in G : pending_softirqs[c].counts[g] > 0
<1> DEFINE e == [kind |-> "exit", cpu |-> c, ts |-> ts, cg |-> 0]
<1>1. log \in Seq(LogEntry) /\ e \in LogEntry /\ log' = Append(log, e) /\ e.cpu = c
  BY DEF SoftirqTypeOK, LogEntry, Logged
<1>2. PICK i \in DOMAIN log :
        /\ Entered(c, i) /\ log[i].ts = pending_softirqs[c].entry
        /\ \A g \in Cgroups : pending_softirqs[c].counts[g] = Cardinality(ServedSince(c, i, g))
  BY DEF PendingInv, PendingOf
<1>3. PICK n \in Nat : n = Len(log) + 1
  BY <1>1, LogGrows
<1>4. /\ DOMAIN log = 1 .. n - 1 /\ DOMAIN log' = 1 .. n /\ log'[n] = e
      /\ \A k \in DOMAIN log : log'[k] = log[k]
  BY <1>1, <1>3, LogGrows
<1> DEFINE w == <<i, n>>
<1>5. w \in Windows'
  <2>1. w \in (DOMAIN log') \X (DOMAIN log') /\ w[1] < w[2]
    BY <1>4
  <2>2. log'[w[1]].kind = "entry" /\ log'[w[2]].kind = "exit" /\ log'[w[1]].cpu = log'[w[2]].cpu
    BY <1>2, <1>4 DEF Entered
  <2>3. \A k \in w[1] + 1 .. w[2] - 1 : log'[k].cpu = log'[w[1]].cpu => log'[k].kind = "service"
    BY <1>2, <1>4 DEF Entered
  <2> QED BY <2>1, <2>2, <2>3 DEF Windows
<1>6. \A v \in Windows' : v \in Windows \/ v = w
  <2> SUFFICES ASSUME NEW v \in Windows', v \notin Windows PROVE v = w
    OBVIOUS
  <2>1. v[2] = n /\ Entered(c, v[1])
    BY <1>1, <1>3, WindowsGrow
  <2>2. v[1] = i
    BY <1>2, <1>4, <2>1 DEF Entered
  <2>3. v \in (DOMAIN log') \X (DOMAIN log')
    BY DEF Windows
  <2> QED BY <2>1, <2>2, <2>3
<1>7. Instants(w)' = ClosedOpen(pending_softirqs[c].entry, ts)
  BY <1>2, <1>4 DEF Instants
<1>8. ASSUME NEW G \in SUBSET Cgroups
      PROVE  ServedIn(w, G)' > 0 <=> \E g \in G : pending_softirqs[c].counts[g] > 0
  <2> DEFINE Of(g) == ServedSince(c, i, g)
             S == {k \in i .. n : /\ log'[k].kind = "service" /\ log'[k].cg \in G
                                  /\ log'[k].cpu = log'[i].cpu}
  <2>1. S = {k \in DOMAIN log : \E g \in G : k \in Of(g)}
    <3>1. log'[i] = log[i] /\ log[i].cpu = c /\ log[i].kind = "entry" /\ i \in Nat
      BY <1>2, <1>4 DEF Entered
    <3> QED BY <1>4, <3>1 DEF ServedSince
  <2>2. ServedIn(w, G)' = Cardinality(S)
    BY DEF ServedIn
  <2>3. IsFiniteSet(DOMAIN log)
    BY <1>4, FS_Interval
  <2>4. IsFiniteSet(S) /\ Cardinality(S) \in Nat
    <3>1. S \in SUBSET (DOMAIN log)
      BY <2>1
    <3> HIDE DEF S
    <3> QED BY <2>3, <3>1, FS_Subset, FS_CardinalityType
  <2>5. \A g \in Cgroups : IsFiniteSet(Of(g)) /\ Cardinality(Of(g)) \in Nat
    <3> SUFFICES ASSUME NEW g \in Cgroups PROVE IsFiniteSet(Of(g)) /\ Cardinality(Of(g)) \in Nat
      OBVIOUS
    <3>1. Of(g) \in SUBSET (DOMAIN log)
      BY DEF ServedSince
    <3> HIDE DEF Of
    <3> QED BY <2>3, <3>1, FS_Subset, FS_CardinalityType
  <2>6. Cardinality(S) > 0 <=> S # {}
    <3> HIDE DEF S
    <3> QED BY <2>4, FS_EmptySet
  <2>7. \A g \in Cgroups : pending_softirqs[c].counts[g] > 0 <=> Of(g) # {}
    <3> SUFFICES ASSUME NEW g \in Cgroups
                 PROVE  pending_softirqs[c].counts[g] > 0 <=> Of(g) # {}
      OBVIOUS
    <3>1. pending_softirqs[c].counts[g] = Cardinality(Of(g))
      BY <1>2
    <3> HIDE DEF Of
    <3> QED BY <2>5, <3>1, FS_EmptySet
  <2>8. \A g \in G : Of(g) \subseteq DOMAIN log
    BY DEF ServedSince
  <2> HIDE DEF Of, S
  <2>9. S # {} <=> \E g \in G : Of(g) # {}
    BY <2>1, <2>8
  <2> QED BY <2>2, <2>6, <2>7, <2>9
<1> HIDE DEF w
<1> QED BY <1>5, <1>6, <1>7, <1>8

(* What an exit charges: to a cgroup that was served a share from the      *)
(* entry on, and for the others that were served one up to the exit, that  *)
(* do not overlap and leave out two instants at the most.                  *)
Divided(c, ts) ==
  LET softirq == pending_softirqs[c]
      duration == ts - softirq.entry
  IN  \E mine, others \in [Targets -> 0 .. duration] :
        /\ \A g \in Targets :
             /\ mine[g] + others[g] \in duration - 2 .. duration
             /\ mine[g] > 0 => softirq.counts[g] > 0
             /\ others[g] > 0 => \E h \in Cgroups \ {g} : softirq.counts[h] > 0
        /\ softirq_self' = [g \in Targets |->
             softirq_self[g] \cup ClosedOpen(softirq.entry, softirq.entry + mine[g])]
        /\ softirq_other' = [g \in Targets |->
             softirq_other[g] \cup ClosedOpen(ts - others[g], ts)]

LEMMA ExitDivides ==
  ASSUME SoftirqTypeOK, PendingInv, NEW c \in Cpus, NEW ts \in 0 .. MaxTime, HandleExit(c, ts)
  PROVE  \/ /\ UNCHANGED <<softirq_self, softirq_other>>
            /\ \/ pending_softirqs[c] = NoSoftirq
               \/ ts <= pending_softirqs[c].entry
               \/ \A g \in Cgroups : pending_softirqs[c].counts[g] = 0
         \/ /\ pending_softirqs[c] # NoSoftirq /\ pending_softirqs[c].entry \in Nat
            /\ pending_softirqs[c].entry < ts
            /\ Divided(c, ts)
<1> DEFINE softirq == pending_softirqs[c]
           entry == softirq.entry
           counts == softirq.counts
           duration == ts - entry
           total == TotalOf(counts)
           Charged1(mine, others) ==
             /\ \A g \in Targets : /\ mine[g] \in Shares(duration, counts[g], total)
                                   /\ others[g] \in Shares(duration, total - counts[g], total)
             /\ softirq_self' = [g \in Targets |->
                  softirq_self[g] \cup ClosedOpen(entry, entry + mine[g])]
             /\ softirq_other' = [g \in Targets |->
                  softirq_other[g] \cup ClosedOpen(ts - others[g], ts)]
<1>1. entry \in Nat \cup {-1} /\ counts \in [Cgroups -> Nat] /\ ts \in Nat
  BY BoundAssumption DEF SoftirqTypeOK
<1>2. total \in Nat /\ \A g \in Cgroups : counts[g] \in 0 .. total
  BY <1>1, TotalBounds
<1>3. IF softirq # NoSoftirq /\ duration > 0 /\ total > 0
      THEN \E mine, others \in [Targets -> 0 .. duration] : Charged1(mine, others)
      ELSE UNCHANGED <<softirq_self, softirq_other>>
  BY Zenon DEF HandleExit
<1>4. CASE ~(softirq # NoSoftirq /\ duration > 0 /\ total > 0)
  <2>1. ~(duration > 0) => ts <= entry
    BY <1>1
  <2>2. ~(total > 0) => \A g \in Cgroups : counts[g] = 0
    BY <1>2
  <2> QED BY <1>3, <1>4, <2>1, <2>2
<1>5. CASE softirq # NoSoftirq /\ duration > 0 /\ total > 0
  <2>1. entry \in Nat /\ entry < ts /\ duration \in Nat /\ total \in Nat \ {0}
    BY <1>1, <1>2, <1>5 DEF PendingInv, PendingOf
  <2>2. PICK mine \in [Targets -> 0 .. duration], others \in [Targets -> 0 .. duration] :
          Charged1(mine, others)
    BY <1>3, <1>5
  <2>3. ASSUME NEW g \in Targets
        PROVE  /\ mine[g] + others[g] \in duration - 2 .. duration
               /\ mine[g] > 0 => counts[g] > 0
               /\ others[g] > 0 => \E h \in Cgroups \ {g} : counts[h] > 0
    <3>1. g \in Cgroups /\ counts[g] \in 0 .. total
      BY <1>2, TargetsAssumption
    <3>2. /\ mine[g] \in Shares(duration, counts[g], total)
          /\ others[g] \in Shares(duration, total - counts[g], total)
      BY <2>2
    <3>3. mine[g] + others[g] \in duration - 2 .. duration
      <4> HIDE DEF duration, total, counts, entry
      <4> QED BY <2>1, <3>1, <3>2, SharesFit
    <3>4. ASSUME ~(counts[g] > 0) PROVE mine[g] = 0
      <4>1. counts[g] = 0
        BY <3>1, <3>4
      <4> HIDE DEF duration, total, counts
      <4> QED BY <2>1, <3>2, <4>1, NoShare
    <3>5. ASSUME ~\E h \in Cgroups \ {g} : counts[h] > 0 PROVE others[g] = 0
      <4>1. \A h \in Cgroups \ {g} : counts[h] = 0
        BY <1>1, <3>5
      <4>2. total = counts[g]
        <5> HIDE DEF counts
        <5> QED BY <1>1, <3>1, <4>1, TotalOfOne
      <4>3. total - counts[g] = 0
        BY <2>1, <4>2
      <4> HIDE DEF duration, total, counts
      <4> QED BY <2>1, <3>2, <4>3, NoShare
    <3> HIDE DEF counts
    <3>6. mine[g] > 0 => counts[g] > 0
      BY <3>4
    <3>7. others[g] > 0 => \E h \in Cgroups \ {g} : counts[h] > 0
      BY <3>5
    <3> QED BY <3>3, <3>6, <3>7
  <2>4. Divided(c, ts)
    BY <2>2, <2>3, Zenon DEF Divided
  <2> QED BY <1>5, <2>1, <2>4
<1> QED BY <1>4, <1>5

LEMMA ExitShares ==
  ASSUME SoftirqTypeOK, PendingInv, ServiceInv, SharesComeFromService,
         NEW c \in Cpus, NEW ts \in 0 .. MaxTime, HandleExit(c, ts)
  PROVE  SharesComeFromService'
<1> DEFINE e == [kind |-> "exit", cpu |-> c, ts |-> ts, cg |-> 0]
           softirq == pending_softirqs[c]
           entry == softirq.entry
           counts == softirq.counts
<1>1. ts \in Nat
  BY BoundAssumption
<1>2. log \in Seq(LogEntry) /\ e \in LogEntry /\ log' = Append(log, e)
  BY <1>1 DEF SoftirqTypeOK, LogEntry, Logged, HandleExit
<1>3. Logged("exit", c, ts, 0)
  BY DEF HandleExit
<1>4. /\ softirq \in [entry : Nat \cup {-1}, counts : [Cgroups -> Nat]]
      /\ softirq_self \in [Targets -> SUBSET Nat] /\ softirq_other \in [Targets -> SUBSET Nat]
  BY DEF SoftirqTypeOK
<1>5. CASE softirq = NoSoftirq
  <2>1. UNCHANGED <<softirq_self, softirq_other>>
    BY <1>5, ExitDivides
  <2>2. Windows' = Windows
    BY <1>1, <1>3, <1>5, NoExitWindow
  <2> QED BY <1>2, <2>1, <2>2, SharesStay
<1>6. CASE softirq # NoSoftirq
  <2>1. PICK w \in Windows' :
          /\ Windows' \subseteq Windows \cup {w}
          /\ Instants(w)' = ClosedOpen(entry, ts)
          /\ \A G \in SUBSET Cgroups : ServedIn(w, G)' > 0 <=> \E g \in G : counts[g] > 0
    BY <1>1, <1>3, <1>6, ExitWindow
  <2>2. /\ ServedIn(w, Cgroups)' > 0 <=> \E g \in Cgroups : counts[g] > 0
        /\ \A g \in Targets : /\ ServedIn(w, {g})' > 0 <=> counts[g] > 0
                              /\ ServedIn(w, Cgroups \ {g})' > 0 <=>
                                   \E h \in Cgroups \ {g} : counts[h] > 0
    <3>1. \A g \in Targets : {g} \in SUBSET Cgroups /\ Cgroups \ {g} \in SUBSET Cgroups
      BY TargetsAssumption
    <3>2. Cgroups \in SUBSET Cgroups
      OBVIOUS
    <3> HIDE DEF counts
    <3>3. \A g : (\E h \in {g} : counts[h] > 0) <=> counts[g] > 0
      OBVIOUS
    <3> QED BY <2>1, <3>1, <3>2, <3>3
  <2> HIDE DEF e
  <2>3. CASE UNCHANGED <<softirq_self, softirq_other>>
             /\ (ts <= entry \/ \A g \in Cgroups : counts[g] = 0)
    <3>1. ASSUME ServedIn(w, Cgroups)' > 0, NEW S
          PROVE  Cardinality(Instants(w)' \ S) <= 2
      <4>1. ts <= entry
        BY <2>2, <2>3, <3>1
      <4>2. Instants(w)' = {}
        BY <1>1, <1>4, <2>1, <4>1 DEF ClosedOpen
      <4>3. Instants(w)' \ S = {}
        BY <4>2
      <4> QED BY <4>3, FS_EmptySet
    <3> SUFFICES ASSUME NEW g \in Targets
                 PROVE  /\ \A p \in softirq_self'[g] :
                             \E v \in Windows' : /\ ServedIn(v, Cgroups)' > 0 /\ p \in Instants(v)'
                                                 /\ ServedIn(v, {g})' > 0
                        /\ \A p \in softirq_other'[g] :
                             \E v \in Windows' : /\ ServedIn(v, Cgroups)' > 0 /\ p \in Instants(v)'
                                                 /\ ServedIn(v, Cgroups \ {g})' > 0
                        /\ \A v \in Windows' : ServedIn(v, Cgroups)' > 0 =>
                             Cardinality(Instants(v)' \ (softirq_self'[g] \cup softirq_other'[g])) <= 2
      BY DEF SharesComeFromService
    <3>2. /\ \A p \in softirq_self[g] :
               \E v \in Windows' : /\ ServedIn(v, Cgroups)' > 0 /\ p \in Instants(v)'
                                   /\ ServedIn(v, {g})' > 0
          /\ \A p \in softirq_other[g] :
               \E v \in Windows' : /\ ServedIn(v, Cgroups)' > 0 /\ p \in Instants(v)'
                                   /\ ServedIn(v, Cgroups \ {g})' > 0
          /\ \A v \in Windows : ServedIn(v, Cgroups)' > 0 =>
               Cardinality(Instants(v)' \ (softirq_self'[g] \cup softirq_other'[g])) <= 2
      BY <1>2, <2>3, OldShares
    <3> QED BY <2>1, <2>3, <3>1, <3>2
  <2>4. CASE entry \in Nat /\ entry < ts /\ Divided(c, ts)
    <3> DEFINE duration == ts - entry
    <3>1. PICK mine \in [Targets -> 0 .. duration], others \in [Targets -> 0 .. duration] :
            /\ \A g \in Targets :
                 /\ mine[g] + others[g] \in duration - 2 .. duration
                 /\ mine[g] > 0 => counts[g] > 0
                 /\ others[g] > 0 => \E h \in Cgroups \ {g} : counts[h] > 0
            /\ softirq_self' = [g \in Targets |->
                 softirq_self[g] \cup ClosedOpen(entry, entry + mine[g])]
            /\ softirq_other' = [g \in Targets |->
                 softirq_other[g] \cup ClosedOpen(ts - others[g], ts)]
      BY <2>4, Zenon DEF Divided
    <3> SUFFICES ASSUME NEW g \in Targets
                 PROVE  /\ \A p \in softirq_self'[g] :
                             \E v \in Windows' : /\ ServedIn(v, Cgroups)' > 0 /\ p \in Instants(v)'
                                                 /\ ServedIn(v, {g})' > 0
                        /\ \A p \in softirq_other'[g] :
                             \E v \in Windows' : /\ ServedIn(v, Cgroups)' > 0 /\ p \in Instants(v)'
                                                 /\ ServedIn(v, Cgroups \ {g})' > 0
                        /\ \A v \in Windows' : ServedIn(v, Cgroups)' > 0 =>
                             Cardinality(Instants(v)' \ (softirq_self'[g] \cup softirq_other'[g])) <= 2
      BY DEF SharesComeFromService
    <3> DEFINE lead == ClosedOpen(entry, entry + mine[g])
               tail == ClosedOpen(ts - others[g], ts)
    <3>2. softirq_self'[g] = softirq_self[g] \cup lead /\ softirq_other'[g] = softirq_other[g] \cup tail
      BY <3>1
    <3>3. /\ mine[g] \in Nat /\ others[g] \in Nat /\ entry \in Nat
          /\ entry + mine[g] <= ts /\ ts - others[g] >= entry
          /\ mine[g] + others[g] >= ts - entry - 2
          /\ mine[g] > 0 => counts[g] > 0
          /\ others[g] > 0 => \E h \in Cgroups \ {g} : counts[h] > 0
      <4>1. mine[g] \in 0 .. duration /\ others[g] \in 0 .. duration
        BY <3>1
      <4> HIDE DEF entry, counts
      <4> QED BY <1>1, <2>4, <3>1, <4>1
    <3>4. /\ \A p \in softirq_self[g] :
               \E v \in Windows' : /\ ServedIn(v, Cgroups)' > 0 /\ p \in Instants(v)'
                                   /\ ServedIn(v, {g})' > 0
          /\ \A p \in softirq_other[g] :
               \E v \in Windows' : /\ ServedIn(v, Cgroups)' > 0 /\ p \in Instants(v)'
                                   /\ ServedIn(v, Cgroups \ {g})' > 0
          /\ \A v \in Windows : ServedIn(v, Cgroups)' > 0 =>
               Cardinality(Instants(v)' \ (softirq_self'[g] \cup softirq_other'[g])) <= 2
      BY <1>2, <3>2, OldShares
    <3> HIDE DEF entry, counts, softirq
    <3>5. ASSUME NEW p \in lead
          PROVE  ServedIn(w, Cgroups)' > 0 /\ p \in Instants(w)' /\ ServedIn(w, {g})' > 0
      <4>1. mine[g] > 0 /\ p \in Instants(w)'
        BY <1>1, <2>1, <3>3, <3>5 DEF ClosedOpen
      <4> QED BY <2>2, <3>3, <4>1, TargetsAssumption
    <3>6. ASSUME NEW p \in tail
          PROVE  ServedIn(w, Cgroups)' > 0 /\ p \in Instants(w)' /\ ServedIn(w, Cgroups \ {g})' > 0
      <4>1. others[g] > 0 /\ p \in Instants(w)'
        BY <1>1, <2>1, <3>3, <3>6 DEF ClosedOpen
      <4> QED BY <2>2, <3>3, <4>1
    <3>7. Cardinality(Instants(w)' \ (softirq_self'[g] \cup softirq_other'[g])) <= 2
      <4> DEFINE left == Instants(w)' \ (softirq_self'[g] \cup softirq_other'[g])
                 a == entry + mine[g]
                 b == ts - others[g] - 1
      <4>1. a \in Int /\ b \in Int /\ b - a + 1 <= 2
        BY <1>1, <3>3
      <4>2. left \in SUBSET (a .. b)
        BY <1>1, <2>1, <3>2, <3>3 DEF ClosedOpen
      <4> HIDE DEF left, a, b
      <4>3. IsFiniteSet(a .. b) /\ Cardinality(a .. b) <= 2
        <5>1. IsFiniteSet(a .. b) /\ Cardinality(a .. b) = IF a > b THEN 0 ELSE b - a + 1
          BY <4>1, FS_Interval
        <5> QED BY <4>1, <5>1
      <4>4. Cardinality(left) <= Cardinality(a .. b) /\ Cardinality(left) \in Nat
            /\ Cardinality(a .. b) \in Nat
        BY <4>2, <4>3, FS_Subset, FS_CardinalityType
      <4>5. Cardinality(left) <= 2
        BY <4>3, <4>4
      <4> QED BY <4>5 DEF left
    <3> HIDE DEF lead, tail
    <3> QED BY <2>1, <3>2, <3>4, <3>5, <3>6, <3>7
  <2> QED BY <1>6, <2>3, <2>4, ExitDivides
<1> QED BY <1>5, <1>6

-------------------------------------------------------------------------------
(* The softirqs of one CPU follow one another.                             *)

LEMMA LogIsPrefix ==
  ASSUME log \in Seq(LogEntry), NEW e \in LogEntry, log' = Append(log, e)
  PROVE  /\ OneCpu' => OneCpu
         /\ OneCpu' => \A i \in DOMAIN log : log[i].cpu = e.cpu
<1>1. Len(log) + 1 \in DOMAIN log' /\ log'[Len(log) + 1] = e
  BY LogGrows
<1>2. \A i \in DOMAIN log : i \in DOMAIN log' /\ log'[i] = log[i]
  BY LogGrows
<1> QED BY <1>1, <1>2 DEF OneCpu

(* A step that charges nothing: an event of the CPU, if it is the only     *)
(* one, or none.                                                           *)
LEMMA ApartStays ==
  ASSUME SoftirqTypeOK, SoftirqTypeOK', PastInv, ApartInv, now <= now',
         UNCHANGED <<softirq_self, softirq_other>>, OneCpu' => OneCpu,
         \A c \in Cpus : pending_softirqs'[c] # NoSoftirq =>
           \/ pending_softirqs[c] # NoSoftirq /\ pending_softirqs'[c].entry = pending_softirqs[c].entry
           \/ pending_softirqs'[c].entry = now'
  PROVE  PastInv' /\ ApartInv'
<1>1. now \in Nat /\ now' \in Nat
  BY BoundAssumption DEF SoftirqTypeOK
<1>2. \A g \in Targets : softirq_self[g] \subseteq Nat /\ softirq_other[g] \subseteq Nat
  BY DEF SoftirqTypeOK
<1>3. \A g \in Targets : \A p \in softirq_self[g] \cup softirq_other[g] : p < now /\ p < now'
  BY <1>1, <1>2 DEF PastInv
<1>4. PastInv'
  BY <1>3 DEF PastInv
<1>5. ApartInv'
  <2> SUFFICES ASSUME OneCpu', NEW g \in Targets
               PROVE  /\ softirq_self'[g] \cap softirq_other'[g] = {}
                      /\ \A c \in Cpus : pending_softirqs'[c] # NoSoftirq =>
                           \A p \in softirq_self'[g] \cup softirq_other'[g] :
                             p < pending_softirqs'[c].entry
    BY DEF ApartInv, NoSoftirq
  <2>1. /\ softirq_self[g] \cap softirq_other[g] = {}
        /\ \A c \in Cpus : pending_softirqs[c] # NoSoftirq =>
             \A p \in softirq_self[g] \cup softirq_other[g] : p < pending_softirqs[c].entry
    BY DEF ApartInv
  <2> QED BY <1>3, <2>1
<1> QED BY <1>4, <1>5

(* A softirq that ends is the only one, and all that was charged is before *)
(* its entry.                                                              *)
LEMMA ApartDivided ==
  ASSUME SoftirqTypeOK, SoftirqTypeOK', PendingInv, PastInv, ApartInv,
         NEW c \in Cpus, NEW ts \in 0 .. MaxTime, HandleExit(c, ts),
         pending_softirqs[c] # NoSoftirq, pending_softirqs[c].entry \in Nat,
         pending_softirqs[c].entry < ts, Divided(c, ts)
  PROVE  PastInv' /\ ApartInv'
<1> DEFINE entry == pending_softirqs[c].entry
           duration == ts - entry
           e == [kind |-> "exit", cpu |-> c, ts |-> ts, cg |-> 0]
<1>1. ts \in Nat /\ now' = ts /\ now <= ts /\ now \in Nat /\ entry \in Nat /\ entry < ts
  BY BoundAssumption DEF HandleExit, Event, SoftirqTypeOK
<1>2. log \in Seq(LogEntry) /\ e \in LogEntry /\ log' = Append(log, e) /\ e.cpu = c
  BY <1>1 DEF SoftirqTypeOK, LogEntry, Logged, HandleExit
<1>3. PICK mine \in [Targets -> 0 .. duration], others \in [Targets -> 0 .. duration] :
        /\ \A g \in Targets : mine[g] + others[g] \in duration - 2 .. duration
        /\ softirq_self' = [g \in Targets |->
             softirq_self[g] \cup ClosedOpen(entry, entry + mine[g])]
        /\ softirq_other' = [g \in Targets |->
             softirq_other[g] \cup ClosedOpen(ts - others[g], ts)]
  BY Zenon DEF Divided
<1> DEFINE lead(g) == ClosedOpen(entry, entry + mine[g])
           tail(g) == ClosedOpen(ts - others[g], ts)
<1>4. \A g \in Targets : /\ softirq_self'[g] = softirq_self[g] \cup lead(g)
                         /\ softirq_other'[g] = softirq_other[g] \cup tail(g)
  BY <1>3
<1>5. ASSUME NEW g \in Targets
      PROVE  /\ lead(g) \cap tail(g) = {}
             /\ \A p \in lead(g) \cup tail(g) : p \in Nat /\ entry <= p /\ p < ts
  <2>1. mine[g] \in 0 .. duration /\ others[g] \in 0 .. duration
        /\ mine[g] + others[g] \in duration - 2 .. duration
    BY <1>3
  <2>2. /\ mine[g] \in Nat /\ others[g] \in Nat /\ mine[g] <= ts - entry /\ others[g] <= ts - entry
        /\ mine[g] + others[g] <= ts - entry
    <3> HIDE DEF entry
    <3> QED BY <1>1, <2>1
  <2> HIDE DEF entry
  <2> QED BY <1>1, <2>2 DEF ClosedOpen
<1>6. \A g \in Targets : softirq_self[g] \subseteq Nat /\ softirq_other[g] \subseteq Nat
  BY DEF SoftirqTypeOK
<1> HIDE DEF lead, tail
<1>7. PastInv'
  <2> SUFFICES ASSUME NEW g \in Targets, NEW p \in softirq_self'[g] \cup softirq_other'[g]
               PROVE  p < now'
    BY DEF PastInv
  <2>1. CASE p \in lead(g) \cup tail(g)
    BY <1>1, <1>5, <2>1
  <2>2. CASE p \in softirq_self[g] \cup softirq_other[g]
    BY <1>1, <1>6, <2>2 DEF PastInv
  <2> QED BY <1>4, <2>1, <2>2
<1>8. ApartInv'
  <2> SUFFICES ASSUME OneCpu', NEW g \in Targets
               PROVE  /\ softirq_self'[g] \cap softirq_other'[g] = {}
                      /\ \A d \in Cpus : pending_softirqs'[d] # NoSoftirq =>
                           \A p \in softirq_self'[g] \cup softirq_other'[g] :
                             p < pending_softirqs'[d].entry
    BY DEF ApartInv, NoSoftirq
  <2>1. OneCpu /\ \A i \in DOMAIN log : log[i].cpu = c
    BY <1>2, LogIsPrefix
  <2>2. /\ softirq_self[g] \cap softirq_other[g] = {}
        /\ \A p \in softirq_self[g] \cup softirq_other[g] : p < entry
    BY <2>1 DEF ApartInv
  <2>3. ASSUME NEW p \in softirq_self[g] \cup softirq_other[g], p \in lead(g) \cup tail(g)
        PROVE  FALSE
    <3>1. p \in Nat /\ p < entry /\ entry <= p
      BY <1>5, <1>6, <2>2, <2>3
    <3> QED BY <1>1, <3>1
  <2>4. softirq_self'[g] \cap softirq_other'[g] = {}
    BY <1>4, <1>5, <2>2, <2>3
  <2>5. ASSUME NEW d \in Cpus PROVE pending_softirqs'[d] = NoSoftirq
    <3>1. pending_softirqs' = [pending_softirqs EXCEPT ![c] = NoSoftirq]
      BY DEF HandleExit
    <3>2. CASE d = c
      BY <3>1, <3>2 DEF SoftirqTypeOK
    <3>3. CASE d # c
      <4>1. pending_softirqs'[d] = pending_softirqs[d]
        BY <3>1, <3>3 DEF SoftirqTypeOK
      <4>2. pending_softirqs[d] # NoSoftirq => \E i \in DOMAIN log : log[i].cpu = d
        BY DEF PendingInv, PendingOf, Entered
      <4> QED BY <2>1, <3>3, <4>1, <4>2
    <3> QED BY <3>2, <3>3
  <2> QED BY <2>4, <2>5
<1> QED BY <1>7, <1>8

-------------------------------------------------------------------------------
(* The steps.                                                              *)

LEMMA SoftirqTypeSteps ==
  ASSUME SoftirqTypeOK, PendingInv, NEW ts \in 0 .. MaxTime, Event(ts), NEW c \in Cpus,
         \/ HandleEntry(c, ts)
         \/ HandleExit(c, ts)
         \/ \E cg \in Cgroups : RecordEvent(cg, c, ts)
  PROVE  SoftirqTypeOK'
<1>1. now' \in 0 .. MaxTime /\ events' \in 0 .. MaxEvents /\ ts \in Nat
  BY BoundAssumption DEF SoftirqTypeOK, Event
<1>2. ASSUME NEW k \in {"entry", "exit", "service"}, NEW g \in Cgroups \cup {0}, Logged(k, c, ts, g)
      PROVE  log' \in Seq(LogEntry)
  <2>1. [kind |-> k, cpu |-> c, ts |-> ts, cg |-> g] \in LogEntry
    BY <1>1 DEF LogEntry
  <2> QED BY <1>2, <2>1, AppendProperties DEF SoftirqTypeOK, Logged
<1>3. \A x \in Nat \cup {-1} :
        [NoSoftirq EXCEPT !.entry = x] \in [entry : Nat \cup {-1}, counts : [Cgroups -> Nat]]
  BY DEF NoSoftirq
<1>4. NoSoftirq \in [entry : Nat \cup {-1}, counts : [Cgroups -> Nat]]
  BY DEF NoSoftirq
<1>5. CASE HandleEntry(c, ts)
  <2>1. log' \in Seq(LogEntry)
    BY <1>2, <1>5 DEF HandleEntry
  <2>2. [NoSoftirq EXCEPT !.entry = ts] \in [entry : Nat \cup {-1}, counts : [Cgroups -> Nat]]
    BY <1>1, <1>3
  <2>3. pending_softirqs' \in [Cpus -> [entry : Nat \cup {-1}, counts : [Cgroups -> Nat]]]
    BY <1>5, <2>2 DEF HandleEntry, SoftirqTypeOK
  <2> QED BY <1>1, <1>5, <2>1, <2>3 DEF HandleEntry, SoftirqTypeOK, LogEntry
<1>6. CASE HandleExit(c, ts)
  <2>1. log' \in Seq(LogEntry)
    BY <1>2, <1>6 DEF HandleExit
  <2>2. pending_softirqs' \in [Cpus -> [entry : Nat \cup {-1}, counts : [Cgroups -> Nat]]]
    BY <1>4, <1>6 DEF HandleExit, SoftirqTypeOK
  <2>3. softirq_self' \in [Targets -> SUBSET Nat] /\ softirq_other' \in [Targets -> SUBSET Nat]
    <3>1. CASE UNCHANGED <<softirq_self, softirq_other>>
      BY <3>1 DEF SoftirqTypeOK
    <3>2. CASE pending_softirqs[c].entry \in Nat /\ pending_softirqs[c].entry < ts /\ Divided(c, ts)
      <4> DEFINE entry == pending_softirqs[c].entry
                 duration == ts - entry
      <4>1. PICK mine \in [Targets -> 0 .. duration], others \in [Targets -> 0 .. duration] :
              /\ softirq_self' = [g \in Targets |->
                   softirq_self[g] \cup ClosedOpen(entry, entry + mine[g])]
              /\ softirq_other' = [g \in Targets |->
                   softirq_other[g] \cup ClosedOpen(ts - others[g], ts)]
        BY <3>2, Zenon DEF Divided
      <4>2. entry \in Nat
        BY <3>2
      <4>3. ASSUME NEW g \in Targets
            PROVE  /\ ClosedOpen(entry, entry + mine[g]) \subseteq Nat
                   /\ ClosedOpen(ts - others[g], ts) \subseteq Nat
        <5>1. mine[g] \in 0 .. duration /\ others[g] \in 0 .. duration
          OBVIOUS
        <5>2. mine[g] \in Nat /\ others[g] \in Nat /\ others[g] <= ts - entry
          <6> HIDE DEF entry
          <6> QED BY <1>1, <4>2, <5>1
        <5> HIDE DEF entry
        <5> QED BY <1>1, <4>2, <5>2 DEF ClosedOpen
      <4> HIDE DEF entry
      <4> QED BY <4>1, <4>3 DEF SoftirqTypeOK
    <3> QED BY <1>6, <3>1, <3>2, ExitDivides
  <2> QED BY <1>1, <2>1, <2>2, <2>3 DEF SoftirqTypeOK, LogEntry
<1>7. ASSUME NEW cg \in Cgroups, RecordEvent(cg, c, ts) PROVE SoftirqTypeOK'
  <2>1. log' \in Seq(LogEntry) /\ UNCHANGED <<softirq_self, softirq_other>>
    BY <1>2, <1>7 DEF RecordEvent
  <2>2. pending_softirqs' \in [Cpus -> [entry : Nat \cup {-1}, counts : [Cgroups -> Nat]]]
    <3>1. CASE pending_softirqs[c] # NoSoftirq
      BY <1>7, <3>1, CountsOne
    <3>2. CASE pending_softirqs[c] = NoSoftirq
      BY <1>7, <3>2 DEF RecordEvent, SoftirqTypeOK
    <3> QED BY <3>1, <3>2
  <2> QED BY <1>1, <2>1, <2>2 DEF SoftirqTypeOK, LogEntry
<1> QED BY <1>5, <1>6, <1>7

LEMMA SoftirqInitInv == SoftirqInit => SoftirqInv
<1> SUFFICES ASSUME SoftirqInit PROVE SoftirqInv
  OBVIOUS
<1> USE BoundAssumption
<1>1. log = <<>> /\ log \in Seq(LogEntry) /\ DOMAIN log = {}
  BY EmptySeq DEF SoftirqInit
<1>2. NoSoftirq \in [entry : Nat \cup {-1}, counts : [Cgroups -> Nat]] /\ NoSoftirq.entry = -1
  BY DEF NoSoftirq
<1>3. SoftirqTypeOK
  BY <1>1, <1>2 DEF SoftirqInit, SoftirqTypeOK
<1>4. PendingInv
  BY <1>1, <1>2 DEF SoftirqInit, PendingInv, PendingOf
<1>5. ServiceInv
  BY <1>1 DEF ServiceInv
<1>6. PastInv /\ ApartInv
  BY DEF SoftirqInit, PastInv, ApartInv
<1>7. SharesComeFromService
  BY <1>1 DEF SoftirqInit, SharesComeFromService, Windows
<1> QED BY <1>3, <1>4, <1>5, <1>6, <1>7 DEF SoftirqInv

LEMMA SoftirqStep ==
  ASSUME SoftirqInv, NEW ts \in 0 .. MaxTime, Event(ts), NEW c \in Cpus,
         \/ HandleEntry(c, ts)
         \/ HandleExit(c, ts)
         \/ \E cg \in Cgroups : RecordEvent(cg, c, ts)
  PROVE  SoftirqInv'
<1>1. /\ ts \in Nat /\ now <= now' /\ now' = ts
      /\ log \in Seq(LogEntry) /\ SoftirqTypeOK
  BY BoundAssumption DEF Event, SoftirqInv, SoftirqTypeOK
<1>2. SoftirqTypeOK'
  BY SoftirqTypeSteps DEF SoftirqInv
<1>3. ASSUME NEW k \in {"entry", "exit", "service"}, NEW g \in Cgroups \cup {0}, Logged(k, c, ts, g)
      PROVE  \E e \in LogEntry : log' = Append(log, e) /\ e.kind = k /\ e.cg = g
  <2>1. [kind |-> k, cpu |-> c, ts |-> ts, cg |-> g] \in LogEntry
    BY <1>1 DEF LogEntry
  <2> QED BY <1>3, <2>1 DEF Logged
<1>4. CASE HandleEntry(c, ts)
  <2>1. PICK e \in LogEntry : log' = Append(log, e) /\ e.kind = "entry" /\ e.cg = 0
    BY <1>3, <1>4 DEF HandleEntry
  <2>2. PendingInv'
    BY <1>1, <1>2, <1>4, PendingEnters DEF HandleEntry, SoftirqInv
  <2>3. ServiceInv'
    BY <1>1, <2>1, LogGrows DEF ServiceInv, SoftirqInv
  <2>4. Windows' = Windows
    BY <1>1, <2>1, WindowsGrow, WindowsStay
  <2>5. SharesComeFromService'
    BY <1>1, <1>4, <2>1, <2>4, SharesStay DEF HandleEntry, SoftirqInv
  <2>6. PastInv' /\ ApartInv'
    <3>1. OneCpu' => OneCpu
      BY <1>1, <2>1, LogIsPrefix
    <3>2. ASSUME NEW d \in Cpus
          PROVE  \/ pending_softirqs'[d] = pending_softirqs[d]
                 \/ pending_softirqs'[d].entry = now'
      BY <1>1, <1>4 DEF HandleEntry, NoSoftirq, SoftirqTypeOK
    <3> QED BY <1>1, <1>2, <1>4, <3>1, <3>2, ApartStays DEF HandleEntry, SoftirqInv
  <2> QED BY <1>2, <2>2, <2>3, <2>5, <2>6 DEF SoftirqInv
<1>5. CASE HandleExit(c, ts)
  <2>1. PICK e \in LogEntry : log' = Append(log, e) /\ e.kind = "exit" /\ e.cg = 0
    BY <1>3, <1>5 DEF HandleExit
  <2>2. PendingInv'
    BY <1>1, <1>2, <1>5, PendingExits DEF HandleExit, SoftirqInv
  <2>3. ServiceInv'
    BY <1>1, <2>1, LogGrows DEF ServiceInv, SoftirqInv
  <2>4. SharesComeFromService'
    BY <1>5, ExitShares DEF SoftirqInv
  <2>5. PastInv' /\ ApartInv'
    <3>1. CASE UNCHANGED <<softirq_self, softirq_other>>
      <4>1. OneCpu' => OneCpu
        BY <1>1, <2>1, LogIsPrefix
      <4>2. ASSUME NEW d \in Cpus
            PROVE  pending_softirqs'[d] = pending_softirqs[d] \/ pending_softirqs'[d] = NoSoftirq
        BY <1>1, <1>5 DEF HandleExit, SoftirqTypeOK
      <4> QED BY <1>1, <1>2, <3>1, <4>1, <4>2, ApartStays DEF SoftirqInv
    <3>2. CASE /\ pending_softirqs[c] # NoSoftirq /\ pending_softirqs[c].entry \in Nat
               /\ pending_softirqs[c].entry < ts /\ Divided(c, ts)
      BY <1>2, <1>5, <3>2, ApartDivided DEF SoftirqInv
    <3> QED BY <1>5, <3>1, <3>2, ExitDivides DEF SoftirqInv
  <2> QED BY <1>2, <2>2, <2>3, <2>4, <2>5 DEF SoftirqInv
<1>6. ASSUME NEW cg \in Cgroups, RecordEvent(cg, c, ts) PROVE SoftirqInv'
  <2>1. PICK e \in LogEntry : log' = Append(log, e) /\ e.kind = "service" /\ e.cg = cg
    BY <1>3, <1>6 DEF RecordEvent
  <2>2. PendingInv'
    BY <1>1, <1>2, <1>6, PendingRecords DEF SoftirqInv
  <2>3. ServiceInv'
    BY <1>1, <2>1, LogGrows DEF ServiceInv, SoftirqInv
  <2>4. Windows' = Windows
    BY <1>1, <2>1, WindowsGrow, WindowsStay
  <2>5. UNCHANGED <<softirq_self, softirq_other>>
    BY <1>6 DEF RecordEvent
  <2>6. SharesComeFromService'
    BY <1>1, <2>1, <2>4, <2>5, SharesStay DEF SoftirqInv
  <2>7. PastInv' /\ ApartInv'
    <3>1. OneCpu' => OneCpu
      BY <1>1, <2>1, LogIsPrefix
    <3>2. ASSUME NEW d \in Cpus, pending_softirqs'[d] # NoSoftirq
          PROVE  /\ pending_softirqs[d] # NoSoftirq
                 /\ pending_softirqs'[d].entry = pending_softirqs[d].entry
      <4>1. CASE pending_softirqs[c] = NoSoftirq
        BY <1>6, <3>2, <4>1 DEF RecordEvent
      <4>2. CASE pending_softirqs[c] # NoSoftirq
        BY <1>1, <1>6, <3>2, <4>2, CountsOne
      <4> QED BY <4>1, <4>2
    <3> QED BY <1>1, <1>2, <2>5, <3>1, <3>2, ApartStays DEF SoftirqInv
  <2> QED BY <1>2, <2>2, <2>3, <2>6, <2>7 DEF SoftirqInv
<1> QED BY <1>4, <1>5, <1>6

(* Time passes, and nothing else changes.                                  *)
LEMMA SoftirqWaits ==
  ASSUME SoftirqInv, now <= now', now' \in 0 .. MaxTime, events' \in 0 .. MaxEvents,
         UNCHANGED softirqVars
  PROVE  SoftirqInv'
<1>1. UNCHANGED <<pending_softirqs, softirq_self, softirq_other, log>>
  BY DEF softirqVars
<1>2. now \in Nat /\ now' \in Nat
  BY BoundAssumption DEF SoftirqInv, SoftirqTypeOK
<1>3. SoftirqTypeOK'
  BY <1>1 DEF SoftirqInv, SoftirqTypeOK, LogEntry
<1>4. PendingInv'
  <2>1. \A c \in Cpus : pending_softirqs[c].entry \in Int
    BY DEF SoftirqInv, SoftirqTypeOK
  <2> QED BY <1>1, <1>2, <2>1 DEF SoftirqInv, PendingInv, PendingOf, Entered, ServedSince, NoSoftirq
<1>5. ServiceInv' /\ SharesComeFromService'
  <2>1. ServiceInv'
    BY <1>1 DEF SoftirqInv, ServiceInv
  <2>2. Windows' = Windows
    BY <1>1 DEF Windows
  <2>3. \A w : Instants(w)' = Instants(w) /\ \A G : ServedIn(w, G)' = ServedIn(w, G)
    BY <1>1 DEF Instants, ServedIn
  <2>4. SharesComeFromService'
    BY <1>1, <2>2, <2>3 DEF SoftirqInv, SharesComeFromService
  <2> QED BY <2>1, <2>4
<1>6. OneCpu' => OneCpu
  BY <1>1 DEF OneCpu
<1>7. PastInv' /\ ApartInv'
  BY <1>1, <1>3, <1>6, ApartStays DEF SoftirqInv
<1> QED BY <1>3, <1>4, <1>5, <1>7 DEF SoftirqInv

LEMMA SoftirqInvStep ==
  SoftirqInv /\ [SoftirqNext]_<<now, events, softirqVars>> => SoftirqInv'
<1> SUFFICES ASSUME SoftirqInv, [SoftirqNext]_<<now, events, softirqVars>>
             PROVE  SoftirqInv'
  OBVIOUS
<1>1. now \in 0 .. MaxTime /\ events \in 0 .. MaxEvents
  BY DEF SoftirqInv, SoftirqTypeOK
<1>2. ASSUME NEW ts \in 0 .. MaxTime, OtherEvent(ts) PROVE SoftirqInv'
  <2>1. now <= now' /\ now' \in 0 .. MaxTime /\ events' \in 0 .. MaxEvents /\ UNCHANGED softirqVars
    BY <1>1, <1>2, BoundAssumption DEF OtherEvent, Event
  <2> QED BY <2>1, SoftirqWaits
<1>3. ASSUME NEW ts \in 0 .. MaxTime, NEW c \in Cpus,
             \/ HandleEntry(c, ts)
             \/ HandleExit(c, ts)
             \/ \E cg \in Cgroups : Event(ts) /\ RecordEvent(cg, c, ts)
      PROVE  SoftirqInv'
  <2>1. Event(ts)
    BY <1>3 DEF HandleEntry, HandleExit
  <2> QED BY <1>3, <2>1, SoftirqStep
<1>4. CASE UNCHANGED <<now, events, softirqVars>>
  <2>1. now <= now' /\ now' \in 0 .. MaxTime /\ events' \in 0 .. MaxEvents /\ UNCHANGED softirqVars
    BY <1>1, <1>4, BoundAssumption
  <2> QED BY <2>1, SoftirqWaits
<1> QED BY <1>2, <1>3, <1>4 DEF SoftirqNext

LEMMA SoftirqInvariant == SoftirqSpec => []SoftirqInv
  BY SoftirqInitInv, SoftirqInvStep, PTL DEF SoftirqSpec

(* If all events are of one CPU its softirqs are charged apart.            *)
LEMMA OneCpuApart == SoftirqInv => SelfAndOtherDisjoint
<1> SUFFICES ASSUME SoftirqInv, Cardinality({log[k].cpu : k \in DOMAIN log}) <= 1
             PROVE  OneCpu
  BY DEF SoftirqInv, ApartInv, SelfAndOtherDisjoint
<1> DEFINE cpus == {log[k].cpu : k \in DOMAIN log}
<1>1. IsFiniteSet(DOMAIN log)
  BY LenProperties, FS_Interval DEF SoftirqInv, SoftirqTypeOK
<1>2. IsFiniteSet(cpus)
  <2> DEFINE f == [k \in DOMAIN log |-> log[k].cpu]
  <2>1. f \in [DOMAIN log -> cpus] /\ \A t \in cpus : \E k \in DOMAIN log : f[k] = t
    OBVIOUS
  <2>2. f \in Surjection(DOMAIN log, cpus)
    BY <2>1 DEF Surjection
  <2> HIDE DEF f
  <2>3. IsFiniteSet(cpus)
    <3> HIDE DEF cpus
    <3> QED BY <1>1, <2>2, FS_Surjection
  <2> QED BY <2>3
<1>3. \A x, y \in cpus : x = y
  <2> SUFFICES ASSUME NEW x \in cpus, NEW y \in cpus, x # y PROVE FALSE
    OBVIOUS
  <2> HIDE DEF cpus
  <2>1. IsFiniteSet({x}) /\ Cardinality({x}) = 1
    BY FS_Singleton
  <2>2. Cardinality({x} \cup {y}) = 2
    <3>1. y \notin {x}
      OBVIOUS
    <3>2. PICK S : S = {x}
      OBVIOUS
    <3>3. Cardinality(S \cup {y}) = Cardinality(S) + 1
      BY <2>1, <3>1, <3>2, FS_AddElement
    <3> QED BY <2>1, <3>2, <3>3
  <2>3. {x} \cup {y} \in SUBSET cpus
    OBVIOUS
  <2>4. Cardinality({x} \cup {y}) <= Cardinality(cpus)
    BY <1>2, <2>3, FS_Subset
  <2>5. Cardinality(cpus) <= 1 /\ Cardinality(cpus) \in Nat
    BY <1>2, FS_CardinalityType DEF cpus
  <2>6. PICK n \in Nat : n = Cardinality(cpus)
    BY <2>5
  <2>7. 2 <= n /\ n <= 1
    BY <2>2, <2>4, <2>5, <2>6, Zenon
  <2> QED BY <2>7
<1> QED BY <1>3 DEF OneCpu

-------------------------------------------------------------------------------
(* The softirqs of the whole analyzer.                                     *)

LEMMA SoftStays ==
  ASSUME SoftInv, Later, UNCHANGED softirqVars, \A g \in Cgroups : Served(g) => Served(g)'
  PROVE  SoftInv'
<1>1. SoftirqInv'
  BY SoftirqWaits DEF SoftInv, Later
<1>2. pending_softirqs' = pending_softirqs
  BY DEF softirqVars
<1> QED BY <1>1, <1>2 DEF SoftInv

LEMMA SoftRecords ==
  ASSUME SoftInv, NEW g \in Cgroups, NEW c \in Cpus, NEW ts \in 0 .. MaxTime,
         Event(ts), RecordEvent(g, c, ts),
         \A h \in Cgroups : Served(h) => Served(h)', Served(g)'
  PROVE  SoftInv' /\ UNCHANGED <<softirq_self, softirq_other>>
<1>1. SoftirqInv' /\ SoftirqTypeOK
  BY SoftirqStep DEF SoftInv, SoftirqInv
<1>2. ASSUME NEW d \in Cpus, NEW h \in Cgroups, pending_softirqs'[d].counts[h] > 0
      PROVE  Served(h)'
  <2>1. CASE pending_softirqs' = pending_softirqs
    BY <1>2, <2>1 DEF SoftInv
  <2>2. CASE pending_softirqs[c] # NoSoftirq
    <3>1. /\ pending_softirqs'[c].counts = [pending_softirqs[c].counts EXCEPT ![g] = @ + 1]
          /\ \A x \in Cpus \ {c} : pending_softirqs'[x] = pending_softirqs[x]
      BY <1>1, <2>2, CountsOne
    <3>2. pending_softirqs[d].counts[h] > 0 \/ h = g
      BY <1>1, <1>2, <3>1 DEF SoftirqTypeOK
    <3> QED BY <3>2 DEF SoftInv
  <2> QED BY <2>1, <2>2 DEF RecordEvent
<1>3. UNCHANGED <<softirq_self, softirq_other>>
  BY DEF RecordEvent
<1> QED BY <1>1, <1>2, <1>3 DEF SoftInv

(* A softirq begins or ends: its CPU counts anew.                          *)
LEMMA SoftCountsAnew ==
  ASSUME SoftInv, SoftirqInv', NEW c \in Cpus, NEW entry \in Nat \cup {-1},
         pending_softirqs' = [pending_softirqs EXCEPT ![c] = [NoSoftirq EXCEPT !.entry = entry]],
         UNCHANGED <<net_dequeue_history, block_issue_history>>
  PROVE  SoftInv'
<1>1. \A h \in Cgroups : Served(h) => Served(h)'
  BY DEF Served
<1>2. \A h \in Cgroups : [NoSoftirq EXCEPT !.entry = entry].counts[h] = 0
  BY DEF NoSoftirq
<1>3. ASSUME NEW d \in Cpus, NEW h \in Cgroups, pending_softirqs'[d].counts[h] > 0
      PROVE  Served(h)'
  <2>1. CASE d = c
    <3>1. pending_softirqs'[d].counts[h] = 0
      BY <1>2, <2>1 DEF SoftInv, SoftirqInv, SoftirqTypeOK
    <3> QED BY <1>3, <3>1
  <2>2. CASE d # c
    <3>1. pending_softirqs'[d] = pending_softirqs[d]
      BY <2>2 DEF SoftInv, SoftirqInv, SoftirqTypeOK
    <3> QED BY <1>1, <1>3, <3>1 DEF SoftInv
  <2> QED BY <2>1, <2>2
<1> QED BY <1>3 DEF SoftInv

(* The end of a softirq, which charges a cgroup only if it served others.  *)
LEMMA SoftExits ==
  ASSUME SoftInv, NEW c \in Cpus, NEW ts \in 0 .. MaxTime, HandleExit(c, ts),
         UNCHANGED <<net_dequeue_history, block_issue_history>>
  PROVE  /\ Later /\ SoftInv'
         /\ \A g \in Targets : softirq_other[g] \subseteq softirq_other'[g]
         /\ \A g \in Targets : OnlyServed(g) => softirq_other'[g] = softirq_other[g]
<1>1. Event(ts) /\ SoftirqTypeOK /\ PendingInv /\ ts \in Nat
  BY BoundAssumption DEF HandleExit, SoftInv, SoftirqInv
<1>2. SoftirqInv' /\ Later
  BY <1>1, SoftirqStep DEF SoftInv, Event, Later, SoftirqInv, SoftirqTypeOK
<1>3. SoftInv'
  <2>1. NoSoftirq = [NoSoftirq EXCEPT !.entry = -1]
    BY DEF NoSoftirq
  <2>2. pending_softirqs' = [pending_softirqs EXCEPT ![c] = [NoSoftirq EXCEPT !.entry = -1]]
    BY <2>1 DEF HandleExit
  <2>3. -1 \in Nat \cup {-1}
    OBVIOUS
  <2> QED BY <1>2, <2>2, <2>3, SoftCountsAnew
<1>4. CASE UNCHANGED <<softirq_self, softirq_other>>
  BY <1>2, <1>3, <1>4
<1>5. CASE Divided(c, ts)
  <2> DEFINE softirq == pending_softirqs[c]
             duration == ts - softirq.entry
  <2>1. PICK mine \in [Targets -> 0 .. duration], others \in [Targets -> 0 .. duration] :
          /\ \A g \in Targets : others[g] > 0 => \E h \in Cgroups \ {g} : softirq.counts[h] > 0
          /\ softirq_other' = [g \in Targets |->
               softirq_other[g] \cup ClosedOpen(ts - others[g], ts)]
    BY <1>5, Zenon DEF Divided
  <2>2. \A g \in Targets : softirq_other[g] \subseteq softirq_other'[g]
    BY <2>1
  <2>3. ASSUME NEW g \in Targets, OnlyServed(g)
        PROVE  softirq_other'[g] = softirq_other[g]
    <3>1. \A h \in Cgroups \ {g} : ~Served(h)
      BY <2>3 DEF OnlyServed, Served
    <3>2. ~(others[g] > 0)
      BY <2>1, <3>1 DEF SoftInv
    <3>3. others[g] = 0
      <4>1. others[g] \in 0 .. duration
        BY <2>1
      <4> HIDE DEF duration
      <4> QED BY <3>2, <4>1
    <3>4. ClosedOpen(ts - others[g], ts) = {}
      BY <1>1, <3>3 DEF ClosedOpen
    <3> QED BY <2>1, <3>4
  <2> QED BY <1>2, <1>3, <2>2, <2>3
<1> QED BY <1>1, <1>4, <1>5, ExitDivides

(* A softirq begins.                                                       *)
LEMMA SoftEnters ==
  ASSUME SoftInv, NEW c \in Cpus, NEW ts \in 0 .. MaxTime, HandleEntry(c, ts),
         UNCHANGED <<net_dequeue_history, block_issue_history>>
  PROVE  Later /\ SoftInv' /\ UNCHANGED softirq_other
<1>1. Event(ts) /\ ts \in Nat \cup {-1} /\ UNCHANGED softirq_other
  BY BoundAssumption DEF HandleEntry
<1>2. SoftirqInv' /\ Later
  BY <1>1, SoftirqStep DEF SoftInv, Event, Later, SoftirqInv, SoftirqTypeOK
<1>3. pending_softirqs' = [pending_softirqs EXCEPT ![c] = [NoSoftirq EXCEPT !.entry = ts]]
  BY DEF HandleEntry
<1> QED BY <1>1, <1>2, <1>3, SoftCountsAnew

-------------------------------------------------------------------------------
(* The lifetimes and the waits.                                            *)

LEMMA RangeSteps ==
  ASSUME RangeInv, now \in Nat, NEW ts \in Nat, now <= ts, now' = ts, NEW cg, Stamped(cg, ts)
  PROVE  RangeInv'
<1> DEFINE range(g) == cgroup_time_range[g]
           new(g) == IF g # cg THEN range(g)
                     ELSE [first |-> IF range(g).seen THEN range(g).first ELSE ts,
                           last |-> ts, seen |-> TRUE]
<1>1. cgroup_time_range' = [g \in Cgroups |-> new(g)]
  BY DEF Stamped
<1>2. ASSUME NEW g \in Cgroups
      PROVE  /\ new(g) \in [first : Nat, last : Nat, seen : BOOLEAN]
             /\ new(g).first <= new(g).last /\ new(g).last <= ts
  <2>1. PICK a \in Nat, b \in Nat, s \in BOOLEAN : range(g) = [first |-> a, last |-> b, seen |-> s]
    BY DEF RangeInv
  <2>2. a <= b /\ b <= now
    BY <2>1 DEF RangeInv
  <2>3. PICK d \in Nat : d = (IF s THEN a ELSE ts)
    OBVIOUS
  <2>4. d <= ts
    BY <2>2, <2>3
  <2>5. new(g) = range(g) \/ new(g) = [first |-> d, last |-> ts, seen |-> TRUE]
    BY <2>1, <2>3
  <2>6. \E x, y \in Nat : \E z \in BOOLEAN :
          x <= y /\ y <= ts /\ new(g) = [first |-> x, last |-> y, seen |-> z]
    <3>1. CASE new(g) = range(g)
      <4> HIDE DEF new
      <4> QED BY <2>1, <2>2, <3>1
    <3>2. CASE new(g) = [first |-> d, last |-> ts, seen |-> TRUE]
      <4>1. ts <= ts /\ TRUE \in BOOLEAN
        OBVIOUS
      <4> HIDE DEF new
      <4> QED BY <2>4, <3>2, <4>1, Zenon
    <3> QED BY <2>5, <3>1, <3>2
  <2> HIDE DEF new
  <2> QED BY <2>6
<1> HIDE DEF new
<1> QED BY <1>1, <1>2 DEF RangeInv

LEMMA MatchedGrows ==
  ASSUME outstanding \in [Cgroups -> SUBSET Nat], NEW start \in Nat \cup {-1}, NEW ts \in Nat,
         NEW cg, start = -1 \/ cg \in Cgroups, Matched(start, cg, ts)
  PROVE  /\ outstanding' \in [Cgroups -> SUBSET Nat]
         /\ \A g \in Cgroups : outstanding[g] \subseteq outstanding'[g]
         /\ start # -1 => ClosedOpen(start, ts) \subseteq outstanding'[cg]
<1>1. CASE start = -1
  BY <1>1 DEF Matched
<1>2. CASE start # -1
  <2>1. ClosedOpen(start, ts) \subseteq Nat /\ cg \in Cgroups
    BY <1>2 DEF ClosedOpen
  <2>2. outstanding' = [outstanding EXCEPT ![cg] = @ \cup ClosedOpen(start, ts)]
    BY <1>2 DEF Matched
  <2> QED BY <2>1, <2>2
<1> QED BY <1>1, <1>2

-------------------------------------------------------------------------------
(* The parts of the analyzer an event leaves alone.                        *)

LEMMA LaterTypes == CP!IInv /\ Later => now \in Nat /\ now' \in Nat /\ now <= now'
  BY BoundAssumption DEF Later, CP!IInv, CP!TypeOK

LEMMA CpuStays ==
  ASSUME CP!IInv, Later, UNCHANGED cpuVars
  PROVE  CP!IInv'
<1>1. UNCHANGED <<pending_enqueues, cpu_switch_history, cpu_waits>>
  BY DEF cpuVars
<1>2. now \in Nat /\ now' \in Nat /\ now <= now'
  BY LaterTypes
<1>3. CP!TypeOK'
  BY <1>1 DEF CP!IInv, CP!TypeOK, CP!Owners, CP!None, Later
<1>4. ASSUME NEW c \in Cpus
      PROVE  /\ CP!InOrder(cpu_switch_history[c])
             /\ \A i \in DOMAIN cpu_switch_history[c] : cpu_switch_history[c][i].ts <= now'
  <2>1. /\ cpu_switch_history[c] \in Seq(CP!Entry(CP!Owners))
        /\ CP!InOrder(cpu_switch_history[c])
        /\ \A i \in DOMAIN cpu_switch_history[c] : cpu_switch_history[c][i].ts <= now
    BY InstanceAssumptions, CP!HistoryOf
  <2>2. \A i \in DOMAIN cpu_switch_history[c] : cpu_switch_history[c][i].ts \in Nat
    BY <2>1, InstanceAssumptions, CP!HistoryFacts
  <2> QED BY <1>2, <2>1, <2>2
<1>5. \A t \in Tids : pending_enqueues[t] <= now'
  <2>1. \A t \in Tids : pending_enqueues[t] \in Nat \cup {-1} /\ pending_enqueues[t] <= now
    BY DEF CP!IInv, CP!TypeOK, CP!None, CP!HistoriesInOrder
  <2> QED BY <1>2, <2>1
<1>6. CP!HistoriesInOrder'
  BY <1>1, <1>4, <1>5 DEF CP!HistoriesInOrder, CP!InOrder
<1> QED BY <1>3, <1>6 DEF CP!IInv

LEMMA NetStays ==
  ASSUME CP!IInv, NetInv, Later, UNCHANGED netVars
  PROVE  NetInv'
<1>1. UNCHANGED <<pending_packets, net_dequeue_history, net_waits>>
  BY DEF netVars
<1>2. QP!QueueGood(Cgroups, Skbs, pending_packets, net_dequeue_history, net_waits, now')
  BY LaterTypes, QP!QueueWaits, InstanceAssumptions DEF NetInv
<1> QED BY <1>1, <1>2 DEF NetInv, QP!QueueGood, QP!InOrder

LEMMA DiskStays ==
  ASSUME CP!IInv, DiskInv, Later, UNCHANGED bioVars
  PROVE  DiskInv'
<1>1. UNCHANGED <<pending_block_requests, block_issue_history, bio_waits>>
  BY DEF bioVars
<1>2. QP!QueueGood(Cgroups, Requests, pending_block_requests, block_issue_history, bio_waits, now')
  BY LaterTypes, QP!QueueWaits, InstanceAssumptions DEF DiskInv
<1> QED BY <1>1, <1>2 DEF DiskInv, QP!QueueGood, QP!InOrder

(* Nothing is charged, or nothing but instants of the wait that is over,   *)
(* and to a cgroup that was not alone.                                     *)
Charges(start, cg, ts, charge) ==
  /\ start \in Nat \cup {-1} /\ (start = -1 \/ cg \in Cgroups) /\ ts \in Nat
  /\ Matched(start, cg, ts)
  /\ charge # {} => /\ start # -1 /\ charge \subseteq ClosedOpen(start, ts)
                    /\ ~NoAttribution => ~OnlyServed(cg)
  /\ \A g \in Targets :
       LET more == IF g = cg THEN charge ELSE {}
       IN  /\ OnlyServed(g)' => OnlyServed(g)
           /\ cpu_waits'[g] \subseteq cpu_waits[g] \cup more
           /\ net_waits'[g] \subseteq net_waits[g] \cup more
           /\ bio_waits'[g] \subseteq bio_waits[g] \cup more
           /\ OnlyServed(g) => softirq_other'[g] = softirq_other[g]

LEMMA WaitsStep ==
  ASSUME Inv, NEW start, NEW cg, NEW ts, NEW charge, Charges(start, cg, ts, charge)
  PROVE  OutstandingInv' /\ (~NoAttribution => SoloInv')
<1>1. outstanding \in [Cgroups -> SUBSET Nat] /\ QueueWaitsAreOutstanding
  BY DEF Inv, OutstandingInv
<1>2. /\ outstanding' \in [Cgroups -> SUBSET Nat]
      /\ \A g \in Cgroups : outstanding[g] \subseteq outstanding'[g]
      /\ start # -1 => ClosedOpen(start, ts) \subseteq outstanding'[cg]
  BY <1>1, MatchedGrows DEF Charges
<1>3. QueueWaitsAreOutstanding'
  <2>1. SUFFICES ASSUME NEW g \in Targets
                 PROVE  cpu_waits'[g] \cup net_waits'[g] \cup bio_waits'[g] \subseteq outstanding'[g]
    BY DEF QueueWaitsAreOutstanding
  <2>2. cpu_waits[g] \cup net_waits[g] \cup bio_waits[g] \subseteq outstanding'[g]
    BY <1>1, <1>2, CgroupFacts DEF QueueWaitsAreOutstanding
  <2>3. (IF g = cg THEN charge ELSE {}) \subseteq outstanding'[g]
    BY <1>2 DEF Charges
  <2> QED BY <2>2, <2>3 DEF Charges
<1>4. ASSUME ~NoAttribution PROVE SoloInv'
  <2>1. SUFFICES ASSUME NEW g \in Targets, OnlyServed(g)'
                 PROVE  cpu_waits'[g] \cup net_waits'[g] \cup bio_waits'[g] \cup softirq_other'[g] = {}
    BY <1>4 DEF SoloInv, total_unique_wait
  <2>2. OnlyServed(g)
    BY <2>1 DEF Charges
  <2>3. cpu_waits[g] \cup net_waits[g] \cup bio_waits[g] \cup softirq_other[g] = {}
    BY <1>4, <2>2 DEF Inv, SoloInv, total_unique_wait
  <2>4. (IF g = cg THEN charge ELSE {}) = {}
    BY <1>4, <2>2 DEF Charges
  <2> QED BY <2>2, <2>3, <2>4 DEF Charges
<1> QED BY <1>2, <1>3, <1>4 DEF OutstandingInv

LEMMA NoCharges ==
  ASSUME Inv, UNCHANGED <<outstanding, cpu_waits, net_waits, bio_waits>>,
         \A g \in Targets : /\ OnlyServed(g)' => OnlyServed(g)
                            /\ OnlyServed(g) => softirq_other'[g] = softirq_other[g]
  PROVE  OutstandingInv' /\ (~NoAttribution => SoloInv')
<1>1. Charges(-1, 0, 0, {})
  BY DEF Charges, Matched
<1> QED BY <1>1, WaitsStep

-------------------------------------------------------------------------------
(* The events of the CPU.                                                  *)

LEMMA EnqueueKeeps ==
  ASSUME Inv, NEW t \in Tids, NEW stamp \in Cgroups, NEW ts \in 0 .. MaxTime, Enqueue(t, stamp, ts)
  PROVE  Inv'
<1>1. CP!HandleEnqueue(t, ts)
  BY DEF Enqueue, Cpu!HandleEnqueue, Cpu!Event, CP!HandleEnqueue, CP!Event
<1>2. CP!IInv'
  <2>1. CP!IInv /\ CP!Next
    BY <1>1 DEF Inv, CP!Next
  <2> QED BY <2>1, InstanceAssumptions, CP!InvStep
<1>3. Later /\ now' = ts /\ UNCHANGED <<cpu_switch_history, cpu_waits>>
  BY <1>1, <1>2 DEF CP!HandleEnqueue, CP!Event, Later, CP!IInv, CP!TypeOK
<1>4. /\ UNCHANGED <<netVars, bioVars, softirqVars, outstanding>> /\ Stamped(stamp, ts)
      /\ UNCHANGED <<net_dequeue_history, block_issue_history, net_waits, bio_waits, softirq_other>>
  BY DEF Enqueue, netVars, bioVars, softirqVars
<1>5. NetInv' /\ DiskInv'
  BY <1>3, <1>4, NetStays, DiskStays DEF Inv
<1>6. SoftInv'
  <2>1. \A g \in Cgroups : Served(g) => Served(g)'
    BY <1>4 DEF Served
  <2> QED BY <1>3, <1>4, <2>1, SoftStays DEF Inv
<1>7. RangeInv'
  BY <1>3, <1>4, LaterTypes, RangeSteps DEF Inv, Later
<1>8. \A g \in Targets : OnlyServed(g)' => OnlyServed(g)
  BY <1>3, <1>4 DEF OnlyServed
<1>9. OutstandingInv' /\ (~NoAttribution => SoloInv')
  BY <1>3, <1>4, <1>8, NoCharges
<1> QED BY <1>2, <1>5, <1>6, <1>7, <1>9 DEF Inv

LEMMA SwitchKeeps ==
  ASSUME Inv, NEW t \in Tids, NEW c \in Cpus, NEW ts \in 0 .. MaxTime, Switch(t, c, ts)
  PROVE  Inv'
<1> DEFINE h == cpu_switch_history[c]
           start == pending_enqueues[t]
           mine == CgOf[t]
           charge == IF start # -1 /\ mine \in Targets
                     THEN CP!CpuCharge(h, start, ts, mine) ELSE {}
<1>1. CP!HandleSwitch(t, c, ts)
  <2>1. Cpu!HandleSwitch(t, c, ts)
    BY DEF Switch
  <2> QED BY <2>1, SameCharge DEF Cpu!HandleSwitch, Cpu!Event, Cpu!None,
                                  CP!HandleSwitch, CP!Event, CP!None
<1>2. CP!IInv'
  <2>1. CP!IInv /\ CP!Next
    BY <1>1 DEF Inv, CP!Next
  <2> QED BY <2>1, InstanceAssumptions, CP!InvStep
<1>3. Later /\ now <= ts /\ now' = ts /\ ts \in Nat /\ now \in Nat
  BY <1>1, <1>2, BoundAssumption DEF CP!HandleSwitch, CP!Event, Later, CP!IInv, CP!TypeOK, Inv
<1>4. /\ UNCHANGED <<netVars, bioVars, softirqVars>> /\ Stamped(mine, ts) /\ Matched(start, mine, ts)
      /\ UNCHANGED <<net_dequeue_history, block_issue_history, net_waits, bio_waits, softirq_other>>
  BY DEF Switch, netVars, bioVars, softirqVars
<1>5. NetInv' /\ DiskInv'
  BY <1>3, <1>4, NetStays, DiskStays DEF Inv
<1>6. SoftInv'
  <2>1. \A g \in Cgroups : Served(g) => Served(g)'
    BY <1>4 DEF Served
  <2> QED BY <1>3, <1>4, <2>1, SoftStays DEF Inv
<1>7. RangeInv'
  BY <1>3, <1>4, RangeSteps DEF Inv
<1>8. /\ start \in Nat \cup {-1} /\ start <= now /\ mine \in Cgroups /\ mine \in CP!Owners
      /\ cpu_waits \in [CP!Owners -> SUBSET Nat]
      /\ cpu_switch_history \in [Cpus -> Seq([ts : Nat, cg : CP!Owners])]
  BY CgroupFacts DEF Inv, CP!IInv, CP!TypeOK, CP!None, CP!HistoriesInOrder, CP!Owners
<1>9. /\ h \in Seq(CP!Entry(CP!Owners)) /\ CP!InOrder(h) /\ \A i \in DOMAIN h : h[i].ts <= ts
  <2>1. h \in Seq(CP!Entry(CP!Owners))
    BY <1>8 DEF CP!Entry
  <2>2. CP!InOrder(h) /\ \A i \in DOMAIN h : h[i].ts <= now
    BY DEF Inv, CP!IInv, CP!HistoriesInOrder
  <2>3. \A i \in DOMAIN h : h[i].ts \in Nat
    BY <2>1, <2>2, CP!HistoryFacts, InstanceAssumptions
  <2> QED BY <1>3, <2>1, <2>2, <2>3
<1>10. ASSUME charge # {}
       PROVE  /\ start # -1 /\ charge \subseteq ClosedOpen(start, ts)
              /\ ~NoAttribution => ~OnlyServed(mine)
  <2>1. start \in Nat /\ start <= ts /\ start # -1
    BY <1>3, <1>8, <1>10
  <2>2. ASSUME NEW p \in charge
        PROVE  p \in ClosedOpen(start, ts) /\ \E i \in DOMAIN h : Charged(h[i], mine)
    BY <1>3, <1>9, <2>1, CP!CpuChargeIsExact, InstanceAssumptions
       DEF CP!CpuCharge, CP!HeldAt, CP!ClosedOpen, CP!Charged, ClosedOpen, Charged
  <2>3. PICK i \in DOMAIN h : Charged(h[i], mine)
    BY <1>10, <2>2
  <2>4. ~NoAttribution => ~OnlyServed(mine)
    BY <2>3 DEF Charged, OnlyServed
  <2> QED BY <2>1, <2>2, <2>4
<1>11. \A g \in Targets : cpu_waits'[g] \subseteq cpu_waits[g] \cup (IF g = mine THEN charge ELSE {})
  <2>1. cpu_waits' = IF start # -1 /\ mine \in Targets
                     THEN [cpu_waits EXCEPT ![mine] = @ \cup Cpu!CpuCharge(h, start, ts, mine)]
                     ELSE cpu_waits
    BY DEF Switch, Cpu!HandleSwitch, Cpu!None
  <2>2. Cpu!CpuCharge(h, start, ts, mine)
          = CP!CpuCharge(h, start, ts, mine)
    BY SameCharge
  <2> QED BY <1>8, <2>1, <2>2, CgroupFacts
<1>12. \A g \in Targets : OnlyServed(g)' => OnlyServed(g)
  <2>1. SUFFICES ASSUME NEW g \in Targets, OnlyServed(g)', NEW d \in Cpus
                 PROVE  \A i \in DOMAIN cpu_switch_history[d] : cpu_switch_history[d][i].cg = g
    BY <1>4 DEF OnlyServed
  <2>2. \A i \in DOMAIN cpu_switch_history'[d] : cpu_switch_history'[d][i].cg = g
    BY <2>1 DEF OnlyServed
  <2>3. CASE d = c
    <3>1. cpu_switch_history'[c] = Append(h, [ts |-> ts, cg |-> mine])
      BY <1>1, <1>8 DEF CP!HandleSwitch
    <3>2. \A i \in DOMAIN h : i \in DOMAIN cpu_switch_history'[c] /\ cpu_switch_history'[c][i] = h[i]
      BY <1>3, <1>8, <1>9, <3>1, CP!AppendInOrder, InstanceAssumptions
    <3> QED BY <2>2, <2>3, <3>2
  <2>4. CASE d # c
    <3>1. cpu_switch_history'[d] = cpu_switch_history[d]
      BY <1>1, <1>8, <2>4 DEF CP!HandleSwitch
    <3> QED BY <2>2, <3>1
  <2> QED BY <2>3, <2>4
<1>13. OutstandingInv' /\ (~NoAttribution => SoloInv')
  <2> HIDE DEF charge
  <2>1. PICK begun, spent : begun = start /\ spent = charge
    OBVIOUS
  <2>2. Charges(begun, mine, ts, spent)
    BY <1>3, <1>4, <1>8, <1>10, <1>11, <1>12, <2>1 DEF Charges, Matched
  <2> QED BY <2>2, WaitsStep
<1> QED BY <1>2, <1>5, <1>6, <1>7, <1>13 DEF Inv

-------------------------------------------------------------------------------
(* The events of the queues.                                               *)

LEMMA NetQueueKeeps ==
  ASSUME Inv, NEW k \in Skbs, NEW cg \in Cgroups, NEW ts \in 0 .. MaxTime, NetQueue(k, cg, ts)
  PROVE  Inv'
<1>1. /\ Later /\ now <= ts /\ now' = ts /\ ts \in Nat /\ now \in Nat
      /\ pending_packets' = [pending_packets EXCEPT ![k] = [ts |-> ts, cg |-> cg]]
      /\ UNCHANGED <<net_dequeue_history, net_waits>>
  BY BoundAssumption DEF NetQueue, Net!HandleStart, Net!Event, Later, Inv, CP!IInv, CP!TypeOK
<1>2. /\ UNCHANGED <<cpuVars, bioVars, softirqVars, outstanding>> /\ Stamped(cg, ts)
      /\ UNCHANGED <<cpu_switch_history, cpu_waits, block_issue_history, bio_waits, softirq_other>>
  BY DEF NetQueue, cpuVars, bioVars, softirqVars
<1>3. CP!IInv' /\ DiskInv'
  BY <1>1, <1>2, CpuStays, DiskStays DEF Inv
<1>4. NetInv'
  <2>1. QP!QueueGood(Cgroups, Skbs, [pending_packets EXCEPT ![k] = [ts |-> ts, cg |-> cg]],
                  net_dequeue_history, net_waits, ts)
    BY <1>1, QP!QueueStart, InstanceAssumptions DEF Inv, NetInv
  <2> QED BY <1>1, <2>1 DEF NetInv, QP!QueueGood, QP!InOrder
<1>5. SoftInv'
  <2>1. \A g \in Cgroups : Served(g) => Served(g)'
    BY <1>1, <1>2 DEF Served
  <2> QED BY <1>1, <1>2, <2>1, SoftStays DEF Inv
<1>6. RangeInv'
  BY <1>1, <1>2, RangeSteps DEF Inv
<1>7. \A g \in Targets : OnlyServed(g)' => OnlyServed(g)
  BY <1>1, <1>2 DEF OnlyServed
<1>8. OutstandingInv' /\ (~NoAttribution => SoloInv')
  BY <1>1, <1>2, <1>7, NoCharges
<1> QED BY <1>3, <1>4, <1>5, <1>6, <1>8 DEF Inv

LEMMA BlockInsertKeeps ==
  ASSUME Inv, NEW k \in Requests, NEW cg \in Cgroups, NEW ts \in 0 .. MaxTime,
         BlockInsert(k, cg, ts)
  PROVE  Inv'
<1>1. /\ Later /\ now <= ts /\ now' = ts /\ ts \in Nat /\ now \in Nat
      /\ pending_block_requests' = [pending_block_requests EXCEPT ![k] = [ts |-> ts, cg |-> cg]]
      /\ UNCHANGED <<block_issue_history, bio_waits>>
  BY BoundAssumption DEF BlockInsert, Disk!HandleStart, Disk!Event, Later, Inv, CP!IInv, CP!TypeOK
<1>2. /\ UNCHANGED <<cpuVars, netVars, softirqVars, outstanding>> /\ Stamped(cg, ts)
      /\ UNCHANGED <<cpu_switch_history, cpu_waits, net_dequeue_history, net_waits, softirq_other>>
  BY DEF BlockInsert, cpuVars, netVars, softirqVars
<1>3. CP!IInv' /\ NetInv'
  BY <1>1, <1>2, CpuStays, NetStays DEF Inv
<1>4. DiskInv'
  <2>1. QP!QueueGood(Cgroups, Requests, [pending_block_requests EXCEPT ![k] = [ts |-> ts, cg |-> cg]],
                  block_issue_history, bio_waits, ts)
    BY <1>1, QP!QueueStart, InstanceAssumptions DEF Inv, DiskInv
  <2> QED BY <1>1, <2>1 DEF DiskInv, QP!QueueGood, QP!InOrder
<1>5. SoftInv'
  <2>1. \A g \in Cgroups : Served(g) => Served(g)'
    BY <1>1, <1>2 DEF Served
  <2> QED BY <1>1, <1>2, <2>1, SoftStays DEF Inv
<1>6. RangeInv'
  BY <1>1, <1>2, RangeSteps DEF Inv
<1>7. \A g \in Targets : OnlyServed(g)' => OnlyServed(g)
  BY <1>1, <1>2 DEF OnlyServed
<1>8. OutstandingInv' /\ (~NoAttribution => SoloInv')
  BY <1>1, <1>2, <1>7, NoCharges
<1> QED BY <1>3, <1>4, <1>5, <1>6, <1>8 DEF Inv

LEMMA NetDequeueKeeps ==
  ASSUME Inv, NEW k \in Skbs, NEW cg \in Cgroups, NEW c \in Cpus, NEW ts \in 0 .. MaxTime,
         NetDequeue(k, cg, c, ts)
  PROVE  Inv'
<1> DEFINE start == pending_packets[k]
           h == net_dequeue_history
           charge == IF start # QP!NoStart /\ start.cg \in Targets
                     THEN Net!QueueCharge(h, start.ts, ts, start.cg) ELSE {}
<1>1. /\ Later /\ now <= ts /\ now' = ts /\ ts \in Nat /\ now \in Nat
      /\ pending_packets' = [pending_packets EXCEPT ![k] = QP!NoStart]
      /\ h' = Append(h, [ts |-> ts, cg |-> cg])
      /\ net_waits' = IF start # QP!NoStart /\ start.cg \in Targets
                    THEN [net_waits EXCEPT ![start.cg] = @ \cup charge] ELSE net_waits
  <2>1. Net!HandleService(k, cg, ts) /\ Net!None = QP!NoStart
    BY DEF NetDequeue, Net!None, QP!NoStart
  <2>2. Later /\ now <= ts /\ now' = ts /\ ts \in Nat /\ now \in Nat
    BY <2>1, BoundAssumption DEF Net!HandleService, Net!Event, Later, Inv, CP!IInv, CP!TypeOK
  <2>3. /\ pending_packets' = [pending_packets EXCEPT ![k] = QP!NoStart]
        /\ h' = Append(h, [ts |-> ts, cg |-> cg])
    BY <2>1, Zenon DEF Net!HandleService
  <2>4. net_waits' = IF start # QP!NoStart /\ start.cg \in Targets
                  THEN [net_waits EXCEPT ![start.cg] =
                          @ \cup Net!QueueCharge(h, start.ts, ts, start.cg)]
                  ELSE net_waits
    BY <2>1, Zenon DEF Net!HandleService
  <2> QED BY <2>2, <2>3, <2>4
<1>2. /\ UNCHANGED <<cpuVars, bioVars>> /\ Stamped(cg, ts) /\ RecordEvent(cg, c, ts)
      /\ Matched(start.ts, start.cg, ts)
      /\ UNCHANGED <<cpu_switch_history, cpu_waits, block_issue_history, bio_waits>>
  BY DEF NetDequeue, cpuVars, bioVars
<1>3. CP!IInv' /\ DiskInv'
  BY <1>1, <1>2, CpuStays, DiskStays DEF Inv
<1>4. QP!QueueGood(Cgroups, Skbs, pending_packets, h, net_waits, now)
  BY DEF Inv, NetInv
<1>5. start \in QP!Entry(Cgroups) \cup {QP!NoStart}
  BY <1>4 DEF QP!QueueGood
<1>6. ASSUME start # QP!NoStart
      PROVE  /\ start.ts \in Nat /\ start.cg \in Cgroups
             /\ charge \subseteq ClosedOpen(start.ts, ts)
             /\ charge # {} => \E i \in DOMAIN h : Charged(h[i], start.cg)
  <2>1. charge \subseteq QP!LeadSlice(h, start.ts, ts, start.cg)
                       \cup QP!Spans(h, start.ts, ts, start.cg)
    BY SameQueueCharge
  <2> HIDE DEF charge
  <2> QED BY <1>1, <1>4, <1>6, <2>1, QP!QueueCharges, InstanceAssumptions
       DEF QP!ClosedOpen, QP!Charged, ClosedOpen, Charged
<1>7. net_waits \in [Cgroups -> SUBSET Nat] /\ net_waits' \in [Cgroups -> SUBSET Nat]
  <2>1. net_waits \in [Cgroups -> SUBSET Nat]
    BY <1>4 DEF QP!QueueGood
  <2>2. CASE start # QP!NoStart /\ start.cg \in Targets
    <3>1. charge \subseteq Nat
      BY <1>1, <1>6, <2>2 DEF ClosedOpen
    <3> HIDE DEF charge
    <3> QED BY <1>1, <2>1, <2>2, <3>1
  <2>3. CASE ~(start # QP!NoStart /\ start.cg \in Targets)
    BY <1>1, <2>1, <2>3
  <2> QED BY <2>1, <2>2, <2>3
<1>8. /\ NetInv'
      /\ \A i \in DOMAIN h : i \in DOMAIN h' /\ h'[i] = h[i]
      /\ \E i \in DOMAIN h' : h'[i].cg = cg
  <2>1. /\ QP!QueueGood(Cgroups, Skbs, pending_packets', h', net_waits', ts)
        /\ \A i \in DOMAIN h : i \in DOMAIN h' /\ h'[i] = h[i]
        /\ \E i \in DOMAIN h' : h'[i].cg = cg
    <3> DEFINE h1 == Append(h, [ts |-> ts, cg |-> cg])
    <3>1. QP!QueueGood(Cgroups, Skbs, [pending_packets EXCEPT ![k] = QP!NoStart], h1, net_waits', ts)
      <4>1. now \in Nat /\ ts \in Nat /\ now <= ts
        BY <1>1
      <4> QED BY <1>4, <1>7, <4>1, QP!QueueService, InstanceAssumptions
    <3>2. h' = h1 /\ pending_packets' = [pending_packets EXCEPT ![k] = QP!NoStart]
      BY <1>1
    <3>3. /\ \A i \in DOMAIN h : i \in DOMAIN h1 /\ h1[i] = h[i]
          /\ \E i \in DOMAIN h1 : h1[i].cg = cg
      BY <1>1, <1>4, QP!ServiceIsLast, InstanceAssumptions
    <3> HIDE DEF h1
    <3> QED BY <3>1, <3>2, <3>3
  <2> QED BY <1>1, <2>1 DEF NetInv, QP!QueueGood, QP!InOrder
<1>9. SoftInv' /\ UNCHANGED softirq_other
  <2>1. \A g \in Cgroups : Served(g) => Served(g)'
    BY <1>2, <1>8 DEF Served
  <2>2. Served(cg)'
    BY <1>8 DEF Served
  <2>3. Event(ts)
    BY DEF NetDequeue, Net!HandleService, Net!Event, Event
  <2> QED BY <1>2, <2>1, <2>2, <2>3, SoftRecords DEF Inv
<1>10. RangeInv'
  BY <1>1, <1>2, RangeSteps DEF Inv
<1>11. \A g \in Targets : OnlyServed(g)' => OnlyServed(g)
  BY <1>2, <1>8 DEF OnlyServed
<1>12. \A g \in Targets :
         net_waits'[g] \subseteq net_waits[g] \cup (IF g = start.cg THEN charge ELSE {})
  BY <1>1, <1>7, CgroupFacts
<1>13. start = QP!NoStart \/ start.ts # -1
  BY <1>5 DEF QP!Entry, QP!NoStart
<1>14. /\ start.ts \in Nat \cup {-1} /\ (start.ts = -1 \/ start.cg \in Cgroups)
       /\ charge # {} => /\ start.ts # -1 /\ charge \subseteq ClosedOpen(start.ts, ts)
                         /\ ~NoAttribution => ~OnlyServed(start.cg)
  <2>1. CASE start = QP!NoStart
    BY <2>1 DEF QP!NoStart
  <2>2. CASE start # QP!NoStart
    <3> HIDE DEF charge
    <3> QED BY <1>6, <1>13, <2>2 DEF Charged, OnlyServed
  <2> QED BY <2>1, <2>2
<1> HIDE DEF charge
<1>15. OutstandingInv' /\ (~NoAttribution => SoloInv')
  <2>1. PICK begun, owner, spent : begun = start.ts /\ owner = start.cg /\ spent = charge
    OBVIOUS
  <2>2. Charges(begun, owner, ts, spent)
    BY <1>1, <1>2, <1>9, <1>11, <1>12, <1>14, <2>1 DEF Charges, Matched
  <2> QED BY <2>2, WaitsStep
<1> QED BY <1>3, <1>8, <1>9, <1>10, <1>15 DEF Inv

LEMMA BlockIssueKeeps ==
  ASSUME Inv, NEW k \in Requests, NEW cg \in Cgroups, NEW c \in Cpus, NEW ts \in 0 .. MaxTime,
         BlockIssue(k, cg, c, ts)
  PROVE  Inv'
<1> DEFINE start == pending_block_requests[k]
           h == block_issue_history
           charge == IF start # QP!NoStart /\ start.cg \in Targets
                     THEN Disk!QueueCharge(h, start.ts, ts, start.cg) ELSE {}
<1>1. /\ Later /\ now <= ts /\ now' = ts /\ ts \in Nat /\ now \in Nat
      /\ pending_block_requests' = [pending_block_requests EXCEPT ![k] = QP!NoStart]
      /\ h' = Append(h, [ts |-> ts, cg |-> cg])
      /\ bio_waits' = IF start # QP!NoStart /\ start.cg \in Targets
                    THEN [bio_waits EXCEPT ![start.cg] = @ \cup charge] ELSE bio_waits
  <2>1. Disk!HandleService(k, cg, ts) /\ Disk!None = QP!NoStart
    BY DEF BlockIssue, Disk!None, QP!NoStart
  <2>2. Later /\ now <= ts /\ now' = ts /\ ts \in Nat /\ now \in Nat
    BY <2>1, BoundAssumption DEF Disk!HandleService, Disk!Event, Later, Inv, CP!IInv, CP!TypeOK
  <2>3. /\ pending_block_requests' = [pending_block_requests EXCEPT ![k] = QP!NoStart]
        /\ h' = Append(h, [ts |-> ts, cg |-> cg])
    BY <2>1, Zenon DEF Disk!HandleService
  <2>4. bio_waits' = IF start # QP!NoStart /\ start.cg \in Targets
                  THEN [bio_waits EXCEPT ![start.cg] =
                          @ \cup Disk!QueueCharge(h, start.ts, ts, start.cg)]
                  ELSE bio_waits
    BY <2>1, Zenon DEF Disk!HandleService
  <2> QED BY <2>2, <2>3, <2>4
<1>2. /\ UNCHANGED <<cpuVars, netVars>> /\ Stamped(cg, ts) /\ RecordEvent(cg, c, ts)
      /\ Matched(start.ts, start.cg, ts)
      /\ UNCHANGED <<cpu_switch_history, cpu_waits, net_dequeue_history, net_waits>>
  BY DEF BlockIssue, cpuVars, netVars
<1>3. CP!IInv' /\ NetInv'
  BY <1>1, <1>2, CpuStays, NetStays DEF Inv
<1>4. QP!QueueGood(Cgroups, Requests, pending_block_requests, h, bio_waits, now)
  BY DEF Inv, DiskInv
<1>5. start \in QP!Entry(Cgroups) \cup {QP!NoStart}
  BY <1>4 DEF QP!QueueGood
<1>6. ASSUME start # QP!NoStart
      PROVE  /\ start.ts \in Nat /\ start.cg \in Cgroups
             /\ charge \subseteq ClosedOpen(start.ts, ts)
             /\ charge # {} => \E i \in DOMAIN h : Charged(h[i], start.cg)
  <2>1. charge \subseteq QP!LeadSlice(h, start.ts, ts, start.cg)
                       \cup QP!Spans(h, start.ts, ts, start.cg)
    BY SameQueueCharge
  <2> HIDE DEF charge
  <2> QED BY <1>1, <1>4, <1>6, <2>1, QP!QueueCharges, InstanceAssumptions
       DEF QP!ClosedOpen, QP!Charged, ClosedOpen, Charged
<1>7. bio_waits \in [Cgroups -> SUBSET Nat] /\ bio_waits' \in [Cgroups -> SUBSET Nat]
  <2>1. bio_waits \in [Cgroups -> SUBSET Nat]
    BY <1>4 DEF QP!QueueGood
  <2>2. CASE start # QP!NoStart /\ start.cg \in Targets
    <3>1. charge \subseteq Nat
      BY <1>1, <1>6, <2>2 DEF ClosedOpen
    <3> HIDE DEF charge
    <3> QED BY <1>1, <2>1, <2>2, <3>1
  <2>3. CASE ~(start # QP!NoStart /\ start.cg \in Targets)
    BY <1>1, <2>1, <2>3
  <2> QED BY <2>1, <2>2, <2>3
<1>8. /\ DiskInv'
      /\ \A i \in DOMAIN h : i \in DOMAIN h' /\ h'[i] = h[i]
      /\ \E i \in DOMAIN h' : h'[i].cg = cg
  <2>1. /\ QP!QueueGood(Cgroups, Requests, pending_block_requests', h', bio_waits', ts)
        /\ \A i \in DOMAIN h : i \in DOMAIN h' /\ h'[i] = h[i]
        /\ \E i \in DOMAIN h' : h'[i].cg = cg
    <3> DEFINE h1 == Append(h, [ts |-> ts, cg |-> cg])
    <3>1. QP!QueueGood(Cgroups, Requests, [pending_block_requests EXCEPT ![k] = QP!NoStart], h1, bio_waits', ts)
      <4>1. now \in Nat /\ ts \in Nat /\ now <= ts
        BY <1>1
      <4> QED BY <1>4, <1>7, <4>1, QP!QueueService, InstanceAssumptions
    <3>2. h' = h1 /\ pending_block_requests' = [pending_block_requests EXCEPT ![k] = QP!NoStart]
      BY <1>1
    <3>3. /\ \A i \in DOMAIN h : i \in DOMAIN h1 /\ h1[i] = h[i]
          /\ \E i \in DOMAIN h1 : h1[i].cg = cg
      BY <1>1, <1>4, QP!ServiceIsLast, InstanceAssumptions
    <3> HIDE DEF h1
    <3> QED BY <3>1, <3>2, <3>3
  <2> QED BY <1>1, <2>1 DEF DiskInv, QP!QueueGood, QP!InOrder
<1>9. SoftInv' /\ UNCHANGED softirq_other
  <2>1. \A g \in Cgroups : Served(g) => Served(g)'
    BY <1>2, <1>8 DEF Served
  <2>2. Served(cg)'
    BY <1>8 DEF Served
  <2>3. Event(ts)
    BY DEF BlockIssue, Disk!HandleService, Disk!Event, Event
  <2> QED BY <1>2, <2>1, <2>2, <2>3, SoftRecords DEF Inv
<1>10. RangeInv'
  BY <1>1, <1>2, RangeSteps DEF Inv
<1>11. \A g \in Targets : OnlyServed(g)' => OnlyServed(g)
  BY <1>2, <1>8 DEF OnlyServed
<1>12. \A g \in Targets :
         bio_waits'[g] \subseteq bio_waits[g] \cup (IF g = start.cg THEN charge ELSE {})
  BY <1>1, <1>7, CgroupFacts
<1>13. start = QP!NoStart \/ start.ts # -1
  BY <1>5 DEF QP!Entry, QP!NoStart
<1>14. /\ start.ts \in Nat \cup {-1} /\ (start.ts = -1 \/ start.cg \in Cgroups)
       /\ charge # {} => /\ start.ts # -1 /\ charge \subseteq ClosedOpen(start.ts, ts)
                         /\ ~NoAttribution => ~OnlyServed(start.cg)
  <2>1. CASE start = QP!NoStart
    BY <2>1 DEF QP!NoStart
  <2>2. CASE start # QP!NoStart
    <3> HIDE DEF charge
    <3> QED BY <1>6, <1>13, <2>2 DEF Charged, OnlyServed
  <2> QED BY <2>1, <2>2
<1> HIDE DEF charge
<1>15. OutstandingInv' /\ (~NoAttribution => SoloInv')
  <2>1. PICK begun, owner, spent : begun = start.ts /\ owner = start.cg /\ spent = charge
    OBVIOUS
  <2>2. Charges(begun, owner, ts, spent)
    BY <1>1, <1>2, <1>9, <1>11, <1>12, <1>14, <2>1 DEF Charges, Matched
  <2> QED BY <2>2, WaitsStep
<1> QED BY <1>3, <1>8, <1>9, <1>10, <1>15 DEF Inv

-------------------------------------------------------------------------------
(* The events of the softirqs.                                             *)

LEMMA SoftirqEntryKeeps ==
  ASSUME Inv, NEW c \in Cpus, NEW stamp, NEW ts \in 0 .. MaxTime, SoftirqEntry(c, stamp, ts)
  PROVE  Inv'
<1>1. /\ UNCHANGED <<cpuVars, netVars, bioVars, outstanding>> /\ Stamped(stamp, ts)
      /\ UNCHANGED <<cpu_switch_history, cpu_waits, net_dequeue_history, net_waits,
                     block_issue_history, bio_waits>>
      /\ HandleEntry(c, ts) /\ now <= ts /\ now' = ts
  BY DEF SoftirqEntry, cpuVars, netVars, bioVars, HandleEntry, Event
<1>2. events \in 0 .. MaxEvents /\ now \in Nat /\ ts \in Nat
  BY BoundAssumption DEF Inv, CP!IInv, CP!TypeOK
<1>3. Later /\ SoftInv' /\ UNCHANGED softirq_other
  BY <1>1, <1>2, SoftEnters DEF Inv
<1>4. CP!IInv' /\ NetInv' /\ DiskInv'
  BY <1>1, <1>3, CpuStays, NetStays, DiskStays DEF Inv
<1>5. RangeInv'
  BY <1>1, <1>2, RangeSteps DEF Inv
<1>6. OutstandingInv' /\ (~NoAttribution => SoloInv')
  <2>1. \A g \in Targets : OnlyServed(g)' => OnlyServed(g)
    BY <1>1 DEF OnlyServed
  <2> QED BY <1>1, <1>3, <2>1, NoCharges
<1> QED BY <1>3, <1>4, <1>5, <1>6 DEF Inv

LEMMA SoftirqExitKeeps ==
  ASSUME Inv, NEW c \in Cpus, NEW stamp, NEW ts \in 0 .. MaxTime, SoftirqExit(c, stamp, ts)
  PROVE  Inv'
<1>1. /\ UNCHANGED <<cpuVars, netVars, bioVars, outstanding>> /\ Stamped(stamp, ts)
      /\ UNCHANGED <<cpu_switch_history, cpu_waits, net_dequeue_history, net_waits,
                     block_issue_history, bio_waits>>
      /\ HandleExit(c, ts) /\ now <= ts /\ now' = ts
  BY DEF SoftirqExit, cpuVars, netVars, bioVars, HandleExit, Event
<1>2. events \in 0 .. MaxEvents /\ now \in Nat /\ ts \in Nat
  BY BoundAssumption DEF Inv, CP!IInv, CP!TypeOK
<1>3. /\ Later /\ SoftInv'
      /\ \A g \in Targets : OnlyServed(g) => softirq_other'[g] = softirq_other[g]
  BY <1>1, <1>2, SoftExits DEF Inv
<1>4. CP!IInv' /\ NetInv' /\ DiskInv'
  BY <1>1, <1>3, CpuStays, NetStays, DiskStays DEF Inv
<1>5. RangeInv'
  BY <1>1, <1>2, RangeSteps DEF Inv
<1>6. OutstandingInv' /\ (~NoAttribution => SoloInv')
  <2>1. \A g \in Targets : OnlyServed(g)' => OnlyServed(g)
    BY <1>1 DEF OnlyServed
  <2> QED BY <1>1, <1>3, <2>1, NoCharges
<1> QED BY <1>3, <1>4, <1>5, <1>6 DEF Inv

-------------------------------------------------------------------------------
(* The invariant, and what follows from it.                                *)

LEMMA InvInit == Init => Inv
<1> SUFFICES ASSUME Init PROVE Inv
  OBVIOUS
<1> USE BoundAssumption
<1>1. CP!IInv
  <2>1. CP!Init
    BY DEF Init, Cpu!Init, Cpu!Owners, Cpu!None, CP!Init, CP!Owners, CP!None
  <2> QED BY <2>1, InstanceAssumptions, CP!InvInit
<1>2. now = 0 /\ events = 0 /\ 0 \in 0 .. MaxTime /\ 0 \in 0 .. MaxEvents
  BY DEF Init, Cpu!Init
<1>3. <<>> \in Seq(QP!Entry(Cgroups)) /\ DOMAIN <<>> = {}
  BY EmptySeq
<1>4. NetInv
  BY <1>2, <1>3 DEF Init, Net!Init, Net!None, NetInv, QP!QueueGood, QP!NoStart, QP!InOrder
<1>5. DiskInv
  BY <1>2, <1>3 DEF Init, Disk!Init, Disk!None, DiskInv, QP!QueueGood, QP!NoStart, QP!InOrder
<1>6. SoftInv
  <2>1. SoftirqInv
    BY SoftirqInitInv DEF Init
  <2>2. \A c \in Cpus, g \in Cgroups : pending_softirqs[c].counts[g] = 0
    BY DEF Init, SoftirqInit, NoSoftirq
  <2>3. \A c \in Cpus, g \in Cgroups : ~(pending_softirqs[c].counts[g] > 0)
    BY <2>2
  <2> QED BY <2>1, <2>3 DEF SoftInv
<1>7. RangeInv
  <2>1. NotSeen \in [first : Nat, last : Nat, seen : BOOLEAN]
    BY DEF NotSeen
  <2>2. NotSeen.first <= NotSeen.last /\ NotSeen.last <= now
    BY <1>2 DEF NotSeen
  <2> QED BY <2>1, <2>2 DEF Init, RangeInv
<1>8. /\ \A g \in CP!Owners : cpu_waits[g] = {}
      /\ \A g \in Cgroups : net_waits[g] = {} /\ bio_waits[g] = {}
      /\ \A g \in Targets : softirq_other[g] = {}
  BY DEF Init, Cpu!Init, Cpu!Owners, CP!Owners, Net!Init, Disk!Init, SoftirqInit
<1>9. OutstandingInv
  BY <1>8, CgroupFacts DEF Init, OutstandingInv, QueueWaitsAreOutstanding
<1>10. ~NoAttribution => SoloInv
  BY <1>8, CgroupFacts DEF SoloInv, total_unique_wait
<1> QED BY <1>1, <1>4, <1>5, <1>6, <1>7, <1>9, <1>10 DEF Inv

LEMMA InvStep == Inv /\ [Next]_vars => Inv'
<1> SUFFICES ASSUME Inv, [Next]_vars PROVE Inv'
  OBVIOUS
<1>1. CASE Next
  <2>1. PICK ts \in 0 .. MaxTime, c \in Cpus, cg \in Cgroups :
          \/ \E t \in Tids : Enqueue(t, cg, ts) \/ Switch(t, c, ts)
          \/ \E k \in Skbs : NetQueue(k, cg, ts) \/ NetDequeue(k, cg, c, ts)
          \/ \E k \in Requests : BlockInsert(k, cg, ts) \/ BlockIssue(k, cg, c, ts)
          \/ \E stamp \in {cg, Root} : SoftirqEntry(c, stamp, ts) \/ SoftirqExit(c, stamp, ts)
    BY <1>1 DEF Next
  <2>2. CASE \E t \in Tids : Enqueue(t, cg, ts) \/ Switch(t, c, ts)
    BY <2>2, EnqueueKeeps, SwitchKeeps
  <2>3. CASE \E k \in Skbs : NetQueue(k, cg, ts) \/ NetDequeue(k, cg, c, ts)
    BY <2>3, NetQueueKeeps, NetDequeueKeeps
  <2>4. CASE \E k \in Requests : BlockInsert(k, cg, ts) \/ BlockIssue(k, cg, c, ts)
    BY <2>4, BlockInsertKeeps, BlockIssueKeeps
  <2>5. CASE \E stamp \in {cg, Root} : SoftirqEntry(c, stamp, ts) \/ SoftirqExit(c, stamp, ts)
    BY <2>5, SoftirqEntryKeeps, SoftirqExitKeeps
  <2> QED BY <2>1, <2>2, <2>3, <2>4, <2>5
<1>2. CASE UNCHANGED vars
  <2>1. /\ UNCHANGED <<now, events, cpuVars, netVars, bioVars, softirqVars>>
        /\ UNCHANGED <<cgroup_time_range, outstanding>>
        /\ UNCHANGED <<cpu_switch_history, cpu_waits, net_dequeue_history, net_waits,
                       block_issue_history, bio_waits, softirq_other>>
    BY <1>2 DEF vars, cpuVars, netVars, bioVars, softirqVars
  <2>2. Later
    BY <2>1, BoundAssumption DEF Inv, CP!IInv, CP!TypeOK, Later
  <2>3. CP!IInv' /\ NetInv' /\ DiskInv'
    BY <2>1, <2>2, CpuStays, NetStays, DiskStays DEF Inv
  <2>4. SoftInv'
    <3>1. \A g \in Cgroups : Served(g) => Served(g)'
      BY <2>1 DEF Served
    <3> QED BY <2>1, <2>2, <3>1, SoftStays DEF Inv
  <2>5. RangeInv'
    BY <2>1 DEF Inv, RangeInv
  <2>6. OutstandingInv' /\ (~NoAttribution => SoloInv')
    <3>1. \A g \in Targets : OnlyServed(g)' => OnlyServed(g)
      BY <2>1 DEF OnlyServed
    <3> QED BY <2>1, <3>1, NoCharges
  <2> QED BY <2>3, <2>4, <2>5, <2>6 DEF Inv
<1> QED BY <1>1, <1>2

LEMMA Invariant == Spec => []Inv
  BY InvInit, InvStep, PTL DEF Spec

(* What is taken off a makespan are as many instants as Removed has.       *)
LEMMA RemovedIsWithin ==
  ASSUME Inv, NEW g \in Targets
  PROVE  /\ IsFiniteSet(Removed(g)) /\ original_makespan(g) \in Nat
         /\ Cardinality(Removed(g)) \in 0 .. original_makespan(g)
<1> DEFINE first == cgroup_time_range[g].first
           last == cgroup_time_range[g].last
<1>1. first \in Nat /\ last \in Nat /\ first <= last
  BY CgroupFacts DEF Inv, RangeInv
<1> HIDE DEF first, last
<1>2. IsFiniteSet(first .. last - 1) /\ Cardinality(first .. last - 1) = last - first
  <2>1. first \in Int /\ last - 1 \in Int
    BY <1>1
  <2>2. /\ IsFiniteSet(first .. last - 1)
        /\ Cardinality(first .. last - 1)
             = IF first > last - 1 THEN 0 ELSE (last - 1) - first + 1
    BY <2>1, FS_Interval
  <2>3. CASE first > last - 1
    BY <1>1, <2>2, <2>3
  <2>4. CASE ~(first > last - 1)
    BY <1>1, <2>2, <2>4
  <2> QED BY <2>3, <2>4
<1>3. Removed(g) \in SUBSET (first .. last - 1)
  BY DEF Removed, Span, ClosedOpen, first, last
<1>4. /\ IsFiniteSet(Removed(g))
      /\ Cardinality(Removed(g)) <= last - first
  BY <1>2, <1>3, FS_Subset
<1>5. Cardinality(Removed(g)) \in Nat
  BY <1>4, FS_CardinalityType
<1>6. original_makespan(g) = last - first
  BY DEF original_makespan, first, last
<1> QED BY <1>1, <1>4, <1>5, <1>6

(* To Softirq the analyzer is a Softirq: the events of the CPU, of the     *)
(* packets and of the requests take time there, and the last two are the   *)
(* services it counts.                                                     *)
LEMMA StepIsSoftirqs == [Next]_vars => [SoftirqNext]_<<now, events, softirqVars>>
<1> SUFFICES ASSUME [Next]_vars PROVE [SoftirqNext]_<<now, events, softirqVars>>
  OBVIOUS
<1>1. CASE UNCHANGED vars
  BY <1>1 DEF vars
<1>2. CASE Next
  <2>1. PICK ts \in 0 .. MaxTime, c \in Cpus, cg \in Cgroups :
          \/ \E t \in Tids : Enqueue(t, cg, ts) \/ Switch(t, c, ts)
          \/ \E k \in Skbs : NetQueue(k, cg, ts) \/ NetDequeue(k, cg, c, ts)
          \/ \E k \in Requests : BlockInsert(k, cg, ts) \/ BlockIssue(k, cg, c, ts)
          \/ \E stamp \in {cg, Root} : SoftirqEntry(c, stamp, ts) \/ SoftirqExit(c, stamp, ts)
    BY <1>2 DEF Next
  <2>2. CASE \E t \in Tids : Enqueue(t, cg, ts) \/ Switch(t, c, ts)
    <3>1. OtherEvent(ts)
      BY <2>2 DEF Enqueue, Switch, Cpu!HandleEnqueue, Cpu!HandleSwitch, Cpu!Event, OtherEvent, Event
    <3> QED BY <3>1 DEF SoftirqNext
  <2>3. CASE \E k \in Skbs : NetQueue(k, cg, ts) \/ NetDequeue(k, cg, c, ts)
    <3>1. OtherEvent(ts) \/ (Event(ts) /\ RecordEvent(cg, c, ts))
      BY <2>3 DEF NetQueue, NetDequeue, Net!HandleStart, Net!HandleService, Net!Event,
                  OtherEvent, Event
    <3> QED BY <3>1 DEF SoftirqNext
  <2>4. CASE \E k \in Requests : BlockInsert(k, cg, ts) \/ BlockIssue(k, cg, c, ts)
    <3>1. OtherEvent(ts) \/ (Event(ts) /\ RecordEvent(cg, c, ts))
      BY <2>4 DEF BlockInsert, BlockIssue, Disk!HandleStart, Disk!HandleService, Disk!Event,
                  OtherEvent, Event
    <3> QED BY <3>1 DEF SoftirqNext
  <2>5. CASE \E stamp \in {cg, Root} : SoftirqEntry(c, stamp, ts) \/ SoftirqExit(c, stamp, ts)
    BY <2>5 DEF SoftirqEntry, SoftirqExit, SoftirqNext
  <2> QED BY <2>1, <2>2, <2>3, <2>4, <2>5
<1> QED BY <1>1, <1>2

(* The analyzer implements its softirq half, whatever other events there   *)
(* are between those of the softirqs.                                      *)
THEOREM ImplementsSoftirq == Spec => SoftirqSpec
<1>1. Init => SoftirqInit
  BY DEF Init
<1> QED BY <1>1, StepIsSoftirqs, PTL DEF Spec, SoftirqSpec

(* The softirq half keeps its types, whatever softirqs and services it is  *)
(* given and in whatever order.                                            *)
THEOREM SoftirqTypesHold == SoftirqSpec => []SoftirqTypeOK
<1>1. SoftirqInv => SoftirqTypeOK
  BY DEF SoftirqInv
<1> QED BY <1>1, SoftirqInvariant, PTL

(* What is charged comes from softirqs that served somebody, on whatever   *)
(* CPU, with entries and exits missing, and however the ratios of their    *)
(* services were rounded; and but for two instants of each it is all.      *)
THEOREM SharesAreServed == SoftirqSpec => []SharesComeFromService
<1>1. SoftirqInv => SharesComeFromService
  BY DEF SoftirqInv
<1> QED BY <1>1, SoftirqInvariant, PTL

(* On one CPU no instant is charged to a cgroup both as its own work and   *)
(* as that of others.                                                      *)
THEOREM SharesAreApart == SoftirqSpec => []SelfAndOtherDisjoint
  BY OneCpuApart, SoftirqInvariant, PTL

(* So what the whole analyzer charges for softirqs is what they served.    *)
THEOREM AnalyzerShares == Spec => [](SharesComeFromService /\ SelfAndOtherDisjoint)
  BY ImplementsSoftirq, SharesAreServed, SharesAreApart, PTL

(* The whole analyzer keeps its types, whatever trace it is given.         *)
THEOREM TypeCorrect == Spec => []TypeOK
<1>1. Inv => TypeOK
  BY SameType DEF Inv, TypeOK, CP!IInv, CP!TypeOK, SoftInv, SoftirqInv, RangeInv, OutstandingInv
<1> QED BY <1>1, Invariant, PTL

(* The assertions of _compute_results never fail: what is left of a        *)
(* makespan is neither negative nor more than it was, whatever is charged  *)
(* to the cgroup, twice or outside its lifetime.                           *)
THEOREM MakespanInBounds == Spec => []NoiseFreeInBounds
<1>1. Inv => NoiseFreeInBounds
  <2> SUFFICES ASSUME Inv, NEW g \in Targets
               PROVE  noise_free_makespan(g) \in 0 .. original_makespan(g)
    BY DEF NoiseFreeInBounds
  <2> QED BY RemovedIsWithin DEF noise_free_makespan
<1> QED BY <1>1, Invariant, PTL

(* What is taken off for the CPU, the network and the disk lies in waits   *)
(* of the cgroup that have been matched with their completion.             *)
THEOREM ChargesAreOutstanding == Spec => []QueueWaitsAreOutstanding
<1>1. Inv => QueueWaitsAreOutstanding
  BY DEF Inv, OutstandingInv
<1> QED BY <1>1, Invariant, PTL

(* A cgroup keeps all of its makespan as long as nothing has been served   *)
(* but itself: the ground truth of the experiments is not corrected.  It   *)
(* is what attribution is for, and the ablation does not have it.          *)
THEOREM SoloRunIsGroundTruth == ~NoAttribution => (Spec => []SoloRunLosesNothing)
<1>1. CASE NoAttribution
  BY <1>1
<1>2. CASE ~NoAttribution
  <2>1. Inv => SoloRunLosesNothing
    <3> SUFFICES ASSUME Inv, NEW g \in Targets, OnlyServed(g)
                 PROVE  noise_free_makespan(g) = original_makespan(g)
      BY DEF SoloRunLosesNothing
    <3>1. Removed(g) = {}
      BY <1>2 DEF Inv, SoloInv, Removed
    <3>2. Cardinality(Removed(g)) = 0
      BY <3>1, FS_EmptySet
    <3>3. original_makespan(g) \in Nat
      BY RemovedIsWithin
    <3> QED BY <3>2, <3>3 DEF noise_free_makespan
  <2> QED BY <2>1, Invariant, PTL
<1> QED BY <1>1, <1>2

-------------------------------------------------------------------------------
(* The analyzer implements its handlers.                                   *)

(* What is an event of one handler is another event to the others.         *)
LEMMA StepIsCpus == [Next]_vars => [CP!Next]_CP!vars
<1> SUFFICES ASSUME [Next]_vars PROVE [CP!Next]_CP!vars
  OBVIOUS
<1>1. CASE UNCHANGED vars
  BY <1>1 DEF vars, cpuVars, CP!vars
<1>2. CASE Next
  <2>1. PICK ts \in 0 .. MaxTime, c \in Cpus, cg \in Cgroups :
          \/ \E t \in Tids : Enqueue(t, cg, ts) \/ Switch(t, c, ts)
          \/ \E k \in Skbs : NetQueue(k, cg, ts) \/ NetDequeue(k, cg, c, ts)
          \/ \E k \in Requests : BlockInsert(k, cg, ts) \/ BlockIssue(k, cg, c, ts)
          \/ \E stamp \in {cg, Root} : SoftirqEntry(c, stamp, ts) \/ SoftirqExit(c, stamp, ts)
    BY <1>2 DEF Next
  <2>2. ASSUME NEW t \in Tids, Enqueue(t, cg, ts) PROVE CP!HandleEnqueue(t, ts)
    BY <2>2 DEF Enqueue, Cpu!HandleEnqueue, Cpu!Event, CP!HandleEnqueue, CP!Event
  <2>3. ASSUME NEW t \in Tids, Switch(t, c, ts) PROVE CP!HandleSwitch(t, c, ts)
    BY <2>3, SameCharge, Zenon
       DEF Switch, Cpu!HandleSwitch, Cpu!Event, CP!HandleSwitch, CP!Event, Cpu!None, CP!None
  <2>4. ASSUME \E k \in Skbs : NetQueue(k, cg, ts) \/ NetDequeue(k, cg, c, ts)
        PROVE  CP!OtherEvent(ts)
    BY <2>4 DEF NetQueue, NetDequeue, Net!HandleStart, Net!HandleService, Net!Event, cpuVars,
                CP!OtherEvent, CP!Event
  <2>5. ASSUME \E k \in Requests : BlockInsert(k, cg, ts) \/ BlockIssue(k, cg, c, ts)
        PROVE  CP!OtherEvent(ts)
    BY <2>5 DEF BlockInsert, BlockIssue, Disk!HandleStart, Disk!HandleService, Disk!Event, cpuVars,
                CP!OtherEvent, CP!Event
  <2>6. ASSUME NEW stamp, SoftirqEntry(c, stamp, ts) \/ SoftirqExit(c, stamp, ts)
        PROVE  CP!OtherEvent(ts)
    BY <2>6 DEF SoftirqEntry, SoftirqExit, HandleEntry, HandleExit, Event, cpuVars,
                CP!OtherEvent, CP!Event
  <2> QED BY <2>1, <2>2, <2>3, <2>4, <2>5, <2>6 DEF CP!Next
<1> QED BY <1>1, <1>2

(* The accounting NoiseFree speaks of is the one CpuWaitProofs is about.   *)
LEMMA SameCpuAccounting ==
  /\ CP!Accounting!Init <=> Cpu!Accounting!Init
  /\ [CP!Accounting!Next]_CP!Accounting!vars <=> [Cpu!Accounting!Next]_Cpu!Accounting!vars
  BY Zenon DEF CP!Accounting!Init, CP!Accounting!Next, CP!Accounting!vars, CP!Accounting!Wake,
               CP!Accounting!Run, CP!Accounting!Pass, CP!Accounting!Until,
               CP!Accounting!ChargedTo, CP!Accounting!Owners, CP!Holder, CP!Waiting, CP!Added,
               CP!NoCg, CP!None, CP!ClosedOpen, CP!HeldAt, CP!Current, CP!Charged,
     Cpu!Accounting!Init, Cpu!Accounting!Next, Cpu!Accounting!vars, Cpu!Accounting!Wake,
     Cpu!Accounting!Run, Cpu!Accounting!Pass, Cpu!Accounting!Until, Cpu!Accounting!ChargedTo,
     Cpu!Accounting!Owners, Cpu!Holder, Cpu!Waiting, Cpu!Added, Cpu!NoCg, Cpu!None,
     Cpu!ClosedOpen, Cpu!HeldAt, Cpu!Current, Cpu!Charged

(* The same of the packets.                                                *)
LEMMA StepIsNets == [Next]_vars => [QP!Next]_QP!vars
<1> SUFFICES ASSUME [Next]_vars PROVE [QP!Next]_QP!vars
  OBVIOUS
<1>1. CASE UNCHANGED vars
  BY <1>1 DEF vars, netVars, QP!vars
<1>2. CASE Next
  <2>1. PICK ts \in 0 .. MaxTime, c \in Cpus, cg \in Cgroups :
          \/ \E t \in Tids : Enqueue(t, cg, ts) \/ Switch(t, c, ts)
          \/ \E k \in Skbs : NetQueue(k, cg, ts) \/ NetDequeue(k, cg, c, ts)
          \/ \E k \in Requests : BlockInsert(k, cg, ts) \/ BlockIssue(k, cg, c, ts)
          \/ \E stamp \in {cg, Root} : SoftirqEntry(c, stamp, ts) \/ SoftirqExit(c, stamp, ts)
    BY <1>2 DEF Next
  <2>2. ASSUME \E t \in Tids : Enqueue(t, cg, ts) \/ Switch(t, c, ts)
        PROVE  QP!OtherEvent(ts)
    BY <2>2 DEF Enqueue, Switch, Cpu!HandleEnqueue, Cpu!HandleSwitch, Cpu!Event, netVars,
                QP!OtherEvent, QP!Event
  <2>3. ASSUME \E k \in Requests : BlockInsert(k, cg, ts) \/ BlockIssue(k, cg, c, ts)
        PROVE  QP!OtherEvent(ts)
    BY <2>3 DEF BlockInsert, BlockIssue, Disk!HandleStart, Disk!HandleService, Disk!Event, netVars,
                QP!OtherEvent, QP!Event
  <2>4. ASSUME NEW k \in Skbs, NetQueue(k, cg, ts) PROVE QP!HandleStart(k, cg, ts)
    BY <2>4, Zenon DEF NetQueue, Net!HandleStart, Net!Event, QP!HandleStart, QP!Event
  <2>5. ASSUME NEW k \in Skbs, NetDequeue(k, cg, c, ts) PROVE QP!HandleService(k, cg, ts)
    <3>1. Net!HandleService(k, cg, ts)
      BY <2>5 DEF NetDequeue
    <3> QED BY <3>1, Zenon
       DEF Net!HandleService, Net!Event, QP!HandleService, QP!Event, Net!None, QP!None,
                Net!QueueCharge, Net!Lead, Net!LeadSlice, Net!Spans, Net!Before, Net!Charged,
                Net!LeadEnd, Net!Window, Net!ClosedOpen, Net!Min, Net!Max,
                QP!QueueCharge, QP!Lead, QP!LeadSlice, QP!Spans, QP!Before, QP!Charged,
                QP!LeadEnd, QP!Window, QP!ClosedOpen, QP!Min, QP!Max
  <2>6. ASSUME NEW stamp, SoftirqEntry(c, stamp, ts) \/ SoftirqExit(c, stamp, ts)
        PROVE  QP!OtherEvent(ts)
    BY <2>6 DEF SoftirqEntry, SoftirqExit, HandleEntry, HandleExit, Event, netVars,
                QP!OtherEvent, QP!Event
  <2> QED BY <2>1, <2>2, <2>3, <2>4, <2>5, <2>6 DEF QP!Next
<1> QED BY <1>1, <1>2

LEMMA SameNetAccounting ==
  /\ QP!Accounting!Init <=> Net!Accounting!Init
  /\ [QP!Accounting!Next]_QP!Accounting!vars <=> [Net!Accounting!Next]_Net!Accounting!vars
  BY Zenon DEF QP!Accounting!Init, QP!Accounting!Next, QP!Accounting!vars, QP!Accounting!Enqueue,
               QP!Accounting!Serve, QP!Accounting!Pass, QP!Accounting!Until,
               QP!Accounting!LastBy, QP!Accounting!ServedBy, QP!Accounting!Place,
               QP!Accounting!After, QP!Accounting!Charged, QP!Accounting!NotQueued, QP!QueuedBy,
               QP!PlaceOf, QP!CgOfLast, QP!ServedAt, QP!NoCg, QP!None, QP!QueueCharge, QP!Lead,
               QP!LeadSlice, QP!Spans, QP!Before, QP!Charged, QP!LeadEnd, QP!Window,
               QP!ClosedOpen, QP!Min, QP!Max,
     Net!Accounting!Init, Net!Accounting!Next, Net!Accounting!vars, Net!Accounting!Enqueue,
     Net!Accounting!Serve, Net!Accounting!Pass, Net!Accounting!Until, Net!Accounting!LastBy,
     Net!Accounting!ServedBy, Net!Accounting!Place, Net!Accounting!After, Net!Accounting!Charged,
     Net!Accounting!NotQueued, Net!QueuedBy, Net!PlaceOf, Net!CgOfLast, Net!ServedAt, Net!NoCg,
     Net!None, Net!QueueCharge, Net!Lead, Net!LeadSlice, Net!Spans, Net!Before, Net!Charged,
     Net!LeadEnd, Net!Window, Net!ClosedOpen, Net!Min, Net!Max

(* And of the requests.                                                    *)
LEMMA StepIsDisks == [Next]_vars => [QD!Next]_QD!vars
<1> SUFFICES ASSUME [Next]_vars PROVE [QD!Next]_QD!vars
  OBVIOUS
<1>1. CASE UNCHANGED vars
  BY <1>1 DEF vars, bioVars, QD!vars
<1>2. CASE Next
  <2>1. PICK ts \in 0 .. MaxTime, c \in Cpus, cg \in Cgroups :
          \/ \E t \in Tids : Enqueue(t, cg, ts) \/ Switch(t, c, ts)
          \/ \E k \in Skbs : NetQueue(k, cg, ts) \/ NetDequeue(k, cg, c, ts)
          \/ \E k \in Requests : BlockInsert(k, cg, ts) \/ BlockIssue(k, cg, c, ts)
          \/ \E stamp \in {cg, Root} : SoftirqEntry(c, stamp, ts) \/ SoftirqExit(c, stamp, ts)
    BY <1>2 DEF Next
  <2>2. ASSUME \E t \in Tids : Enqueue(t, cg, ts) \/ Switch(t, c, ts)
        PROVE  QD!OtherEvent(ts)
    BY <2>2 DEF Enqueue, Switch, Cpu!HandleEnqueue, Cpu!HandleSwitch, Cpu!Event, bioVars,
                QD!OtherEvent, QD!Event
  <2>3. ASSUME \E k \in Skbs : NetQueue(k, cg, ts) \/ NetDequeue(k, cg, c, ts)
        PROVE  QD!OtherEvent(ts)
    BY <2>3 DEF NetQueue, NetDequeue, Net!HandleStart, Net!HandleService, Net!Event, bioVars,
                QD!OtherEvent, QD!Event
  <2>4. ASSUME NEW k \in Requests, BlockInsert(k, cg, ts) PROVE QD!HandleStart(k, cg, ts)
    BY <2>4, Zenon DEF BlockInsert, Disk!HandleStart, Disk!Event, QD!HandleStart, QD!Event
  <2>5. ASSUME NEW k \in Requests, BlockIssue(k, cg, c, ts) PROVE QD!HandleService(k, cg, ts)
    <3>1. Disk!HandleService(k, cg, ts)
      BY <2>5 DEF BlockIssue
    <3> QED BY <3>1, Zenon
       DEF Disk!HandleService, Disk!Event, QD!HandleService, QD!Event, Disk!None, QD!None,
                Disk!QueueCharge, Disk!Lead, Disk!LeadSlice, Disk!Spans, Disk!Before,
                Disk!Charged, Disk!LeadEnd, Disk!Window, Disk!ClosedOpen, Disk!Min, Disk!Max,
                QD!QueueCharge, QD!Lead, QD!LeadSlice, QD!Spans, QD!Before, QD!Charged,
                QD!LeadEnd, QD!Window, QD!ClosedOpen, QD!Min, QD!Max
  <2>6. ASSUME NEW stamp, SoftirqEntry(c, stamp, ts) \/ SoftirqExit(c, stamp, ts)
        PROVE  QD!OtherEvent(ts)
    BY <2>6 DEF SoftirqEntry, SoftirqExit, HandleEntry, HandleExit, Event, bioVars,
                QD!OtherEvent, QD!Event
  <2> QED BY <2>1, <2>2, <2>3, <2>4, <2>5, <2>6 DEF QD!Next
<1> QED BY <1>1, <1>2

LEMMA SameDiskAccounting ==
  /\ QD!Accounting!Init <=> Disk!Accounting!Init
  /\ [QD!Accounting!Next]_QD!Accounting!vars <=> [Disk!Accounting!Next]_Disk!Accounting!vars
  BY Zenon DEF QD!Accounting!Init, QD!Accounting!Next, QD!Accounting!vars, QD!Accounting!Enqueue,
               QD!Accounting!Serve, QD!Accounting!Pass, QD!Accounting!Until,
               QD!Accounting!LastBy, QD!Accounting!ServedBy, QD!Accounting!Place,
               QD!Accounting!After, QD!Accounting!Charged, QD!Accounting!NotQueued, QD!QueuedBy,
               QD!PlaceOf, QD!CgOfLast, QD!ServedAt, QD!NoCg, QD!None, QD!QueueCharge, QD!Lead,
               QD!LeadSlice, QD!Spans, QD!Before, QD!Charged, QD!LeadEnd, QD!Window,
               QD!ClosedOpen, QD!Min, QD!Max,
     Disk!Accounting!Init, Disk!Accounting!Next, Disk!Accounting!vars, Disk!Accounting!Enqueue,
     Disk!Accounting!Serve, Disk!Accounting!Pass, Disk!Accounting!Until, Disk!Accounting!LastBy,
     Disk!Accounting!ServedBy, Disk!Accounting!Place, Disk!Accounting!After,
     Disk!Accounting!Charged, Disk!Accounting!NotQueued, Disk!QueuedBy, Disk!PlaceOf,
     Disk!CgOfLast, Disk!ServedAt, Disk!NoCg, Disk!None, Disk!QueueCharge, Disk!Lead,
     Disk!LeadSlice, Disk!Spans, Disk!Before, Disk!Charged, Disk!LeadEnd, Disk!Window,
     Disk!ClosedOpen, Disk!Min, Disk!Max

(* The disk's instance is of the same constants as the network's.          *)
LEMMA DiskAssumptions == QD!CgroupsAssumption /\ QD!BoundAssumption /\ QD!AttributionAssumption
  BY InstanceAssumptions
     DEF QD!CgroupsAssumption, QD!BoundAssumption, QD!AttributionAssumption,
         QP!CgroupsAssumption, QP!BoundAssumption, QP!AttributionAssumption

(* In the analyzer as a whole, too, what is charged for the CPU, for each  *)
(* packet and for each request is what an accounting kept as time passes   *)
(* comes to: the events of the other handlers disturb none of them.        *)
THEOREM WaitsStayExact == Spec => WaitsAreExact
<1>1. Spec => Cpu!ImplementsOccupancy
  <2>1. Init => CP!Init
    BY DEF Init, Cpu!Init, CP!Init, Cpu!None, CP!None, Cpu!Owners, CP!Owners
  <2>2. Spec => CP!Spec
    BY <2>1, StepIsCpus, PTL DEF Spec, CP!Spec
  <2>3. CP!Spec => CP!ImplementsOccupancy
    BY InstanceAssumptions, CP!LookingBackIsExact
  <2> QED BY <2>2, <2>3, SameCpuAccounting, PTL
          DEF CP!ImplementsOccupancy, Cpu!ImplementsOccupancy, CP!Accounting!Spec,
              Cpu!Accounting!Spec
<1>2. Spec => Net!ImplementsOccupancy
  <2>1. Init => QP!Init
    BY DEF Init, Net!Init, QP!Init, Net!None, QP!None
  <2>2. Spec => QP!Spec
    BY <2>1, StepIsNets, PTL DEF Spec, QP!Spec
  <2>3. QP!Spec => QP!ImplementsOccupancy
    BY InstanceAssumptions, QP!LookingBackIsExact
  <2> QED BY <2>2, <2>3, SameNetAccounting, PTL
          DEF QP!ImplementsOccupancy, Net!ImplementsOccupancy, QP!Accounting!Spec,
              Net!Accounting!Spec
<1>3. Spec => Disk!ImplementsOccupancy
  <2>1. Init => QD!Init
    BY DEF Init, Disk!Init, QD!Init, Disk!None, QD!None
  <2>2. Spec => QD!Spec
    BY <2>1, StepIsDisks, PTL DEF Spec, QD!Spec
  <2>3. QD!Spec => QD!ImplementsOccupancy
    BY DiskAssumptions, QD!LookingBackIsExact
  <2> QED BY <2>2, <2>3, SameDiskAccounting, PTL
          DEF QD!ImplementsOccupancy, Disk!ImplementsOccupancy, QD!Accounting!Spec,
              Disk!Accounting!Spec
<1> QED BY <1>1, <1>2, <1>3 DEF WaitsAreExact
===============================================================================
