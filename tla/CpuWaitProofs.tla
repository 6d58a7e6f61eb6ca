----------------------------- MODULE CpuWaitProofs -----------------------------
(***************************************************************************)
(* Proofs about CpuWait, for any CPUs, threads and cgroups and traces of   *)
(* any length: its invariants, and that it implements CpuOccupancy.        *)
(***************************************************************************)
EXTENDS CpuWait, SequenceTheorems, TLAPS

(* The lemmas on histories and windows are those of QueueWaitProofs, of    *)
(* any queue: here of one without addresses.                               *)
Windows == INSTANCE QueueWaitProofs WITH
  Keys <- {}, Cgroups <- Owners, device <- "net",
  pending <- <<>>, history <- <<>>, queue_waits <- <<>>

Entry(G) == [ts : Nat, cg : G]

LEMMA CgroupsAreNats == Owners \subseteq Nat \ {0} /\ \A t \in Tids : CgOf[t] \in Owners
  BY CgroupAssumption DEF Owners

LEMMA WindowsAssumptions ==
  Windows!CgroupsAssumption /\ Windows!BoundAssumption /\ Windows!AttributionAssumption
  BY CgroupsAreNats, BoundAssumption, AttributionAssumption
     DEF Windows!CgroupsAssumption, Windows!BoundAssumption, Windows!AttributionAssumption

LEMMA MinOfNats ==
  ASSUME NEW T, T \subseteq Nat, T # {}
  PROVE  Min(T) \in T /\ \A y \in T : Min(T) <= y
<1>1. Min(T) = Windows!Min(T)
  BY Zenon DEF Min, Windows!Min
<1> QED BY <1>1, WindowsAssumptions, Windows!MinOfNats

LEMMA MaxOfBounded ==
  ASSUME NEW n \in Nat, NEW T, T \subseteq 1 .. n, T # {}
  PROVE  Max(T) \in T /\ \A y \in T : y <= Max(T)
<1>1. Max(T) = Windows!Max(T)
  BY Zenon DEF Max, Windows!Max
<1> QED BY <1>1, WindowsAssumptions, Windows!MaxOfBounded

LEMMA HistoryFacts ==
  ASSUME NEW G, NEW h \in Seq(Entry(G)), InOrder(h)
  PROVE  /\ Len(h) \in Nat
         /\ DOMAIN h = 1 .. Len(h)
         /\ \A i \in DOMAIN h : i \in Nat /\ h[i].ts \in Nat /\ h[i].cg \in G
         /\ \A i, j \in DOMAIN h : i <= j => h[i].ts <= h[j].ts
<1>1. h \in Seq(Windows!Entry(G)) /\ Windows!InOrder(h)
  BY DEF Entry, Windows!Entry, InOrder, Windows!InOrder
<1> QED BY <1>1, WindowsAssumptions, Windows!HistoryFacts

LEMMA AppendInOrder ==
  ASSUME NEW G, NEW h \in Seq(Entry(G)), InOrder(h), NEW ts \in Nat, NEW cg \in G,
         \A i \in DOMAIN h : h[i].ts <= ts
  PROVE  LET g == Append(h, [ts |-> ts, cg |-> cg])
         IN  /\ g \in Seq(Entry(G))
             /\ Len(g) = Len(h) + 1
             /\ DOMAIN g = DOMAIN h \cup {Len(h) + 1}
             /\ \A i \in DOMAIN h : g[i] = h[i]
             /\ g[Len(h) + 1] = [ts |-> ts, cg |-> cg]
             /\ InOrder(g)
             /\ \A i \in DOMAIN g : g[i].ts <= ts
<1>1. h \in Seq(Windows!Entry(G)) /\ Windows!InOrder(h)
  BY DEF Entry, Windows!Entry, InOrder, Windows!InOrder
<1> DEFINE g == Append(h, [ts |-> ts, cg |-> cg])
<1>2. /\ g \in Seq(Windows!Entry(G)) /\ Len(g) = Len(h) + 1
      /\ DOMAIN g = DOMAIN h \cup {Len(h) + 1}
      /\ \A i \in DOMAIN h : g[i] = h[i]
      /\ g[Len(h) + 1] = [ts |-> ts, cg |-> cg]
      /\ Windows!InOrder(g) /\ \A i \in DOMAIN g : g[i].ts <= ts
  BY <1>1, WindowsAssumptions, Windows!AppendInOrder
<1> QED BY <1>2 DEF Entry, Windows!Entry, InOrder, Windows!InOrder

(* The CPU's charge: the instants of the wait at which the last switch-in  *)
(* at or before them is one that is charged.                               *)
THEOREM CpuChargeIsExact ==
  ASSUME NEW G, NEW h \in Seq(Entry(G)), InOrder(h),
         NEW a \in Nat, NEW b \in Nat, a <= b, NEW mine
  PROVE  LeadSlice(h, a, b, mine) \cup Slices(h, a, b, mine)
           = {p \in ClosedOpen(a, b) : HeldAt(h, p, mine)}
<1> DEFINE W == Window(h, a, b)
           B == Before(h, a)
<1>1. /\ Len(h) \in Nat
      /\ DOMAIN h = 1 .. Len(h)
      /\ \A i \in DOMAIN h : i \in Nat /\ h[i].ts \in Nat
      /\ \A i, j \in DOMAIN h : i <= j => h[i].ts <= h[j].ts
  BY HistoryFacts
<1>2. \A i : i \in W <=> i \in DOMAIN h /\ a <= h[i].ts /\ h[i].ts < b
  BY DEF Window
<1>3. \A i : i \in B <=> i \in DOMAIN h /\ h[i].ts < a
  BY DEF Before
<1>4. W # {} => Min(W) \in W /\ \A i \in W : Min(W) <= i
  BY <1>1, <1>2, MinOfNats
<1>5. B # {} => Max(B) \in B /\ \A i \in B : i <= Max(B)
  BY <1>1, <1>3, MaxOfBounded
<1> HIDE DEF W, B
<1>6. ASSUME NEW p \in LeadSlice(h, a, b, mine)
      PROVE  p \in ClosedOpen(a, b) /\ HeldAt(h, p, mine)
  <2> DEFINE m == Max(B)
             e == LeadEnd(h, a, b)
  <2>1. /\ m \in B /\ Charged(h[m], mine) /\ \A i \in B : i <= m
        /\ p \in a .. e - 1
    BY <1>6, <1>5 DEF LeadSlice, ClosedOpen, B
  <2>2. e = IF W = {} THEN b ELSE h[Min(W)].ts
    BY DEF LeadEnd, W
  <2> HIDE DEF m, e
  <2>3. e \in Nat /\ e <= b
    BY <2>2, <1>1, <1>2, <1>4
  <2>4. p \in Nat /\ a <= p /\ p < e
    BY <2>1, <2>3
  <2>5. m \in DOMAIN h /\ h[m].ts < a /\ h[m].ts \in Nat /\ m \in Nat
    BY <2>1, <1>1, <1>3
  <2>6. ASSUME m + 1 \in DOMAIN h PROVE p < h[m + 1].ts
    <3>1. m + 1 \notin B /\ h[m + 1].ts \in Nat
      BY <2>1, <2>5, <2>6, <1>1
    <3>2. a <= h[m + 1].ts
      BY <3>1, <2>6, <1>3
    <3>3. CASE m + 1 \in W
      <4>1. Min(W) \in DOMAIN h /\ Min(W) <= m + 1
        BY <3>3, <1>2, <1>4
      <4>2. h[Min(W)].ts <= h[m + 1].ts /\ e = h[Min(W)].ts
        BY <4>1, <2>2, <2>6, <3>3, <1>1
      <4> QED BY <4>2, <2>3, <2>4, <3>1
    <3>4. CASE m + 1 \notin W
      <4>1. b <= h[m + 1].ts
        BY <3>1, <3>2, <3>4, <2>6, <1>2
      <4> QED BY <4>1, <2>3, <2>4, <3>1
    <3> QED BY <3>3, <3>4
  <2>7. Current(h, m, p)
    BY <2>4, <2>5, <2>6 DEF Current
  <2> QED BY <2>1, <2>3, <2>4, <2>5, <2>7 DEF HeldAt, ClosedOpen
<1>7. ASSUME NEW p \in Slices(h, a, b, mine)
      PROVE  p \in ClosedOpen(a, b) /\ HeldAt(h, p, mine)
  <2>1. PICK i \in W : Charged(h[i], mine) /\ p \in ClosedOpen(h[i].ts, SliceEnd(h, i, a, b))
    BY <1>7 DEF Slices, W
  <2> DEFINE e == SliceEnd(h, i, a, b)
  <2>2. e = IF i + 1 \in W THEN h[i + 1].ts ELSE b
    BY DEF SliceEnd, W
  <2>3. i \in DOMAIN h /\ i \in Nat /\ h[i].ts \in Nat /\ a <= h[i].ts
    BY <1>1, <1>2
  <2>4. p \in h[i].ts .. e - 1
    BY <2>1 DEF ClosedOpen
  <2> HIDE DEF e
  <2>5. e \in Nat /\ e <= b
    BY <2>2, <1>1, <1>2
  <2>6. p \in Nat /\ h[i].ts <= p /\ p < e
    BY <2>3, <2>4, <2>5
  <2>7. ASSUME i + 1 \in DOMAIN h PROVE p < h[i + 1].ts
    <3>1. h[i + 1].ts \in Nat /\ h[i].ts <= h[i + 1].ts
      BY <2>3, <2>7, <1>1
    <3>2. i + 1 \notin W => b <= h[i + 1].ts
      BY <3>1, <2>3, <2>7, <1>2
    <3> QED BY <3>1, <3>2, <2>2, <2>5, <2>6
  <2>8. Current(h, i, p)
    BY <2>6, <2>7 DEF Current
  <2> QED BY <2>1, <2>3, <2>5, <2>6, <2>8 DEF HeldAt, ClosedOpen
<1>8. ASSUME NEW p \in ClosedOpen(a, b), HeldAt(h, p, mine)
      PROVE  p \in LeadSlice(h, a, b, mine) \cup Slices(h, a, b, mine)
  <2>1. PICK i \in DOMAIN h : Current(h, i, p) /\ Charged(h[i], mine)
    BY <1>8 DEF HeldAt
  <2>2. p \in Nat /\ a <= p /\ p < b
    BY DEF ClosedOpen
  <2>3. /\ h[i].ts <= p /\ h[i].ts \in Nat /\ i \in Nat
        /\ i + 1 \in DOMAIN h => p < h[i + 1].ts /\ h[i + 1].ts \in Nat
    BY <2>1, <1>1 DEF Current
  <2>4. \A j \in DOMAIN h : i < j => p < h[j].ts
    <3>1. SUFFICES ASSUME NEW j \in DOMAIN h, i < j PROVE p < h[j].ts
      OBVIOUS
    <3>2. i + 1 \in DOMAIN h /\ i + 1 <= j /\ h[j].ts \in Nat
      BY <3>1, <2>3, <1>1
    <3>3. h[i + 1].ts <= h[j].ts
      BY <3>2, <1>1
    <3> QED BY <3>2, <3>3, <2>2, <2>3
  <2>5. CASE h[i].ts < a
    <3>1. i \in B
      BY <2>5, <1>3
    <3>2. \A j \in B : j <= i
      BY <2>2, <2>3, <2>4, <1>1, <1>3
    <3>3. Max(B) = i
      BY <3>1, <3>2, <1>1, <1>3, <1>5
    <3>4. CASE W = {}
      <4>1. p \in ClosedOpen(a, LeadEnd(h, a, b))
        BY <2>2, <3>4 DEF LeadEnd, ClosedOpen, W
      <4> QED BY <4>1, <3>1, <3>3, <2>1 DEF LeadSlice, B
    <3>5. CASE W # {}
      <4>1. Min(W) \in DOMAIN h /\ a <= h[Min(W)].ts /\ h[Min(W)].ts \in Nat /\ Min(W) \in Nat
        BY <3>5, <1>1, <1>2, <1>4
      <4>2. i < Min(W)
        BY <4>1, <2>3, <2>5, <1>1
      <4>3. p < h[Min(W)].ts
        BY <4>1, <4>2, <2>4
      <4>4. p \in ClosedOpen(a, LeadEnd(h, a, b))
        BY <4>1, <4>3, <2>2, <3>5 DEF LeadEnd, ClosedOpen, W
      <4> QED BY <4>4, <3>1, <3>3, <2>1 DEF LeadSlice, B
    <3> QED BY <3>4, <3>5
  <2>6. CASE a <= h[i].ts
    <3>1. i \in W
      BY <2>2, <2>3, <2>6, <1>2
    <3>2. p < SliceEnd(h, i, a, b) /\ SliceEnd(h, i, a, b) \in Nat
      BY <2>2, <2>3, <1>1, <1>2 DEF SliceEnd, W
    <3>3. p \in ClosedOpen(h[i].ts, SliceEnd(h, i, a, b))
      BY <3>2, <2>2, <2>3 DEF ClosedOpen
    <3> QED BY <3>1, <3>3, <2>1 DEF Slices, W
  <2> QED BY <2>3, <2>5, <2>6
<1> QED BY <1>6, <1>7, <1>8

-------------------------------------------------------------------------------
(* The invariants support each other: a charge is a set of instants only   *)
(* if the history it was read from is in order of time.                    *)
IInv == TypeOK /\ HistoriesInOrder

(* What IInv says of one CPU's history, in the form the lemmas ask for.    *)
LEMMA HistoryOf ==
  ASSUME IInv, NEW c \in Cpus
  PROVE  /\ cpu_switch_history[c] \in Seq(Entry(Owners))
         /\ InOrder(cpu_switch_history[c])
         /\ \A i \in DOMAIN cpu_switch_history[c] : cpu_switch_history[c][i].ts <= now
         /\ now \in Nat
<1>1. cpu_switch_history[c] \in Seq(Entry(Owners))
  BY DEF IInv, TypeOK, Entry
<1>2. InOrder(cpu_switch_history[c])
  BY Zenon DEF IInv, HistoriesInOrder
<1>3. \A i \in DOMAIN cpu_switch_history[c] : cpu_switch_history[c][i].ts <= now
  BY DEF IInv, HistoriesInOrder
<1>4. now \in Nat
  BY BoundAssumption DEF IInv, TypeOK
<1> QED BY <1>1, <1>2, <1>3, <1>4

(* The charge of a completed wait is a set of instants.                    *)
LEMMA ChargeType ==
  ASSUME NEW h \in Seq(Entry(Owners)), InOrder(h), NEW a \in Nat, NEW b \in Nat, a <= b, NEW mine
  PROVE  CpuCharge(h, a, b, mine) \subseteq Nat
<1>1. CpuCharge(h, a, b, mine) = {p \in ClosedOpen(a, b) : HeldAt(h, p, mine)}
  BY CpuChargeIsExact DEF CpuCharge
<1>2. ClosedOpen(a, b) \subseteq Nat
  BY DEF ClosedOpen
<1> QED BY <1>1, <1>2

LEMMA InvStep == IInv /\ [Next]_vars => IInv'
<1> SUFFICES ASSUME IInv, [Next]_vars PROVE IInv'
  OBVIOUS
<1> USE BoundAssumption
<1>1. ASSUME NEW t \in Tids, NEW ts \in 0 .. MaxTime, HandleEnqueue(t, ts) PROVE IInv'
  <2>1. now <= ts /\ now' = ts /\ now \in Nat /\ ts \in Nat /\ events' \in 0 .. MaxEvents
    BY <1>1 DEF HandleEnqueue, Event, IInv, TypeOK
  <2>2. TypeOK'
    <3>1. pending_enqueues' \in [Tids -> Nat \cup {None}]
      BY <1>1, <2>1 DEF HandleEnqueue, IInv, TypeOK
    <3> QED BY <1>1, <2>1, <3>1 DEF HandleEnqueue, IInv, TypeOK
  <2>3. ASSUME NEW c \in Cpus
        PROVE  /\ InOrder(cpu_switch_history'[c])
               /\ \A i \in DOMAIN cpu_switch_history'[c] : cpu_switch_history'[c][i].ts <= now'
    <3>1. /\ cpu_switch_history' = cpu_switch_history
          /\ \A i \in DOMAIN cpu_switch_history[c] :
               cpu_switch_history[c][i].ts \in Nat /\ cpu_switch_history[c][i].ts <= now
      BY <1>1, HistoryOf, HistoryFacts DEF HandleEnqueue
    <3> QED BY <3>1, <2>1, HistoryOf
  <2>4. \A u \in Tids : pending_enqueues'[u] <= now'
    BY <1>1, <2>1 DEF HandleEnqueue, IInv, TypeOK, HistoriesInOrder, None
  <2> QED BY <2>2, <2>3, <2>4 DEF IInv, HistoriesInOrder
<1>2. ASSUME NEW t \in Tids, NEW c \in Cpus, NEW ts \in 0 .. MaxTime, HandleSwitch(t, c, ts)
      PROVE  IInv'
  <2> DEFINE h == cpu_switch_history[c]
             g == Append(h, [ts |-> ts, cg |-> CgOf[t]])
  <2>1. now <= ts /\ now' = ts /\ now \in Nat /\ ts \in Nat /\ events' \in 0 .. MaxEvents
    BY <1>2 DEF HandleSwitch, Event, IInv, TypeOK
  <2>2. CgOf[t] \in Owners
    BY CgroupsAreNats
  <2>3. /\ h \in Seq(Entry(Owners)) /\ InOrder(h)
        /\ \A i \in DOMAIN h : h[i].ts \in Nat /\ h[i].ts <= ts
    BY HistoryOf, HistoryFacts, <2>1
  <2>4. g \in Seq(Entry(Owners)) /\ InOrder(g) /\ \A i \in DOMAIN g : g[i].ts <= ts
    BY <2>1, <2>2, <2>3, AppendInOrder
  <2>5. cpu_switch_history' = [cpu_switch_history EXCEPT ![c] = g]
    BY <1>2 DEF HandleSwitch
  <2>6. cpu_switch_history' \in [Cpus -> Seq(Entry(Owners))]
    BY <2>4, <2>5 DEF IInv, TypeOK, Entry
  <2>7. pending_enqueues' = [pending_enqueues EXCEPT ![t] = None]
    BY <1>2 DEF HandleSwitch
  <2>8. pending_enqueues' \in [Tids -> Nat \cup {None}] /\ \A u \in Tids : pending_enqueues'[u] <= now'
    <3>1. /\ pending_enqueues \in [Tids -> Nat \cup {None}]
          /\ \A u \in Tids : pending_enqueues[u] <= now
      BY DEF IInv, TypeOK, HistoriesInOrder
    <3>2. \A u \in Tids : pending_enqueues'[u] = IF u = t THEN None ELSE pending_enqueues[u]
      BY <2>7, <3>1
    <3>3. None \in Int /\ None < 0
      BY DEF None
    <3>4. \A u \in Tids : pending_enqueues'[u] <= now'
      BY <3>1, <3>2, <3>3, <2>1
    <3> QED BY <2>7, <3>1, <3>4
  <2>9. cpu_waits' \in [Owners -> SUBSET Nat]
    <3>1. CASE pending_enqueues[t] # None /\ CgOf[t] \in Targets
      <4>1. pending_enqueues[t] \in Nat /\ pending_enqueues[t] <= ts
        BY <2>1, <3>1 DEF IInv, TypeOK, HistoriesInOrder
      <4>2. CpuCharge(h, pending_enqueues[t], ts, CgOf[t]) \subseteq Nat
        BY <2>1, <2>3, <4>1, ChargeType
      <4>3. cpu_waits' = [cpu_waits EXCEPT ![CgOf[t]] =
                            @ \cup CpuCharge(h, pending_enqueues[t], ts, CgOf[t])]
        BY <1>2, <3>1 DEF HandleSwitch
      <4> QED BY <4>2, <4>3 DEF IInv, TypeOK
    <3>2. CASE ~(pending_enqueues[t] # None /\ CgOf[t] \in Targets)
      BY <1>2, <3>2 DEF HandleSwitch, IInv, TypeOK
    <3> QED BY <3>1, <3>2
  <2>10. TypeOK'
    BY <2>1, <2>6, <2>8, <2>9 DEF TypeOK, Entry
  <2>11. ASSUME NEW d \in Cpus
         PROVE  /\ InOrder(cpu_switch_history'[d])
                /\ \A i \in DOMAIN cpu_switch_history'[d] : cpu_switch_history'[d][i].ts <= now'
    <3>1. CASE d = c
      <4>1. cpu_switch_history'[d] = g
        BY <2>5, <3>1 DEF IInv, TypeOK
      <4> QED BY <4>1, <2>1, <2>4
    <3>2. CASE d # c
      <4>1. cpu_switch_history'[d] = cpu_switch_history[d]
        BY <2>5, <3>2 DEF IInv, TypeOK
      <4>2. \A i \in DOMAIN cpu_switch_history[d] :
              cpu_switch_history[d][i].ts \in Nat /\ cpu_switch_history[d][i].ts <= now
        BY HistoryOf, HistoryFacts
      <4> QED BY <4>1, <4>2, <2>1, HistoryOf
    <3> QED BY <3>1, <3>2
  <2> QED BY <2>8, <2>10, <2>11 DEF IInv, HistoriesInOrder
<1>3. ASSUME NEW ts \in 0 .. MaxTime, OtherEvent(ts) PROVE IInv'
  <2>1. now <= ts /\ now' = ts /\ now \in Nat /\ ts \in Nat /\ events' \in 0 .. MaxEvents
    BY <1>3 DEF OtherEvent, Event, IInv, TypeOK
  <2>2. /\ pending_enqueues' = pending_enqueues /\ cpu_switch_history' = cpu_switch_history
        /\ cpu_waits' = cpu_waits
    BY <1>3 DEF OtherEvent
  <2>3. ASSUME NEW c \in Cpus
        PROVE  /\ InOrder(cpu_switch_history'[c])
               /\ \A i \in DOMAIN cpu_switch_history'[c] : cpu_switch_history'[c][i].ts <= now'
    <3>1. \A i \in DOMAIN cpu_switch_history[c] :
            cpu_switch_history[c][i].ts \in Nat /\ cpu_switch_history[c][i].ts <= now
      BY HistoryOf, HistoryFacts
    <3> QED BY <2>1, <2>2, <3>1, HistoryOf
  <2>4. \A u \in Tids : pending_enqueues'[u] <= now'
    BY <2>1, <2>2 DEF IInv, TypeOK, HistoriesInOrder, None
  <2>5. TypeOK'
    BY <1>3, <2>1, <2>2 DEF IInv, TypeOK
  <2> QED BY <2>3, <2>4, <2>5 DEF IInv, HistoriesInOrder
<1>4. CASE UNCHANGED vars
  BY <1>4 DEF vars, IInv, TypeOK, HistoriesInOrder, Owners
<1> QED BY <1>1, <1>2, <1>3, <1>4 DEF Next

LEMMA InvInit == Init => IInv
<1> SUFFICES ASSUME Init PROVE IInv
  OBVIOUS
<1>1. <<>> \in Seq(Entry(Owners)) /\ DOMAIN <<>> = {}
  BY EmptySeq
<1>2. TypeOK
  BY <1>1, BoundAssumption DEF Init, TypeOK, Entry, None
<1>3. HistoriesInOrder
  BY <1>1 DEF Init, HistoriesInOrder, InOrder, None
<1> QED BY <1>2, <1>3 DEF IInv

LEMMA Invariant == Spec => []IInv
  BY InvInit, InvStep, PTL DEF Spec

(* The state of the analyzer is well typed; a charge is a set of instants. *)
THEOREM TypeCorrect == Spec => []TypeOK
<1>1. IInv => TypeOK
  BY DEF IInv
<1> QED BY <1>1, Invariant, PTL

(* The bisections always meet histories in order of time, and no pending   *)
(* enqueue and no switch lies in the future.                               *)
THEOREM HistoriesStayInOrder == Spec => []HistoriesInOrder
<1>1. IInv => HistoriesInOrder
  BY DEF IInv
<1> QED BY <1>1, Invariant, PTL

-------------------------------------------------------------------------------
(* CpuWait implements CpuOccupancy.                                        *)

(* From the last event on, the last switch-in is the current one.          *)
LEMMA HeldFromNow ==
  ASSUME NEW h \in Seq(Entry(Owners)), InOrder(h), NEW n \in Nat,
         \A i \in DOMAIN h : h[i].ts <= n,
         NEW p \in Nat, n <= p, NEW mine
  PROVE  HeldAt(h, p, mine) <=> h # <<>> /\ Charged(h[Len(h)], mine)
<1>1. /\ Len(h) \in Nat
      /\ DOMAIN h = 1 .. Len(h)
      /\ \A i \in DOMAIN h : i \in Nat /\ h[i].ts \in Nat
  BY HistoryFacts
<1>2. h # <<>> => Len(h) \in DOMAIN h
  BY <1>1, EmptySeq
<1>3. ASSUME NEW i \in DOMAIN h, Current(h, i, p) PROVE i = Len(h)
  <2>1. i + 1 \notin DOMAIN h
    BY <1>1, <1>3 DEF Current
  <2> QED BY <1>1, <2>1
<1>4. h # <<>> => Current(h, Len(h), p)
  BY <1>1, <1>2 DEF Current
<1>5. \A i \in DOMAIN h : h # <<>>
  BY <1>1, EmptySeq
<1> QED BY <1>2, <1>3, <1>4, <1>5 DEF HeldAt

(* A switch-in changes nothing before it.                                  *)
LEMMA HeldBeforeAppend ==
  ASSUME NEW h \in Seq(Entry(Owners)), InOrder(h), NEW ts \in Nat, NEW cg \in Owners,
         \A i \in DOMAIN h : h[i].ts <= ts,
         NEW p \in Nat, p < ts, NEW mine
  PROVE  HeldAt(Append(h, [ts |-> ts, cg |-> cg]), p, mine) <=> HeldAt(h, p, mine)
<1> DEFINE g == Append(h, [ts |-> ts, cg |-> cg])
<1>1. /\ Len(h) \in Nat
      /\ DOMAIN h = 1 .. Len(h)
      /\ \A i \in DOMAIN h : i \in Nat /\ h[i].ts \in Nat
  BY HistoryFacts
<1>2. /\ DOMAIN g = DOMAIN h \cup {Len(h) + 1}
      /\ \A i \in DOMAIN h : g[i] = h[i]
      /\ g[Len(h) + 1].ts = ts
  BY AppendInOrder
<1> HIDE DEF g
<1>3. ~Current(g, Len(h) + 1, p)
  BY <1>2 DEF Current
<1>4. ASSUME NEW i \in DOMAIN h PROVE Current(g, i, p) <=> Current(h, i, p)
  <2>1. CASE i + 1 \in DOMAIN h
    BY <2>1, <1>2 DEF Current
  <2>2. CASE i + 1 \notin DOMAIN h
    <3>1. i + 1 = Len(h) + 1
      BY <2>2, <1>1
    <3> QED BY <2>2, <3>1, <1>2 DEF Current
  <2> QED BY <2>1, <2>2
<1>5. HeldAt(g, p, mine) <=> HeldAt(h, p, mine)
  BY <1>2, <1>3, <1>4 DEF HeldAt
<1> QED BY <1>5 DEF g

(* What will have added up at ts, read from the histories of now.          *)
AddedBy(ts) == [t \in Tids |-> [c \in Cpus |->
                 IF pending_enqueues[t] = None THEN {}
                 ELSE {p \in ClosedOpen(pending_enqueues[t], ts) :
                         HeldAt(cpu_switch_history[c], p, CgOf[t])}]]

LEMMA UntilIsAddedBy ==
  ASSUME IInv, NEW ts \in Nat, now <= ts
  PROVE  Accounting!Until(ts) = AddedBy(ts)
<1>1. SUFFICES ASSUME NEW t \in Tids, NEW c \in Cpus
               PROVE  (IF t \in Waiting /\ Accounting!ChargedTo(t, c)
                       THEN Added[t][c] \cup (now .. ts - 1)
                       ELSE Added[t][c]) = AddedBy(ts)[t][c]
  BY Zenon DEF Accounting!Until, AddedBy
<1> DEFINE h == cpu_switch_history[c]
           a == pending_enqueues[t]
<1>2. h \in Seq(Entry(Owners)) /\ InOrder(h) /\ now \in Nat /\ \A i \in DOMAIN h : h[i].ts <= now
  BY HistoryOf
<1>3. a \in Nat \cup {None} /\ a <= now
  BY DEF IInv, TypeOK, HistoriesInOrder
<1>4. Accounting!ChargedTo(t, c) <=> h # <<>> /\ Charged(h[Len(h)], CgOf[t])
  <2>1. h # <<>> => h[Len(h)].cg \in Nat \ {0}
    <3>1. /\ Len(h) \in Nat /\ DOMAIN h = 1 .. Len(h)
          /\ \A i \in DOMAIN h : h[i].cg \in Owners
      BY <1>2, HistoryFacts
    <3>2. h # <<>> => Len(h) \in DOMAIN h
      BY <1>2, <3>1, EmptySeq
    <3> QED BY <3>1, <3>2, CgroupsAreNats
  <2>2. Holder[c] = IF h = <<>> THEN NoCg ELSE h[Len(h)].cg
    BY DEF Holder
  <2> QED BY <2>1, <2>2 DEF Accounting!ChargedTo, Charged, NoCg
<1>5. CASE a = None
  BY <1>5 DEF Waiting, Added, AddedBy
<1>6. CASE a # None
  <2>1. a \in Nat /\ t \in Waiting
    BY <1>3, <1>6 DEF Waiting
  <2>2. /\ Added[t][c] = {p \in ClosedOpen(a, now) : HeldAt(h, p, CgOf[t])}
        /\ AddedBy(ts)[t][c] = {p \in ClosedOpen(a, ts) : HeldAt(h, p, CgOf[t])}
    BY <1>6 DEF Added, AddedBy
  <2>3. \A p \in now .. ts - 1 :
          HeldAt(h, p, CgOf[t]) <=> h # <<>> /\ Charged(h[Len(h)], CgOf[t])
    BY <1>2, HeldFromNow
  <2>4. ClosedOpen(a, ts) = ClosedOpen(a, now) \cup (now .. ts - 1)
    BY <1>2, <1>3, <2>1 DEF ClosedOpen
  <2> HIDE DEF h, a
  <2> QED BY <1>4, <2>1, <2>2, <2>3, <2>4
<1> QED BY <1>5, <1>6

LEMMA EnqueueIsWake ==
  ASSUME IInv, IInv', NEW t \in Tids, NEW ts \in 0 .. MaxTime, HandleEnqueue(t, ts)
  PROVE  Accounting!Wake(t, ts)
<1>1. /\ now <= ts /\ now' = ts /\ ts \in Nat
      /\ pending_enqueues' = [pending_enqueues EXCEPT ![t] = ts]
      /\ cpu_switch_history' = cpu_switch_history
      /\ cpu_waits' = cpu_waits
  BY BoundAssumption DEF HandleEnqueue, Event
<1>2. \A u \in Tids : pending_enqueues'[u] = IF u = t THEN ts ELSE pending_enqueues[u]
  BY <1>1 DEF IInv, TypeOK
<1>3. ts # None
  BY <1>1 DEF None
<1>4. Waiting' = Waiting \cup {t}
  BY <1>2, <1>3 DEF Waiting
<1>5. Holder' = Holder
  BY <1>1 DEF Holder
<1>6. Added' = [AddedBy(ts) EXCEPT ![t] = [c \in Cpus |-> {}]]
  <2>1. ASSUME NEW u \in Tids, NEW c \in Cpus
        PROVE  Added'[u][c] = [AddedBy(ts) EXCEPT ![t] = [d \in Cpus |-> {}]][u][c]
    <3>1. Added'[u][c] = IF pending_enqueues'[u] = None THEN {}
                         ELSE {p \in ClosedOpen(pending_enqueues'[u], ts) :
                                 HeldAt(cpu_switch_history[c], p, CgOf[u])}
      BY <1>1 DEF Added
    <3>2. CASE u = t
      <4>1. ClosedOpen(ts, ts) = {}
        BY <1>1 DEF ClosedOpen
      <4>2. Added'[u][c] = {}
        BY <3>1, <3>2, <4>1, <1>2
      <4> QED BY <3>2, <4>2 DEF AddedBy
    <3>3. CASE u # t
      <4>1. pending_enqueues'[u] = pending_enqueues[u]
        BY <1>2, <3>3
      <4>2. Added'[u][c] = AddedBy(ts)[u][c]
        BY <3>1, <4>1 DEF AddedBy
      <4>3. [AddedBy(ts) EXCEPT ![t] = [d \in Cpus |-> {}]][u] = AddedBy(ts)[u]
        BY <3>3 DEF AddedBy
      <4> QED BY <4>2, <4>3
    <3> QED BY <3>2, <3>3
  <2> QED BY <2>1 DEF Added, AddedBy
<1>7. Accounting!Until(ts) = AddedBy(ts)
  BY <1>1, UntilIsAddedBy
<1> QED BY <1>1, <1>4, <1>5, <1>6, <1>7 DEF Accounting!Wake

LEMMA SwitchIsRun ==
  ASSUME IInv, IInv', NEW t \in Tids, NEW c \in Cpus, NEW ts \in 0 .. MaxTime,
         HandleSwitch(t, c, ts)
  PROVE  Accounting!Run(t, c, ts)
<1> DEFINE h == cpu_switch_history[c]
           e == [ts |-> ts, cg |-> CgOf[t]]
<1>1. /\ now <= ts /\ now' = ts /\ ts \in Nat /\ now \in Nat
      /\ pending_enqueues' = [pending_enqueues EXCEPT ![t] = None]
      /\ cpu_switch_history' = [cpu_switch_history EXCEPT ![c] = Append(h, e)]
  BY BoundAssumption DEF HandleSwitch, Event, IInv, TypeOK
<1>2. \A u \in Tids : pending_enqueues'[u] = IF u = t THEN None ELSE pending_enqueues[u]
  BY <1>1 DEF IInv, TypeOK
<1>3. \A d \in Cpus : cpu_switch_history'[d] = IF d = c THEN Append(h, e) ELSE cpu_switch_history[d]
  BY <1>1 DEF IInv, TypeOK
<1>4. \A d \in Cpus : /\ cpu_switch_history[d] \in Seq(Entry(Owners))
                     /\ InOrder(cpu_switch_history[d])
                     /\ \A i \in DOMAIN cpu_switch_history[d] : cpu_switch_history[d][i].ts <= ts
  <2>1. SUFFICES ASSUME NEW d \in Cpus
                 PROVE  /\ cpu_switch_history[d] \in Seq(Entry(Owners))
                        /\ InOrder(cpu_switch_history[d])
                        /\ \A i \in DOMAIN cpu_switch_history[d] : cpu_switch_history[d][i].ts <= ts
    OBVIOUS
  <2>2. \A i \in DOMAIN cpu_switch_history[d] :
          cpu_switch_history[d][i].ts \in Nat /\ cpu_switch_history[d][i].ts <= now
    BY HistoryOf, HistoryFacts
  <2> QED BY <1>1, <2>2, HistoryOf
<1>5. Waiting' = Waiting \ {t}
  BY <1>2 DEF Waiting
<1>6. Holder' = [Holder EXCEPT ![c] = CgOf[t]]
  <2>1. Append(h, e) # <<>> /\ Append(h, e)[Len(Append(h, e))] = e
    <3>1. e \in Entry(Owners)
      BY <1>1, CgroupsAreNats DEF Entry
    <3> QED BY <1>4, <3>1, AppendProperties
  <2>2. \A d \in Cpus : Holder'[d] = IF d = c THEN CgOf[t] ELSE Holder[d]
    <3>1. \A d \in Cpus : /\ Holder[d] = IF cpu_switch_history[d] = <<>> THEN NoCg
                                        ELSE cpu_switch_history[d][Len(cpu_switch_history[d])].cg
                         /\ Holder'[d] = IF cpu_switch_history'[d] = <<>> THEN NoCg
                                         ELSE cpu_switch_history'[d][Len(cpu_switch_history'[d])].cg
      BY Zenon DEF Holder
    <3>2. ASSUME NEW d \in Cpus, d = c PROVE Holder'[d] = CgOf[t]
      <4>1. cpu_switch_history'[d] = Append(h, e)
        BY <1>3, <3>2
      <4>2. Holder'[d] = e.cg
        BY <3>1, <4>1, <2>1
      <4> QED BY <4>2
    <3>3. ASSUME NEW d \in Cpus, d # c PROVE Holder'[d] = Holder[d]
      <4>1. cpu_switch_history'[d] = cpu_switch_history[d]
        BY <1>3, <3>3
      <4> QED BY <3>1, <4>1
    <3> QED BY <3>2, <3>3
  <2> QED BY <2>2 DEF Holder
<1>7. Accounting!Until(ts) = AddedBy(ts)
  BY <1>1, UntilIsAddedBy
<1>8. Added' = [AddedBy(ts) EXCEPT ![t] = [d \in Cpus |-> {}]]
  <2>1. ASSUME NEW u \in Tids, NEW d \in Cpus
        PROVE  Added'[u][d] = [AddedBy(ts) EXCEPT ![t] = [b \in Cpus |-> {}]][u][d]
    <3>1. Added'[u][d] = IF pending_enqueues'[u] = None THEN {}
                         ELSE {p \in ClosedOpen(pending_enqueues'[u], ts) :
                                 HeldAt(cpu_switch_history'[d], p, CgOf[u])}
      BY <1>1 DEF Added
    <3>2. CASE u = t
      BY <3>1, <3>2, <1>2 DEF AddedBy
    <3>3. CASE u # t
      <4>1. pending_enqueues[u] \in Nat \cup {None} /\ CgOf[t] \in Owners
        BY CgroupsAreNats DEF IInv, TypeOK
      <4>2. ASSUME pending_enqueues[u] # None, NEW p \in ClosedOpen(pending_enqueues[u], ts)
            PROVE  HeldAt(cpu_switch_history'[d], p, CgOf[u])
                     <=> HeldAt(cpu_switch_history[d], p, CgOf[u])
        <5>1. p \in Nat /\ p < ts
          BY <4>1, <4>2, <1>1 DEF ClosedOpen
        <5>2. CASE d = c
          <6>1. /\ h \in Seq(Entry(Owners)) /\ InOrder(h)
                /\ \A i \in DOMAIN h : h[i].ts <= ts
            BY <1>4
          <6>2. HeldAt(Append(h, e), p, CgOf[u]) <=> HeldAt(h, p, CgOf[u])
            BY <6>1, <5>1, <4>1, <1>1, HeldBeforeAppend
          <6>3. cpu_switch_history'[d] = Append(h, e) /\ cpu_switch_history[d] = h
            BY <5>2, <1>3
          <6> QED BY <6>2, <6>3, Zenon
        <5>3. CASE d # c
          BY <5>3, <1>3
        <5> QED BY <5>2, <5>3
      <4>3. [AddedBy(ts) EXCEPT ![t] = [b \in Cpus |-> {}]][u][d] = AddedBy(ts)[u][d]
        BY <3>3 DEF AddedBy
      <4>4. AddedBy(ts)[u][d] = IF pending_enqueues[u] = None THEN {}
                                ELSE {p \in ClosedOpen(pending_enqueues[u], ts) :
                                        HeldAt(cpu_switch_history[d], p, CgOf[u])}
        BY DEF AddedBy
      <4>5. pending_enqueues'[u] = pending_enqueues[u]
        BY <3>3, <1>2
      <4> QED BY <3>1, <4>2, <4>3, <4>4, <4>5
    <3> QED BY <3>2, <3>3
  <2> QED BY <2>1 DEF Added, AddedBy
<1>9. cpu_waits' = IF t \in Waiting /\ CgOf[t] \in Targets
                   THEN [cpu_waits EXCEPT ![CgOf[t]] = @ \cup AddedBy(ts)[t][c]]
                   ELSE cpu_waits
  <2>1. CASE t \in Waiting /\ CgOf[t] \in Targets
    <3>1. pending_enqueues[t] # None /\ pending_enqueues[t] \in Nat /\ pending_enqueues[t] <= ts
      BY <2>1, <1>1 DEF Waiting, IInv, TypeOK, HistoriesInOrder
    <3>2. CpuCharge(h, pending_enqueues[t], ts, CgOf[t]) = AddedBy(ts)[t][c]
      BY <3>1, <1>1, <1>4, CpuChargeIsExact DEF CpuCharge, AddedBy
    <3>3. cpu_waits' = [cpu_waits EXCEPT ![CgOf[t]] =
                          @ \cup CpuCharge(h, pending_enqueues[t], ts, CgOf[t])]
      BY <2>1, <3>1 DEF HandleSwitch
    <3> QED BY <2>1, <3>2, <3>3
  <2>2. CASE ~(t \in Waiting /\ CgOf[t] \in Targets)
    BY <2>2 DEF HandleSwitch, Waiting
  <2> QED BY <2>1, <2>2
<1> QED BY <1>1, <1>5, <1>6, <1>7, <1>8, <1>9 DEF Accounting!Run

LEMMA OtherIsPass ==
  ASSUME IInv, NEW ts \in 0 .. MaxTime, OtherEvent(ts)
  PROVE  Accounting!Pass(ts)
<1>1. /\ now <= ts /\ now' = ts /\ ts \in Nat
      /\ pending_enqueues' = pending_enqueues /\ cpu_switch_history' = cpu_switch_history
      /\ cpu_waits' = cpu_waits
  BY BoundAssumption DEF OtherEvent, Event
<1>2. Holder' = Holder /\ Waiting' = Waiting /\ Added' = AddedBy(ts)
  BY <1>1 DEF Holder, Waiting, Added, AddedBy
<1>3. Accounting!Until(ts) = AddedBy(ts)
  BY <1>1, UntilIsAddedBy
<1> QED BY <1>1, <1>2, <1>3 DEF Accounting!Pass

(* Looking back is as good as keeping account: every run of the handlers   *)
(* is a run of CpuOccupancy, for every number of CPUs, threads, cgroups    *)
(* and events, with and without attribution.                               *)
THEOREM LookingBackIsExact == Spec => ImplementsOccupancy
<1>1. Init => Accounting!Init
  <2> SUFFICES ASSUME Init PROVE Accounting!Init
    OBVIOUS
  <2>1. Holder = [c \in Cpus |-> NoCg]
    BY DEF Init, Holder
  <2>2. Waiting = {}
    BY DEF Init, Waiting
  <2>3. Added = [t \in Tids |-> [c \in Cpus |-> {}]]
    BY DEF Init, Added
  <2> QED BY <2>1, <2>2, <2>3 DEF Init, Accounting!Init, Owners, Accounting!Owners
<1>2. IInv /\ IInv' /\ [Next]_vars => [Accounting!Next]_Accounting!vars
  <2> SUFFICES ASSUME IInv, IInv', [Next]_vars PROVE [Accounting!Next]_Accounting!vars
    OBVIOUS
  <2>1. ASSUME NEW t \in Tids, NEW ts \in 0 .. MaxTime, HandleEnqueue(t, ts)
        PROVE  Accounting!Next
    <3>1. now' = ts /\ ts \in Nat
      BY <2>1, BoundAssumption DEF HandleEnqueue, Event
    <3>2. Accounting!Wake(t, now')
      BY <2>1, <3>1, EnqueueIsWake
    <3> QED BY <3>1, <3>2 DEF Accounting!Next
  <2>2. ASSUME NEW t \in Tids, NEW c \in Cpus, NEW ts \in 0 .. MaxTime, HandleSwitch(t, c, ts)
        PROVE  Accounting!Next
    <3>1. now' = ts /\ ts \in Nat
      BY <2>2, BoundAssumption DEF HandleSwitch, Event
    <3>2. Accounting!Run(t, c, now')
      BY <2>2, <3>1, SwitchIsRun
    <3> QED BY <3>1, <3>2 DEF Accounting!Next
  <2>3. ASSUME NEW ts \in 0 .. MaxTime, OtherEvent(ts)
        PROVE  Accounting!Next
    <3>1. now' = ts /\ ts \in Nat
      BY <2>3, BoundAssumption DEF OtherEvent, Event
    <3>2. Accounting!Pass(now')
      BY <2>3, <3>1, OtherIsPass
    <3> QED BY <3>1, <3>2 DEF Accounting!Next
  <2>4. CASE UNCHANGED vars
    BY <2>4 DEF vars, Accounting!vars, Holder, Waiting, Added
  <2> QED BY <2>1, <2>2, <2>3, <2>4 DEF Next
<1> QED BY <1>1, <1>2, Invariant, PTL DEF Spec, ImplementsOccupancy, Accounting!Spec
===============================================================================
