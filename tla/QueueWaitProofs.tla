---------------------------- MODULE QueueWaitProofs ----------------------------
(***************************************************************************)
(* Proofs about QueueWait, for any addresses and cgroups and traces of any *)
(* length, and about the windows of WaitWindows that it looks back at: the *)
(* charge of a queue is what it is to be, instant by instant.              *)
(***************************************************************************)
EXTENDS QueueWait, SequenceTheorems, WellFoundedInduction, TLAPS

Entry(G) == [ts : Nat, cg : G]

LEMMA MinOfNats ==
  ASSUME NEW T, T \subseteq Nat, T # {}
  PROVE  Min(T) \in T /\ \A y \in T : Min(T) <= y
<1>1. PICK x \in T : \A y \in T : ~(<<y, x>> \in OpToRel(<, Nat))
  BY NatLessThanWellFounded, WFMin
<1>2. \A y \in T : ~(y < x)
  BY <1>1 DEF OpToRel
<1>3. \A y \in T : x <= y
  BY <1>2
<1> QED BY <1>3 DEF Min

LEMMA MaxOfBounded ==
  ASSUME NEW n \in Nat, NEW T, T \subseteq 1 .. n, T # {}
  PROVE  Max(T) \in T /\ \A y \in T : y <= Max(T)
<1> DEFINE U == {n - y : y \in T}
<1>1. \A y \in T : y \in Int /\ n - y \in Nat
  OBVIOUS
<1>2. U \subseteq Nat
  BY <1>1
<1>3. U # {}
  <2>1. PICK y \in T : TRUE
    OBVIOUS
  <2>2. n - y \in U
    OBVIOUS
  <2> QED BY <2>2
<1>4. \A y \in T : n - y \in U
  OBVIOUS
<1>5. \A z \in U : \E y \in T : z = n - y
  OBVIOUS
<1> HIDE DEF U
<1>6. Min(U) \in U /\ \A z \in U : Min(U) <= z
  BY <1>2, <1>3, MinOfNats
<1>7. PICK x \in T : Min(U) = n - x
  BY <1>5, <1>6
<1>8. \A y \in T : n - x <= n - y
  BY <1>4, <1>6, <1>7
<1>9. \A y \in T : x >= y
  BY <1>1, <1>8
<1>10. Max(T) \in T /\ \A y \in T : Max(T) >= y
  BY <1>9 DEF Max
<1> QED BY <1>1, <1>10

-------------------------------------------------------------------------------

(* The entries of a window, of what lies before it, and their neighbours.  *)
LEMMA HistoryFacts ==
  ASSUME NEW G, NEW h \in Seq(Entry(G)), InOrder(h)
  PROVE  /\ Len(h) \in Nat
         /\ DOMAIN h = 1 .. Len(h)
         /\ \A i \in DOMAIN h : i \in Nat /\ h[i].ts \in Nat /\ h[i].cg \in G
         /\ \A i, j \in DOMAIN h : i <= j => h[i].ts <= h[j].ts
<1>1. Len(h) \in Nat /\ DOMAIN h = 1 .. Len(h)
  BY LenProperties
<1>2. ASSUME NEW i \in DOMAIN h PROVE i \in Nat /\ h[i].ts \in Nat /\ h[i].cg \in G
  <2>1. i \in 1 .. Len(h)
    BY <1>1
  <2>2. h[i] \in Entry(G)
    BY <2>1, ElementOfSeq
  <2> QED BY <1>1, <2>1, <2>2 DEF Entry
<1> QED BY <1>1, <1>2 DEF InOrder

(* Appending a service that is not before the last one.                    *)
LEMMA AppendInOrder ==
  ASSUME NEW G, NEW h \in Seq(Entry(G)), InOrder(h), NEW ts \in Nat, NEW cg \in G,
         \A i \in DOMAIN h : h[i].ts <= ts
  PROVE  LET g == Append(h, [ts |-> ts, cg |-> cg])
         IN  /\ g \in Seq(Entry(G))
             /\ Len(g) = Len(h) + 1
             /\ DOMAIN g = DOMAIN h \cup {Len(h) + 1}
             /\ \A i \in DOMAIN h : g[i] = h[i]
             /\ g[Len(h) + 1] = [ts |-> ts, cg |-> cg]
             /\ InOrder(g)
             /\ \A i \in DOMAIN g : g[i].ts <= ts
<1> DEFINE g == Append(h, [ts |-> ts, cg |-> cg])
<1>1. [ts |-> ts, cg |-> cg] \in Entry(G)
  BY DEF Entry
<1>2. /\ Len(h) \in Nat
      /\ DOMAIN h = 1 .. Len(h)
      /\ \A i \in DOMAIN h : i \in Nat /\ h[i].ts \in Nat
      /\ \A i, j \in DOMAIN h : i <= j => h[i].ts <= h[j].ts
  BY HistoryFacts
<1>3. /\ g \in Seq(Entry(G))
      /\ Len(g) = Len(h) + 1
      /\ \A i \in 1 .. Len(h) : g[i] = h[i]
      /\ g[Len(h) + 1] = [ts |-> ts, cg |-> cg]
  BY <1>1, AppendProperties
<1>4. DOMAIN g = 1 .. Len(h) + 1
  BY <1>3, LenProperties
<1> HIDE DEF g
<1>5. DOMAIN g = DOMAIN h \cup {Len(h) + 1}
  BY <1>2, <1>4
<1>6. \A i \in DOMAIN g : g[i].ts <= ts
  BY <1>2, <1>3, <1>5
<1>7. InOrder(g)
  <2>1. SUFFICES ASSUME NEW i \in DOMAIN g, NEW j \in DOMAIN g, i <= j PROVE g[i].ts <= g[j].ts
    BY DEF InOrder
  <2>2. CASE j = Len(h) + 1
    BY <2>2, <1>3, <1>6
  <2>3. CASE j # Len(h) + 1
    <3>1. i \in DOMAIN h /\ j \in DOMAIN h
      BY <2>1, <2>3, <1>2, <1>5
    <3> QED BY <3>1, <2>1, <1>2, <1>3
  <2> QED BY <2>2, <2>3
<1>8. \A i \in DOMAIN h : g[i] = h[i]
  BY <1>2, <1>3
<1> QED BY <1>3, <1>5, <1>6, <1>7, <1>8 DEF g

(* The queues' charge: the instants of the wait at or after which a charged *)
(* service of the window was given.  It needs no order of the history.      *)
THEOREM SpansAreExact ==
  ASSUME NEW G, NEW h \in Seq(Entry(G)), NEW a \in Nat, NEW b \in Nat, NEW mine
  PROVE  Spans(h, a, b, mine)
           = {p \in ClosedOpen(a, b) :
                \E i \in DOMAIN h : a <= h[i].ts /\ h[i].ts <= p /\ Charged(h[i], mine)}
<1>1. \A i \in DOMAIN h : h[i].ts \in Nat
  <2>1. ASSUME NEW i \in DOMAIN h PROVE h[i].ts \in Nat
    <3>1. h[i] \in Entry(G)
      BY LenProperties, ElementOfSeq
    <3> QED BY <3>1 DEF Entry
  <2> QED BY <2>1
<1>2. ASSUME NEW p \in Spans(h, a, b, mine)
      PROVE  /\ p \in ClosedOpen(a, b)
             /\ \E i \in DOMAIN h : a <= h[i].ts /\ h[i].ts <= p /\ Charged(h[i], mine)
  <2>1. PICK i \in Window(h, a, b) : Charged(h[i], mine) /\ p \in h[i].ts .. b - 1
    BY <1>2 DEF Spans, ClosedOpen
  <2>2. i \in DOMAIN h /\ a <= h[i].ts /\ h[i].ts \in Nat
    BY <1>1 DEF Window
  <2> QED BY <2>1, <2>2 DEF ClosedOpen
<1>3. ASSUME NEW p \in ClosedOpen(a, b), NEW i \in DOMAIN h,
             a <= h[i].ts, h[i].ts <= p, Charged(h[i], mine)
      PROVE  p \in Spans(h, a, b, mine)
  <2>1. p \in ClosedOpen(h[i].ts, b)
    BY <1>1, <1>3 DEF ClosedOpen
  <2>2. i \in Window(h, a, b)
    BY <1>1, <1>3 DEF Window, ClosedOpen
  <2> QED BY <1>3, <2>1, <2>2 DEF Spans
<1> QED BY <1>2, <1>3

(* The leading slice: the instants of the wait before any service of its   *)
(* window, if the last service before the start is charged.                *)
THEOREM LeadIsExact ==
  ASSUME NEW G, NEW h \in Seq(Entry(G)), InOrder(h), NEW a \in Nat, NEW b \in Nat, NEW mine
  PROVE  LeadSlice(h, a, b, mine)
           = {p \in ClosedOpen(a, b) :
                /\ Before(h, a) # {} /\ Charged(h[Max(Before(h, a))], mine)
                /\ \A i \in DOMAIN h : a <= h[i].ts => p < h[i].ts}
<1> DEFINE W == Window(h, a, b)
           e == LeadEnd(h, a, b)
<1>1. /\ Len(h) \in Nat
      /\ DOMAIN h = 1 .. Len(h)
      /\ \A i \in DOMAIN h : i \in Nat /\ h[i].ts \in Nat
      /\ \A i, j \in DOMAIN h : i <= j => h[i].ts <= h[j].ts
  BY HistoryFacts
<1>2. \A i : i \in W <=> i \in DOMAIN h /\ a <= h[i].ts /\ h[i].ts < b
  BY DEF Window
<1>3. W # {} => Min(W) \in W /\ \A i \in W : Min(W) <= i
  BY <1>1, <1>2, MinOfNats
<1>4. e = IF W = {} THEN b ELSE h[Min(W)].ts
  BY DEF LeadEnd
<1> HIDE DEF W, e
<1>5. e \in Nat /\ e <= b
  BY <1>1, <1>2, <1>3, <1>4
<1>6. ASSUME NEW p \in ClosedOpen(a, b)
      PROVE  p < e <=> \A i \in DOMAIN h : a <= h[i].ts => p < h[i].ts
  <2>1. p \in Nat /\ p < b
    BY DEF ClosedOpen
  <2>2. ASSUME p < e, NEW i \in DOMAIN h, a <= h[i].ts PROVE p < h[i].ts
    <3>1. CASE i \in W
      <4>1. Min(W) \in DOMAIN h /\ Min(W) <= i /\ e = h[Min(W)].ts
        BY <3>1, <1>2, <1>3, <1>4
      <4>2. e <= h[i].ts
        BY <4>1, <2>2, <1>1
      <4> QED BY <4>2, <2>1, <2>2, <1>1, <1>5
    <3>2. CASE i \notin W
      BY <3>2, <2>1, <2>2, <1>1, <1>2
    <3> QED BY <3>1, <3>2
  <2>3. ASSUME \A i \in DOMAIN h : a <= h[i].ts => p < h[i].ts PROVE p < e
    BY <2>1, <2>3, <1>2, <1>3, <1>4
  <2> QED BY <2>2, <2>3
<1>7. \A p : p \in ClosedOpen(a, e) <=> p \in ClosedOpen(a, b) /\ p < e
  BY <1>5 DEF ClosedOpen
<1>8. LeadSlice(h, a, b, mine) =
        IF Before(h, a) # {} /\ Charged(h[Max(Before(h, a))], mine) THEN ClosedOpen(a, e) ELSE {}
  BY DEF LeadSlice, e
<1> QED BY <1>6, <1>7, <1>8

(* Whatever a wait is charged for, by the leading slice, by the slices of  *)
(* the CPU or by the spans of the queues, lies in the wait and not before  *)
(* some service that is charged to the waiting cgroup.                     *)
THEOREM ChargesAreForeign ==
  ASSUME NEW G, NEW h \in Seq(Entry(G)), InOrder(h), NEW a \in Nat, NEW b \in Nat, NEW mine,
         NEW p \in LeadSlice(h, a, b, mine) \cup Slices(h, a, b, mine) \cup Spans(h, a, b, mine)
  PROVE  p \in ClosedOpen(a, b) /\ \E i \in DOMAIN h : h[i].ts <= p /\ Charged(h[i], mine)
<1>1. CASE p \in LeadSlice(h, a, b, mine)
  <2> DEFINE B == Before(h, a)
  <2>1. /\ Len(h) \in Nat /\ DOMAIN h = 1 .. Len(h)
        /\ \A i \in DOMAIN h : h[i].ts \in Nat
    BY HistoryFacts
  <2>2. p \in ClosedOpen(a, b) /\ B # {} /\ Charged(h[Max(B)], mine)
    BY <1>1, LeadIsExact
  <2>3. Max(B) \in DOMAIN h /\ h[Max(B)].ts < a
    <3>1. B \subseteq 1 .. Len(h)
      BY <2>1 DEF Before
    <3>2. Max(B) \in B
      BY <2>1, <2>2, <3>1, MaxOfBounded
    <3> QED BY <3>2 DEF Before
  <2>4. h[Max(B)].ts <= p
    BY <2>1, <2>2, <2>3 DEF ClosedOpen
  <2> QED BY <2>2, <2>3, <2>4
<1>2. CASE p \in Spans(h, a, b, mine)
  BY <1>2, SpansAreExact
<1>3. CASE p \in Slices(h, a, b, mine)
  <2>1. PICK i \in Window(h, a, b) :
          Charged(h[i], mine) /\ p \in ClosedOpen(h[i].ts, SliceEnd(h, i, a, b))
    BY <1>3 DEF Slices
  <2>2. /\ i \in DOMAIN h /\ a <= h[i].ts /\ h[i].ts \in Nat
        /\ i + 1 \in Window(h, a, b) => h[i + 1].ts \in Nat /\ h[i + 1].ts < b
    BY <2>1, HistoryFacts DEF Window
  <2>3. SliceEnd(h, i, a, b) \in Nat /\ SliceEnd(h, i, a, b) <= b
    BY <2>2 DEF SliceEnd
  <2> QED BY <2>1, <2>2, <2>3 DEF ClosedOpen
<1> QED BY <1>1, <1>2, <1>3

-------------------------------------------------------------------------------
(* A queue of the analyzer: what is pending at each key, the services, what *)
(* has been charged, and nothing of it later than the last event, n.        *)

NoStart == [ts |-> -1, cg |-> 0]
QueueGood(G, keys, starts, services, waits, n) ==
  /\ starts \in [keys -> Entry(G) \cup {NoStart}]
  /\ \A k \in keys : starts[k].ts <= n
  /\ services \in Seq(Entry(G)) /\ InOrder(services)
  /\ \A i \in DOMAIN services : services[i].ts <= n
  /\ waits \in [G -> SUBSET Nat]

LEMMA QueueWaits ==
  ASSUME NEW G, NEW keys, NEW starts, NEW services, NEW waits, NEW n \in Nat, NEW m \in Nat, n <= m,
         QueueGood(G, keys, starts, services, waits, n)
  PROVE  QueueGood(G, keys, starts, services, waits, m)
<1>1. \A k \in keys : starts[k].ts \in Int
  BY DEF QueueGood, Entry, NoStart
<1>2. \A i \in DOMAIN services : services[i].ts \in Nat
  BY HistoryFacts DEF QueueGood
<1> QED BY <1>1, <1>2 DEF QueueGood

LEMMA QueueStart ==
  ASSUME NEW G, NEW keys, NEW starts, NEW services, NEW waits, NEW n \in Nat, NEW m \in Nat, n <= m,
         QueueGood(G, keys, starts, services, waits, n), NEW k \in keys, NEW cg \in G
  PROVE  QueueGood(G, keys, [starts EXCEPT ![k] = [ts |-> m, cg |-> cg]], services, waits, m)
<1>1. QueueGood(G, keys, starts, services, waits, m)
  BY QueueWaits
<1>2. [ts |-> m, cg |-> cg] \in Entry(G)
  BY DEF Entry
<1> QED BY <1>1, <1>2 DEF QueueGood

LEMMA QueueService ==
  ASSUME NEW G, NEW keys, NEW starts, NEW services, NEW waits, NEW n \in Nat, NEW m \in Nat, n <= m,
         QueueGood(G, keys, starts, services, waits, n), NEW k \in keys, NEW cg \in G,
         NEW waits1 \in [G -> SUBSET Nat]
  PROVE  QueueGood(G, keys, [starts EXCEPT ![k] = NoStart],
                   Append(services, [ts |-> m, cg |-> cg]), waits1, m)
<1>1. QueueGood(G, keys, starts, services, waits, m)
  BY QueueWaits
<1> DEFINE h1 == Append(services, [ts |-> m, cg |-> cg])
<1>2. /\ h1 \in Seq(Entry(G)) /\ InOrder(h1) /\ \A i \in DOMAIN h1 : h1[i].ts <= m
      /\ DOMAIN h1 = DOMAIN services \cup {Len(services) + 1}
      /\ \A i \in DOMAIN services : h1[i] = services[i]
      /\ h1[Len(services) + 1] = [ts |-> m, cg |-> cg]
  BY <1>1, AppendInOrder DEF QueueGood
<1> HIDE DEF h1
<1>3. NoStart.ts <= m
  BY DEF NoStart
<1>4. QueueGood(G, keys, [starts EXCEPT ![k] = NoStart], h1, waits1, m)
  BY <1>1, <1>2, <1>3 DEF QueueGood
<1> QED BY <1>4 DEF h1

LEMMA ServiceIsLast ==
  ASSUME NEW G, NEW keys, NEW starts, NEW services, NEW waits, NEW n \in Nat, NEW m \in Nat, n <= m,
         QueueGood(G, keys, starts, services, waits, n), NEW cg \in G
  PROVE  LET h1 == Append(services, [ts |-> m, cg |-> cg])
         IN  /\ \A i \in DOMAIN services : i \in DOMAIN h1 /\ h1[i] = services[i]
             /\ \E i \in DOMAIN h1 : h1[i].cg = cg
<1>1. QueueGood(G, keys, starts, services, waits, m)
  BY QueueWaits
<1>2. services \in Seq(Entry(G)) /\ InOrder(services) /\ \A i \in DOMAIN services : services[i].ts <= m
  BY <1>1 DEF QueueGood
<1> DEFINE h1 == Append(services, [ts |-> m, cg |-> cg])
<1>3. /\ DOMAIN h1 = DOMAIN services \cup {Len(services) + 1}
      /\ \A i \in DOMAIN services : h1[i] = services[i]
      /\ h1[Len(services) + 1] = [ts |-> m, cg |-> cg]
  BY <1>2, AppendInOrder
<1> HIDE DEF h1
<1>4. Len(services) + 1 \in DOMAIN h1 /\ h1[Len(services) + 1].cg = cg
  BY <1>3
<1> QED BY <1>3, <1>4 DEF h1

(* What is charged for a matched start: it lies in the wait, and somebody  *)
(* else was served.                                                        *)
LEMMA QueueCharges ==
  ASSUME NEW G, NEW keys, NEW starts, NEW services, NEW waits, NEW n \in Nat, NEW m \in Nat, n <= m,
         QueueGood(G, keys, starts, services, waits, n), NEW k \in keys, starts[k] # NoStart,
         NEW charge, charge \subseteq LeadSlice(services, starts[k].ts, m, starts[k].cg)
                                        \cup Spans(services, starts[k].ts, m, starts[k].cg)
  PROVE  /\ starts[k].ts \in Nat /\ starts[k].cg \in G
         /\ charge \subseteq ClosedOpen(starts[k].ts, m)
         /\ \A p \in charge : \E i \in DOMAIN services :
              services[i].ts <= p /\ Charged(services[i], starts[k].cg)
         /\ charge # {} => \E i \in DOMAIN services : Charged(services[i], starts[k].cg)
<1>1. starts[k].ts \in Nat /\ starts[k].ts <= n /\ starts[k].cg \in G
  BY DEF QueueGood, Entry
<1>2. services \in Seq(Entry(G)) /\ InOrder(services) /\ starts[k].ts <= m
  BY <1>1 DEF QueueGood
<1>3. ASSUME NEW p \in charge
      PROVE  /\ p \in ClosedOpen(starts[k].ts, m)
             /\ \E i \in DOMAIN services : services[i].ts <= p /\ Charged(services[i], starts[k].cg)
  BY <1>1, <1>2, ChargesAreForeign
<1> QED BY <1>1, <1>3

(* What the analyzer holds, and that its history and its starts are in     *)
(* order of time.                                                          *)
OrderInv ==
  /\ now \in 0 .. MaxTime /\ events \in 0 .. MaxEvents
  /\ QueueGood(Cgroups, Keys, pending, history, queue_waits, now)

IInv == device \in {"net", "block"} /\ OrderInv

LEMMA ChargeIsOfSlices ==
  ASSUME NEW h, NEW a, NEW b, NEW mine
  PROVE  QueueCharge(h, a, b, mine) \subseteq LeadSlice(h, a, b, mine) \cup Spans(h, a, b, mine)
  BY DEF QueueCharge

-------------------------------------------------------------------------------
(* The handlers of the analyzer.                                           *)

KeepsQueue == UNCHANGED <<device, history, queue_waits>>

LEMMA HandleStartKeeps ==
  ASSUME OrderInv, NEW k \in Keys, NEW g \in Cgroups, NEW ts \in 0 .. MaxTime,
         HandleStart(k, g, ts)
  PROVE  /\ OrderInv' /\ now <= ts /\ now' = ts /\ KeepsQueue
         /\ pending' = [pending EXCEPT ![k] = [ts |-> ts, cg |-> g]]
<1>1. /\ KeepsQueue /\ now <= ts /\ now' = ts /\ events' \in 0 .. MaxEvents
      /\ pending' = [pending EXCEPT ![k] = [ts |-> ts, cg |-> g]]
  BY BoundAssumption DEF HandleStart, Event, KeepsQueue, OrderInv
<1>2. now \in Nat /\ ts \in Nat /\ now <= ts
  BY <1>1, BoundAssumption DEF OrderInv
<1>3. QueueGood(Cgroups, Keys, [pending EXCEPT ![k] = [ts |-> ts, cg |-> g]], history,
                   queue_waits, ts)
  BY <1>2, QueueStart DEF OrderInv
<1>4. QueueGood(Cgroups, Keys, pending', history', queue_waits', now')
  BY <1>1, <1>3 DEF QueueGood, InOrder, KeepsQueue
<1> QED BY <1>1, <1>4, BoundAssumption DEF OrderInv

(* What a service charges lies in the wait of the start it is matched      *)
(* with, behind services that are charged.                                 *)
ServiceCharges(k, ts, charge) ==
  LET matched == pending[k] # NoStart /\ pending[k].cg \in Targets
  IN  /\ matched =>
           /\ pending[k].ts \in Nat /\ charge \subseteq ClosedOpen(pending[k].ts, ts)
           /\ \A p \in charge : \E i \in DOMAIN history :
                history[i].ts <= p /\ Charged(history[i], pending[k].cg)
      /\ queue_waits' = IF matched THEN [queue_waits EXCEPT ![pending[k].cg] = @ \cup charge]
                        ELSE queue_waits

LEMMA HandleServiceKeeps ==
  ASSUME OrderInv, NEW k \in Keys, NEW g \in Cgroups, NEW ts \in 0 .. MaxTime,
         HandleService(k, g, ts)
  PROVE  /\ OrderInv' /\ now <= ts /\ now' = ts /\ UNCHANGED device
         /\ pending' = [pending EXCEPT ![k] = NoStart]
         /\ history' = Append(history, [ts |-> ts, cg |-> g])
         /\ \E charge : ServiceCharges(k, ts, charge)
<1> DEFINE mine == pending[k].cg
           charge == QueueCharge(history, pending[k].ts, ts, mine)
           matched == pending[k] # NoStart /\ mine \in Targets
<1>1. None = NoStart
  BY DEF None, NoStart
<1>2. /\ now <= ts /\ now' = ts /\ events' \in 0 .. MaxEvents /\ UNCHANGED device
  BY BoundAssumption DEF HandleService, Event, OrderInv
<1>3. /\ pending' = [pending EXCEPT ![k] = NoStart]
      /\ history' = Append(history, [ts |-> ts, cg |-> g])
  BY <1>1, Zenon DEF HandleService
<1>4. queue_waits' = IF matched THEN [queue_waits EXCEPT ![mine] = @ \cup charge] ELSE queue_waits
  BY <1>1, Zenon DEF HandleService
<1>5. now \in Nat /\ ts \in Nat /\ now <= ts
  BY <1>2, BoundAssumption DEF OrderInv
<1>6. QueueGood(Cgroups, Keys, pending, history, queue_waits, now)
  BY DEF OrderInv
<1>7. charge \subseteq LeadSlice(history, pending[k].ts, ts, mine)
                         \cup Spans(history, pending[k].ts, ts, mine)
  BY ChargeIsOfSlices
<1> HIDE DEF charge
<1>8. ASSUME matched
      PROVE  /\ pending[k].ts \in Nat /\ mine \in Cgroups
             /\ charge \subseteq ClosedOpen(pending[k].ts, ts)
             /\ \A p \in charge : \E i \in DOMAIN history :
                  history[i].ts <= p /\ Charged(history[i], mine)
  BY <1>5, <1>6, <1>7, <1>8, QueueCharges
<1>9. ServiceCharges(k, ts, charge)
  BY <1>4, <1>8 DEF ServiceCharges
<1>10. queue_waits' \in [Cgroups -> SUBSET Nat]
  <2>1. queue_waits \in [Cgroups -> SUBSET Nat]
    BY <1>6 DEF QueueGood
  <2>2. CASE matched
    <3>1. charge \subseteq Nat
      BY <1>5, <1>8, <2>2 DEF ClosedOpen
    <3> QED BY <1>4, <2>1, <2>2, <3>1
  <2>3. CASE ~matched
    BY <1>4, <2>1, <2>3
  <2> QED BY <2>2, <2>3
<1>11. OrderInv'
  <2>1. QueueGood(Cgroups, Keys, [pending EXCEPT ![k] = NoStart],
                     Append(history, [ts |-> ts, cg |-> g]), queue_waits', ts)
    BY <1>5, <1>6, <1>10, QueueService
  <2>2. QueueGood(Cgroups, Keys, pending', history', queue_waits', now')
    BY <1>2, <1>3, <2>1 DEF QueueGood, InOrder
  <2> QED BY <1>2, <2>2, BoundAssumption DEF OrderInv
<1> QED BY <1>2, <1>3, <1>9, <1>11

-------------------------------------------------------------------------------
(* The analyzer's queue, on any trace.                                     *)

LEMMA InvInit == Init => IInv
<1> SUFFICES ASSUME Init PROVE IInv
  OBVIOUS
<1>1. /\ device \in {"net", "block"} /\ now = 0 /\ events = 0
      /\ pending = [k \in Keys |-> NoStart] /\ history = <<>>
      /\ queue_waits = [g \in Cgroups |-> {}]
  BY DEF Init, None, NoStart
<1> QED BY <1>1, BoundAssumption DEF IInv, OrderInv, QueueGood, NoStart, InOrder

LEMMA InvStep == IInv /\ [Next]_vars => IInv'
<1> SUFFICES ASSUME IInv, [Next]_vars PROVE IInv'
  OBVIOUS
<1>1. ASSUME NEW k \in Keys, NEW g \in Cgroups, NEW ts \in 0 .. MaxTime, HandleStart(k, g, ts)
      PROVE  IInv'
  BY <1>1, HandleStartKeeps DEF IInv, KeepsQueue
<1>2. ASSUME NEW k \in Keys, NEW g \in Cgroups, NEW ts \in 0 .. MaxTime, HandleService(k, g, ts)
      PROVE  IInv'
  BY <1>2, HandleServiceKeeps DEF IInv
<1>3. ASSUME NEW ts \in 0 .. MaxTime, OtherEvent(ts) PROVE IInv'
  <2>1. /\ now <= ts /\ now' = ts /\ now \in Nat /\ ts \in Nat /\ events' \in 0 .. MaxEvents
        /\ device' = device /\ pending' = pending /\ history' = history
        /\ queue_waits' = queue_waits
    BY <1>3, BoundAssumption DEF OtherEvent, Event, IInv, OrderInv
  <2>2. QueueGood(Cgroups, Keys, pending, history, queue_waits, ts)
    BY <2>1, QueueWaits DEF IInv, OrderInv
  <2> QED BY <2>1, <2>2 DEF IInv, OrderInv, QueueGood, InOrder
<1>4. CASE UNCHANGED vars
  BY <1>4 DEF vars, IInv, OrderInv, QueueGood, InOrder
<1> QED BY <1>1, <1>2, <1>3, <1>4 DEF Next

LEMMA Invariant == Spec => []IInv
  BY InvInit, InvStep, PTL DEF Spec

(* A queue of the analyzer keeps its types, on any trace.                  *)
THEOREM TypeCorrect == Spec => []TypeOK
<1>1. IInv => TypeOK
  BY DEF IInv, OrderInv, QueueGood, Entry, NoStart, TypeOK, None
<1> QED BY <1>1, Invariant, PTL

(* And what it looks back at is in order of time, which the bisections of  *)
(* _handle_net_dequeue and _handle_block_issue take for granted.           *)
THEOREM HistoryStaysInOrder == Spec => []HistoryInOrder
<1>1. IInv => HistoryInOrder
  BY DEF IInv, OrderInv, QueueGood, HistoryInOrder
<1> QED BY <1>1, Invariant, PTL
-------------------------------------------------------------------------------
(* QueueWait implements QueueOccupancy.                                    *)

(* An instant of a wait that began at a is charged to mine.                *)
Foreign(h, a, mine) == \E i \in DOMAIN h : a <= h[i].ts /\ Charged(h[i], mine)
Leads(h, a, mine) == Lead /\ Before(h, a) # {} /\ Charged(h[Max(Before(h, a))], mine)
InCharge(h, a, mine, q) ==
  \/ \E i \in DOMAIN h : a <= h[i].ts /\ h[i].ts <= q /\ Charged(h[i], mine)
  \/ Leads(h, a, mine) /\ \A i \in DOMAIN h : a <= h[i].ts => q < h[i].ts

(* The charge of a queue: the instants of the wait that follow a charged   *)
(* service given since its start, and on a disk those before any service   *)
(* if the one that was going on is charged.                                *)
THEOREM QueueChargeIsExact ==
  ASSUME NEW G, NEW h \in Seq(Entry(G)), InOrder(h), NEW a \in Nat, NEW b \in Nat, NEW mine
  PROVE  QueueCharge(h, a, b, mine) = {q \in ClosedOpen(a, b) : InCharge(h, a, mine, q)}
<1>1. Spans(h, a, b, mine) =
        {q \in ClosedOpen(a, b) :
           \E i \in DOMAIN h : a <= h[i].ts /\ h[i].ts <= q /\ Charged(h[i], mine)}
  BY SpansAreExact
<1>2. (IF Lead THEN LeadSlice(h, a, b, mine) ELSE {}) =
        {q \in ClosedOpen(a, b) :
           Leads(h, a, mine) /\ \A i \in DOMAIN h : a <= h[i].ts => q < h[i].ts}
  BY LeadIsExact DEF Leads
<1> QED BY <1>1, <1>2 DEF QueueCharge, InCharge

LEMMA HistoryOf ==
  ASSUME IInv
  PROVE  /\ now \in Nat
         /\ history \in Seq(Entry(Cgroups)) /\ InOrder(history)
         /\ Len(history) \in Nat /\ DOMAIN history = 1 .. Len(history)
         /\ \A i \in DOMAIN history :
              /\ i \in Nat /\ history[i].ts \in Nat /\ history[i].ts <= now
              /\ history[i].cg \in Cgroups /\ history[i].cg # NoCg
         /\ \A i, j \in DOMAIN history : i <= j => history[i].ts <= history[j].ts
<1>1. /\ now \in Nat /\ history \in Seq(Entry(Cgroups)) /\ InOrder(history)
      /\ \A i \in DOMAIN history : history[i].ts <= now
  BY BoundAssumption DEF IInv, OrderInv, QueueGood
<1>2. \A g \in Cgroups : g # NoCg
  BY CgroupsAssumption DEF NoCg
<1> QED BY <1>1, <1>2, HistoryFacts

LEMMA StartOf ==
  ASSUME IInv, NEW k \in Keys
  PROVE  /\ pending[k].cg \in Nat
         /\ pending[k] # None =>
              pending[k].ts \in Nat /\ pending[k].ts <= now /\ pending[k].cg \in Cgroups
         /\ pending[k] = None => pending[k].cg = NoCg
<1>1. /\ pending[k] \in [ts : Nat, cg : Cgroups] \cup {None} /\ pending[k].ts <= now
  BY DEF IInv, OrderInv, QueueGood, NoStart, None, Entry
<1>2. CASE pending[k] = None
  BY <1>2 DEF None, NoCg
<1>3. CASE pending[k] # None
  <2>1. pending[k] \in [ts : Nat, cg : Cgroups]
    BY <1>1, <1>3
  <2> QED BY <1>1, <1>3, <2>1, CgroupsAssumption
<1> QED BY <1>2, <1>3

(* A cgroup that was served is charged in the accounting if its service is *)
(* charged in the history.                                                 *)
LEMMA SameCharged ==
  ASSUME NEW e, e.cg # NoCg, NEW mine
  PROVE  Accounting!Charged(e.cg, mine) <=> Charged(e, mine)
  BY DEF Accounting!Charged, Charged

LEMMA PlaceIs ==
  ASSUME NEW p
  PROVE  PlaceOf(p) = IF p = None THEN "none"
                      ELSE IF Foreign(history, p.ts, p.cg) THEN "behind"
                      ELSE IF /\ \A i \in DOMAIN history : ~(history[i].ts >= p.ts)
                              /\ Leads(history, p.ts, p.cg) THEN "lead"
                      ELSE "clear"
<1> DEFINE since == {i \in DOMAIN history : history[i].ts >= p.ts}
           foreign == {i \in since : Charged(history[i], p.cg)}
<1>1. foreign # {} <=> \E i \in DOMAIN history : history[i].ts >= p.ts /\ Charged(history[i], p.cg)
  OBVIOUS
<1>2. since = {} <=> \A i \in DOMAIN history : ~(history[i].ts >= p.ts)
  OBVIOUS
<1> QED BY <1>1, <1>2 DEF PlaceOf, Foreign, Leads

(* What an appended service changes.                                       *)
LEMMA AppendedTo ==
  ASSUME IInv, NEW ts \in Nat, now <= ts, NEW cg \in Cgroups,
         history' = Append(history, [ts |-> ts, cg |-> cg])
  PROVE  /\ DOMAIN history' = DOMAIN history \cup {Len(history) + 1}
         /\ Len(history) + 1 \notin DOMAIN history
         /\ \A i \in DOMAIN history : history'[i] = history[i]
         /\ history'[Len(history) + 1] = [ts |-> ts, cg |-> cg]
         /\ history' \in Seq(Entry(Cgroups)) /\ InOrder(history')
<1>1. \A i \in DOMAIN history : history[i].ts <= ts
  BY HistoryOf
<1> QED BY <1>1, HistoryOf, AppendInOrder

(* As time passes until ts, the accounting sees what the history tells of  *)
(* ts.                                                                     *)
LEMMA LastPasses ==
  ASSUME IInv, NEW ts \in Nat, now <= ts
  PROVE  /\ Accounting!LastBy(ts) = CgOfLast(Before(history, ts))
         /\ (IF ts > now THEN NoCg ELSE CgOfLast(ServedAt(now))) = CgOfLast(ServedAt(ts))
         /\ Accounting!ServedBy(ts) = {history[i].cg : i \in ServedAt(ts)}
<1>1. CASE ts = now
  BY <1>1, HistoryOf DEF Accounting!LastBy, Accounting!ServedBy
<1>2. CASE ts # now
  <2>1. ts > now /\ now \in Nat
    BY <1>2, HistoryOf
  <2>2. ServedAt(ts) = {}
    BY <2>1, HistoryOf DEF ServedAt
  <2>3. Before(history, ts) = DOMAIN history
    BY <2>1, HistoryOf DEF Before
  <2>4. Accounting!ServedBy(ts) = {history[i].cg : i \in ServedAt(ts)}
    BY <2>1, <2>2 DEF Accounting!ServedBy
  <2>5. Accounting!LastBy(ts) = IF CgOfLast(ServedAt(now)) # NoCg THEN CgOfLast(ServedAt(now))
                                ELSE CgOfLast(Before(history, now))
    BY <2>1 DEF Accounting!LastBy
  <2>6. CASE ServedAt(now) = {}
    <3>1. Before(history, now) = DOMAIN history
      BY <2>6, HistoryOf DEF ServedAt, Before
    <3> QED BY <2>1, <2>2, <2>3, <2>4, <2>5, <2>6, <3>1 DEF CgOfLast
  <2>7. CASE ServedAt(now) # {}
    <3>1. ServedAt(now) \subseteq 1 .. Len(history) /\ Len(history) \in Nat
      BY HistoryOf DEF ServedAt
    <3>2. Max(ServedAt(now)) \in ServedAt(now) /\ \A i \in ServedAt(now) : i <= Max(ServedAt(now))
      BY <2>7, <3>1, MaxOfBounded
    <3>3. PICK m \in DOMAIN history : m = Max(ServedAt(now)) /\ history[m].ts = now
      BY <3>2 DEF ServedAt
    <3>4. Len(history) \in ServedAt(now)
      <4>1. Len(history) \in DOMAIN history /\ m <= Len(history)
        BY HistoryOf
      <4>2. history[Len(history)].ts = now
        BY <3>3, <4>1, HistoryOf
      <4> QED BY <4>1, <4>2 DEF ServedAt
    <3>5. m = Len(history)
      BY <3>2, <3>3, <3>4, HistoryOf
    <3>6. DOMAIN history # {} /\ Max(DOMAIN history) = Len(history)
      <4>1. DOMAIN history = 1 .. Len(history) /\ Len(history) \in DOMAIN history
        BY <3>4, HistoryOf DEF ServedAt
      <4>2. Max(DOMAIN history) \in DOMAIN history /\ Len(history) <= Max(DOMAIN history)
        BY <3>1, <4>1, MaxOfBounded
      <4> QED BY <3>1, <4>1, <4>2
    <3>7. CgOfLast(ServedAt(now)) = history[Len(history)].cg
      BY <2>7, <3>3, <3>5 DEF CgOfLast
    <3>8. CgOfLast(DOMAIN history) = history[Len(history)].cg
      BY <3>6 DEF CgOfLast
    <3>9. history[Len(history)].cg # NoCg
      BY <3>3, <3>5, HistoryOf
    <3> QED BY <2>1, <2>2, <2>3, <2>4, <2>5, <3>7, <3>8, <3>9 DEF CgOfLast
  <2> QED BY <2>6, <2>7
<1> QED BY <1>1, <1>2

LEMMA WaitPasses ==
  ASSUME IInv, NEW ts \in Nat, now <= ts
  PROVE  Accounting!Until(ts) = QueuedBy(ts)
<1>1. SUFFICES ASSUME NEW k \in Keys
               PROVE  (IF QueuedBy(now)[k].place \in {"lead", "behind"}
                       THEN [QueuedBy(now)[k] EXCEPT !.added = @ \cup (now .. ts - 1)]
                       ELSE QueuedBy(now)[k]) = QueuedBy(ts)[k]
  BY Zenon DEF Accounting!Until, QueuedBy
<1> DEFINE p == pending[k]
           a == p.ts
           mine == p.cg
           addedBy(t) == IF p = None THEN {} ELSE QueueCharge(history, a, t, mine)
<1>2. \A t : QueuedBy(t)[k] = [cg |-> mine, place |-> PlaceOf(p), added |-> addedBy(t)]
  BY DEF QueuedBy
<1>3. addedBy(ts) = IF PlaceOf(p) \in {"lead", "behind"} THEN addedBy(now) \cup (now .. ts - 1)
                    ELSE addedBy(now)
  <2>1. CASE p = None
    BY <2>1, PlaceIs
  <2>2. CASE p # None
    <3>1. a \in Nat /\ a <= now /\ now \in Nat
      BY <2>2, StartOf, HistoryOf
    <3>2. /\ addedBy(now) = {q \in ClosedOpen(a, now) : InCharge(history, a, mine, q)}
          /\ addedBy(ts) = {q \in ClosedOpen(a, ts) : InCharge(history, a, mine, q)}
      BY <2>2, <3>1, HistoryOf, QueueChargeIsExact
    <3>3. ClosedOpen(a, ts) = ClosedOpen(a, now) \cup (now .. ts - 1)
      BY <3>1 DEF ClosedOpen
    <3>4. ASSUME NEW q \in now .. ts - 1
          PROVE  InCharge(history, a, mine, q) <=> PlaceOf(p) \in {"lead", "behind"}
      <4>1. q \in Nat /\ now <= q
        BY <3>1
      <4>2. \A i \in DOMAIN history : history[i].ts \in Nat /\ history[i].ts <= q
        BY <3>1, <4>1, HistoryOf
      <4>3. InCharge(history, a, mine, q) <=>
              \/ Foreign(history, a, mine)
              \/ Leads(history, a, mine) /\ \A i \in DOMAIN history : ~(history[i].ts >= a)
        BY <3>1, <4>1, <4>2 DEF InCharge, Foreign
      <4>4. PlaceOf(p) = IF Foreign(history, a, mine) THEN "behind"
                         ELSE IF /\ \A i \in DOMAIN history : ~(history[i].ts >= a)
                                 /\ Leads(history, a, mine) THEN "lead"
                         ELSE "clear"
        BY <2>2, PlaceIs
      <4> QED BY <4>3, <4>4
    <3> HIDE DEF a, mine, addedBy, p
    <3> QED BY <3>2, <3>3, <3>4
  <2> QED BY <2>1, <2>2
<1>4. PICK place, before, after :
        /\ place = PlaceOf(p) /\ before = addedBy(now) /\ after = addedBy(ts)
  OBVIOUS
<1>5. after = IF place \in {"lead", "behind"} THEN before \cup (now .. ts - 1) ELSE before
  BY <1>3, <1>4
<1>6. /\ QueuedBy(now)[k] = [cg |-> mine, place |-> place, added |-> before]
      /\ QueuedBy(ts)[k] = [cg |-> mine, place |-> place, added |-> after]
  BY <1>2, <1>4
<1> HIDE DEF p, mine, addedBy
<1>7. CASE place \in {"lead", "behind"}
  <2>1. [QueuedBy(now)[k] EXCEPT !.added = @ \cup (now .. ts - 1)]
          = [cg |-> mine, place |-> place, added |-> before \cup (now .. ts - 1)]
    BY <1>6
  <2>2. QueuedBy(now)[k].place = place
    BY <1>6
  <2> QED BY <1>5, <1>6, <1>7, <2>1, <2>2, Zenon
<1>8. CASE place \notin {"lead", "behind"}
  <2>1. QueuedBy(now)[k].place = place
    BY <1>6
  <2> QED BY <1>5, <1>6, <1>8, <2>1, Zenon
<1> QED BY <1>7, <1>8

(* Where a request queued at ts finds itself.                              *)
LEMMA PlaceAtStart ==
  ASSUME IInv, NEW ts \in Nat, now <= ts, NEW cg \in Cgroups
  PROVE  PlaceOf([ts |-> ts, cg |-> cg]) = Accounting!Place(cg, ts)
<1> DEFINE p == [ts |-> ts, cg |-> cg]
<1>1. p # None
  BY DEF None
<1>2. \A i \in DOMAIN history : history[i].ts \in Nat /\ (history[i].ts >= ts <=> history[i].ts = ts)
  BY HistoryOf
<1>3. Accounting!ServedBy(ts) = {history[i].cg : i \in ServedAt(ts)}
      /\ Accounting!LastBy(ts) = CgOfLast(Before(history, ts))
  BY LastPasses
<1>4. (\E g \in Accounting!ServedBy(ts) : Accounting!Charged(g, cg)) <=> Foreign(history, ts, cg)
  <2>1. \A i \in DOMAIN history :
          Accounting!Charged(history[i].cg, cg) <=> Charged(history[i], cg)
    BY HistoryOf, SameCharged
  <2>2. Foreign(history, ts, cg) <=> \E i \in ServedAt(ts) : Charged(history[i], cg)
    BY <1>2 DEF Foreign, ServedAt
  <2> QED BY <1>3, <2>1, <2>2 DEF ServedAt
<1>5. Accounting!ServedBy(ts) = {} <=> \A i \in DOMAIN history : ~(history[i].ts >= ts)
  BY <1>2, <1>3 DEF ServedAt
<1>6. Lead /\ Accounting!Charged(Accounting!LastBy(ts), cg) <=> Leads(history, ts, cg)
  <2>1. CASE Before(history, ts) = {}
    BY <1>3, <2>1 DEF CgOfLast, Leads, Accounting!Charged
  <2>2. CASE Before(history, ts) # {}
    <3> DEFINE m == Max(Before(history, ts))
    <3>1. m \in DOMAIN history
      <4>1. Before(history, ts) \subseteq 1 .. Len(history) /\ Len(history) \in Nat
        BY HistoryOf DEF Before
      <4>2. m \in Before(history, ts)
        BY <2>2, <4>1, MaxOfBounded
      <4> QED BY <4>2 DEF Before
    <3>2. Accounting!Charged(history[m].cg, cg) <=> Charged(history[m], cg)
      BY <3>1, HistoryOf, SameCharged
    <3>3. Accounting!LastBy(ts) = history[m].cg
      BY <1>3, <2>2 DEF CgOfLast
    <3> QED BY <2>2, <3>2, <3>3 DEF Leads
  <2> QED BY <2>1, <2>2
<1>7. PlaceOf(p) = IF Foreign(history, ts, cg) THEN "behind"
                   ELSE IF /\ \A i \in DOMAIN history : ~(history[i].ts >= ts)
                           /\ Leads(history, ts, cg) THEN "lead"
                   ELSE "clear"
  <2>1. p.ts = ts /\ p.cg = cg
    OBVIOUS
  <2> HIDE DEF p
  <2> QED BY <1>1, <2>1, PlaceIs
<1> QED BY <1>4, <1>5, <1>6, <1>7 DEF Accounting!Place

LEMMA StartIsEnqueue ==
  ASSUME IInv, NEW k \in Keys, NEW cg \in Cgroups, NEW ts \in 0 .. MaxTime, HandleStart(k, cg, ts)
  PROVE  Accounting!Enqueue(k, cg, ts)
<1> DEFINE start == [ts |-> ts, cg |-> cg]
<1>1. /\ now <= ts /\ now' = ts /\ ts \in Nat
      /\ history' = history /\ queue_waits' = queue_waits /\ device' = device
      /\ pending' = [pending EXCEPT ![k] = start]
  BY BoundAssumption DEF HandleStart, Event
<1>2. \A j \in Keys : pending'[j] = IF j = k THEN start ELSE pending[j]
  BY <1>1 DEF IInv, OrderInv, QueueGood
<1>3. start # None /\ start.ts = ts /\ start.cg = cg
  BY <1>1 DEF None
<1>4. /\ CgOfLast(Before(history, now))' = CgOfLast(Before(history, ts))
      /\ CgOfLast(ServedAt(now))' = CgOfLast(ServedAt(ts))
      /\ {history[i].cg : i \in ServedAt(now)}' = {history[i].cg : i \in ServedAt(ts)}
  BY <1>1 DEF CgOfLast, ServedAt
<1>5. QueuedBy(now)' = [QueuedBy(ts) EXCEPT ![k] =
                          [cg |-> cg, place |-> Accounting!Place(cg, ts), added |-> {}]]
  <2>1. ASSUME NEW j \in Keys
        PROVE  QueuedBy(now)'[j] =
                 [cg |-> pending'[j].cg, place |-> PlaceOf(pending'[j]),
                  added |-> IF pending'[j] = None THEN {}
                            ELSE QueueCharge(history, pending'[j].ts, ts, pending'[j].cg)]
    BY <1>1 DEF QueuedBy, PlaceOf, QueueCharge, Lead, None
  <2>2. QueueCharge(history, ts, ts, cg) = {}
    <3>1. ClosedOpen(ts, ts) = {}
      BY <1>1 DEF ClosedOpen
    <3> QED BY <1>1, <3>1, HistoryOf, QueueChargeIsExact
  <2>3. PlaceOf(start) = Accounting!Place(cg, ts)
    BY <1>1, PlaceAtStart
  <2> HIDE DEF start
  <2>4. QueuedBy(now)'[k] = [cg |-> cg, place |-> Accounting!Place(cg, ts), added |-> {}]
    BY <1>2, <1>3, <2>1, <2>2, <2>3
  <2>5. \A j \in Keys \ {k} : QueuedBy(now)'[j] = QueuedBy(ts)[j]
    BY <1>2, <2>1 DEF QueuedBy
  <2>6. QueuedBy(now)' = [j \in Keys |-> QueuedBy(now)'[j]]
    BY DEF QueuedBy
  <2>7. QueuedBy(ts) = [j \in Keys |-> QueuedBy(ts)[j]]
    BY DEF QueuedBy
  <2> QED BY <2>4, <2>5, <2>6, <2>7
<1>6. Accounting!LastBy(ts) = CgOfLast(Before(history, ts))
      /\ (IF ts > now THEN NoCg ELSE CgOfLast(ServedAt(now))) = CgOfLast(ServedAt(ts))
      /\ Accounting!ServedBy(ts) = {history[i].cg : i \in ServedAt(ts)}
      /\ Accounting!Until(ts) = QueuedBy(ts)
  BY <1>1, LastPasses, WaitPasses
<1>7. Lead' = Lead
  BY <1>1 DEF Lead
<1> QED BY <1>1, <1>4, <1>5, <1>6, <1>7 DEF Accounting!Enqueue

LEMMA ServiceIsServe ==
  ASSUME IInv, IInv', NEW k \in Keys, NEW cg \in Cgroups, NEW ts \in 0 .. MaxTime,
         HandleService(k, cg, ts)
  PROVE  Accounting!Serve(k, cg, ts)
<1> DEFINE last == Len(history) + 1
<1>1. /\ now <= ts /\ now' = ts /\ ts \in Nat /\ device' = device
      /\ history' = Append(history, [ts |-> ts, cg |-> cg])
      /\ pending' = [pending EXCEPT ![k] = None]
  BY BoundAssumption DEF HandleService, Event
<1>2. \A j \in Keys : pending'[j] = IF j = k THEN None ELSE pending[j]
  BY <1>1 DEF IInv, OrderInv, QueueGood
<1>3. /\ DOMAIN history' = DOMAIN history \cup {last} /\ last \notin DOMAIN history
      /\ \A i \in DOMAIN history : history'[i] = history[i]
      /\ history'[last] = [ts |-> ts, cg |-> cg]
      /\ history' \in Seq(Entry(Cgroups)) /\ InOrder(history')
      /\ DOMAIN history = 1 .. Len(history) /\ Len(history) \in Nat
  BY <1>1, AppendedTo, HistoryOf
<1>4. history'[last].ts = ts /\ history'[last].cg = cg
  BY <1>3
<1> HIDE DEF last
<1>5. ASSUME NEW a \in Nat, a <= ts PROVE Before(history', a) = Before(history, a)
  BY <1>1, <1>3, <1>4, <1>5 DEF Before
<1>6. /\ Accounting!LastBy(ts) = CgOfLast(Before(history, ts))
      /\ Accounting!ServedBy(ts) = {history[i].cg : i \in ServedAt(ts)}
      /\ Accounting!Until(ts) = QueuedBy(ts)
  BY <1>1, LastPasses, WaitPasses
<1>7. ASSUME NEW a \in Nat, a <= ts, Before(history, a) # {}
      PROVE  history'[Max(Before(history, a))] = history[Max(Before(history, a))]
  <2>1. Before(history, a) \subseteq 1 .. Len(history)
    BY <1>3 DEF Before
  <2>2. Max(Before(history, a)) \in DOMAIN history
    BY <1>3, <1>7, <2>1, MaxOfBounded
  <2> QED BY <1>3, <2>2
<1>8. CgOfLast(Before(history, now))' = Accounting!LastBy(ts)
  <2>1. Before(history', now') = Before(history, ts)
    BY <1>1, <1>5
  <2>2. Before(history, ts) # {} =>
          history'[Max(Before(history, ts))] = history[Max(Before(history, ts))]
    <3>1. ts \in Nat /\ ts <= ts
      BY <1>1
    <3> QED BY <3>1, <1>7
  <2> QED BY <1>6, <2>1, <2>2 DEF CgOfLast
<1>9. CgOfLast(ServedAt(now))' = cg
  <2>1. ServedAt(now)' = ServedAt(ts) \cup {last}
    BY <1>1, <1>3, <1>4 DEF ServedAt
  <2>2. ServedAt(now)' \subseteq 1 .. Len(history) + 1 /\ last = Len(history) + 1
    BY <1>3, <2>1 DEF ServedAt, last
  <2>3. Max(ServedAt(now)') = last
    <3>1. PICK S : S = ServedAt(ts) \cup {last}
      OBVIOUS
    <3>2. S \subseteq 1 .. last /\ last \in Nat /\ last \in S
      BY <1>3, <2>1, <2>2, <3>1
    <3>3. Max(S) \in S /\ \A i \in S : i <= Max(S)
      BY <3>2, MaxOfBounded
    <3>4. Max(S) = last
      <4>1. PICK m : m = Max(S)
        OBVIOUS
      <4>2. m \in 1 .. last /\ last <= m
        BY <3>2, <3>3, <4>1
      <4>3. m = last
        BY <3>2, <4>2
      <4> QED BY <4>1, <4>3
    <3> QED BY <2>1, <3>1, <3>4
  <2> QED BY <1>4, <2>1, <2>3 DEF CgOfLast
<1>10. {history[i].cg : i \in ServedAt(now)}' = Accounting!ServedBy(ts) \cup {cg}
  <2>1. ServedAt(now)' = ServedAt(ts) \cup {last}
    BY <1>1, <1>3, <1>4 DEF ServedAt
  <2>2. {history[i].cg : i \in ServedAt(now)}' = {history'[i].cg : i \in ServedAt(now)'}
    OBVIOUS
  <2>3. \A i \in ServedAt(ts) : history'[i].cg = history[i].cg
    BY <1>3 DEF ServedAt
  <2> QED BY <1>4, <1>6, <2>1, <2>2, <2>3
<1>11. queue_waits' = IF QueuedBy(now)[k].place # "none" /\ QueuedBy(now)[k].cg \in Targets
                      THEN [queue_waits EXCEPT ![QueuedBy(now)[k].cg] =
                              @ \cup Accounting!Until(ts)[k].added]
                      ELSE queue_waits
  <2>1. QueuedBy(now)[k].cg = pending[k].cg
    BY DEF QueuedBy
  <2>2. QueuedBy(now)[k].place # "none" <=> pending[k] # None
    BY PlaceIs DEF QueuedBy
  <2>3. pending[k] # None =>
          Accounting!Until(ts)[k].added = QueueCharge(history, pending[k].ts, ts, pending[k].cg)
    BY <1>6 DEF QueuedBy
  <2>4. queue_waits' =
          IF pending[k] # None /\ pending[k].cg \in Targets
          THEN [queue_waits EXCEPT ![pending[k].cg] =
                  @ \cup QueueCharge(history, pending[k].ts, ts, pending[k].cg)]
          ELSE queue_waits
    BY Zenon DEF HandleService
  <2> QED BY <2>1, <2>2, <2>3, <2>4
<1>12. Lead' = Lead
  BY <1>1 DEF Lead
<1>13. ASSUME NEW j \in Keys, j # k
       PROVE  QueuedBy(now)'[j] = Accounting!After(QueuedBy(ts)[j], cg)
  <2> DEFINE p == pending[j]
             a == p.ts
             mine == p.cg
             new == [ts |-> ts, cg |-> cg]
  <2>1. QueuedBy(now)'[j] = [cg |-> mine, place |-> QueuedBy(now)'[j].place,
                             added |-> IF p = None THEN {} ELSE QueueCharge(history', a, ts, mine)]
    BY <1>1, <1>2, <1>12, <1>13 DEF QueuedBy, QueueCharge, None
  <2>2. QueuedBy(ts)[j] = [cg |-> mine, place |-> PlaceOf(p),
                           added |-> IF p = None THEN {} ELSE QueueCharge(history, a, ts, mine)]
    BY DEF QueuedBy
  <2>3. CASE p = None
    <3>1. QueuedBy(now)'[j].place = "none" /\ PlaceOf(p) = "none"
      BY <1>2, <1>13, <2>3, PlaceIs DEF QueuedBy, PlaceOf, None
    <3>2. /\ QueuedBy(now)'[j] = [cg |-> mine, place |-> "none", added |-> {}]
          /\ QueuedBy(ts)[j] = [cg |-> mine, place |-> "none", added |-> {}]
      BY <2>1, <2>2, <2>3, <3>1
    <3> HIDE DEF p, mine
    <3>3. Accounting!After([cg |-> mine, place |-> "none", added |-> {}], cg)
            = [cg |-> mine, place |-> "none", added |-> {}]
      BY DEF Accounting!After
    <3> QED BY <3>2, <3>3, Zenon
  <2>4. CASE p # None
    <3>1. a \in Nat /\ a <= ts /\ now \in Nat
      BY <1>1, <2>4, StartOf, HistoryOf
    <3>2. Foreign(history', a, mine) <=> Foreign(history, a, mine) \/ Charged(new, mine)
      <4>1. a <= history'[last].ts /\ history'[last] = new
        BY <1>3, <1>4, <3>1
      <4> HIDE DEF a, mine, new
      <4> QED BY <1>3, <4>1 DEF Foreign
    <3>3. QueuedBy(now)'[j].place = IF Foreign(history', a, mine) THEN "behind" ELSE "clear"
      <4>1. QueuedBy(now)'[j].place =
              IF Foreign(history', a, mine) THEN "behind"
              ELSE IF /\ Lead' /\ Before(history', a) # {}
                      /\ Charged(history'[Max(Before(history', a))], mine)
                      /\ {i \in DOMAIN history' : history'[i].ts >= a} = {} THEN "lead"
              ELSE "clear"
        <5>1. pending'[j] = p /\ p # None
          BY <1>2, <1>13, <2>4
        <5>2. {i \in {m \in DOMAIN history' : history'[m].ts >= a} : Charged(history'[i], mine)} # {}
                <=> Foreign(history', a, mine)
          BY DEF Foreign
        <5> HIDE DEF p, Foreign
        <5> QED BY <5>1, <5>2 DEF QueuedBy, PlaceOf, None, a, mine
      <4>2. last \in DOMAIN history' /\ history'[last].ts >= a
        BY <1>3, <1>4, <1>1, <3>1
      <4>3. {i \in DOMAIN history' : history'[i].ts >= a} # {}
        BY <4>2
      <4> QED BY <4>1, <4>3
    <3>4. Charged(new, mine) <=> Accounting!Charged(cg, mine)
      <4>1. cg # NoCg
        BY CgroupsAssumption DEF NoCg
      <4>2. new.cg = cg
        OBVIOUS
      <4> HIDE DEF new, mine
      <4> QED BY <4>1, <4>2, SameCharged
    <3>5. QueueCharge(history', a, ts, mine) = QueueCharge(history, a, ts, mine)
      <4>1. QueueCharge(history', a, ts, mine) =
              {q \in ClosedOpen(a, ts) : InCharge(history', a, mine, q)}
        <5>1. PICK h : h = history'
          OBVIOUS
        <5>2. h \in Seq(Entry(Cgroups)) /\ InOrder(h) /\ a \in Nat /\ ts \in Nat
          BY <1>1, <1>3, <3>1, <5>1
        <5> HIDE DEF a, mine
        <5>3. QueueCharge(h, a, ts, mine) = {q \in ClosedOpen(a, ts) : InCharge(h, a, mine, q)}
          BY <5>2, QueueChargeIsExact
        <5> QED BY <5>1, <5>3
      <4>2. QueueCharge(history, a, ts, mine) =
              {q \in ClosedOpen(a, ts) : InCharge(history, a, mine, q)}
        BY <1>1, <3>1, HistoryOf, QueueChargeIsExact
      <4>3. Leads(history', a, mine) <=> Leads(history, a, mine)
        BY <1>5, <1>7, <3>1 DEF Leads
      <4>4. ASSUME NEW q \in ClosedOpen(a, ts)
            PROVE  InCharge(history', a, mine, q) <=> InCharge(history, a, mine, q)
        <5>1. q \in Nat /\ q < ts
          BY <1>1, <3>1 DEF ClosedOpen
        <5>2. ~(history'[last].ts <= q) /\ q < history'[last].ts
          <6>1. ts \in Nat /\ history'[last].ts = ts
            BY <1>1, <1>4
          <6> HIDE DEF a, mine, new
          <6> QED BY <5>1, <6>1
        <5> HIDE DEF a, mine, new
        <5> QED BY <1>3, <4>3, <5>2 DEF InCharge
      <4> QED BY <4>1, <4>2, <4>4
    <3>6. PlaceOf(p) = IF Foreign(history, a, mine) THEN "behind"
                       ELSE IF /\ \A i \in DOMAIN history : ~(history[i].ts >= a)
                               /\ Leads(history, a, mine) THEN "lead"
                       ELSE "clear"
      BY <2>4, PlaceIs
    <3>7. PICK place, added, standing :
            /\ place = PlaceOf(p) /\ added = QueueCharge(history, a, ts, mine)
            /\ standing = QueuedBy(now)'[j].place
      OBVIOUS
    <3>8. standing = IF Accounting!Charged(cg, mine) THEN "behind"
                     ELSE IF place = "lead" THEN "clear" ELSE place
      BY <3>2, <3>3, <3>4, <3>6, <3>7
    <3>9. place \in {"behind", "lead", "clear"}
      BY <3>6, <3>7
    <3>10. /\ QueuedBy(now)'[j] = [cg |-> mine, place |-> standing, added |-> added]
           /\ QueuedBy(ts)[j] = [cg |-> mine, place |-> place, added |-> added]
      BY <2>1, <2>2, <2>4, <3>5, <3>7
    <3> HIDE DEF p, a, mine, new
    <3>11. CASE Accounting!Charged(cg, mine)
      <4>1. standing = "behind"
        BY <3>8, <3>11
      <4>2. Accounting!After([cg |-> mine, place |-> place, added |-> added], cg)
              = [cg |-> mine, place |-> "behind", added |-> added]
        <5>1. place # "none"
          BY <3>9
        <5> QED BY <3>11, <5>1 DEF Accounting!After
      <4> QED BY <3>10, <4>1, <4>2, Zenon
    <3>12. CASE ~Accounting!Charged(cg, mine) /\ place = "lead"
      <4>1. standing = "clear"
        BY <3>8, <3>12
      <4>2. Accounting!After([cg |-> mine, place |-> place, added |-> added], cg)
              = [cg |-> mine, place |-> "clear", added |-> added]
        BY <3>12 DEF Accounting!After
      <4> QED BY <3>10, <4>1, <4>2, Zenon
    <3>13. CASE ~Accounting!Charged(cg, mine) /\ place # "lead"
      <4>1. standing = place
        BY <3>8, <3>13
      <4>2. Accounting!After([cg |-> mine, place |-> place, added |-> added], cg)
              = [cg |-> mine, place |-> place, added |-> added]
        BY <3>9, <3>13 DEF Accounting!After
      <4> QED BY <3>10, <4>1, <4>2, Zenon
    <3> QED BY <3>11, <3>12, <3>13
  <2> QED BY <2>3, <2>4
<1>14. QueuedBy(now)' = [j \in Keys |-> IF j = k THEN Accounting!NotQueued
                                        ELSE Accounting!After(Accounting!Until(ts)[j], cg)]
  <2> SUFFICES ASSUME NEW j \in Keys
               PROVE  QueuedBy(now)'[j] = IF j = k THEN Accounting!NotQueued
                                          ELSE Accounting!After(QueuedBy(ts)[j], cg)
    BY <1>6, Zenon DEF QueuedBy
  <2>1. CASE j = k
    BY <1>2, <2>1 DEF QueuedBy, PlaceOf, Accounting!NotQueued, None, NoCg
  <2>2. CASE j # k
    BY <1>13, <2>2
  <2> QED BY <2>1, <2>2
<1> QED BY <1>1, <1>8, <1>9, <1>10, <1>11, <1>12, <1>14 DEF Accounting!Serve

LEMMA OtherIsPass ==
  ASSUME IInv, NEW ts \in 0 .. MaxTime, OtherEvent(ts)
  PROVE  Accounting!Pass(ts)
<1>1. /\ now <= ts /\ now' = ts /\ ts \in Nat
      /\ history' = history /\ pending' = pending
      /\ queue_waits' = queue_waits /\ device' = device
  BY BoundAssumption DEF OtherEvent, Event
<1>2. /\ CgOfLast(Before(history, now))' = CgOfLast(Before(history, ts))
      /\ CgOfLast(ServedAt(now))' = CgOfLast(ServedAt(ts))
      /\ {history[i].cg : i \in ServedAt(now)}' = {history[i].cg : i \in ServedAt(ts)}
  BY <1>1 DEF CgOfLast, ServedAt
<1>3. QueuedBy(now)' = QueuedBy(ts) /\ Lead' = Lead
  BY <1>1 DEF QueuedBy, PlaceOf, QueueCharge, Lead, None
<1>4. /\ Accounting!LastBy(ts) = CgOfLast(Before(history, ts))
      /\ (IF ts > now THEN NoCg ELSE CgOfLast(ServedAt(now))) = CgOfLast(ServedAt(ts))
      /\ Accounting!ServedBy(ts) = {history[i].cg : i \in ServedAt(ts)}
      /\ Accounting!Until(ts) = QueuedBy(ts)
  BY <1>1, LastPasses, WaitPasses
<1> QED BY <1>1, <1>2, <1>3, <1>4 DEF Accounting!Pass

(* Looking back at the services is as good as keeping account of who       *)
(* stands behind whom, for any number of addresses and cgroups, on the     *)
(* network and on the disk, with attribution and without.                  *)
THEOREM LookingBackIsExact == Spec => ImplementsOccupancy
<1>1. Init => Accounting!Init
  <2> SUFFICES ASSUME Init PROVE Accounting!Init
    OBVIOUS
  <2>1. ServedAt(now) = {} /\ Before(history, now) = {}
    BY DEF Init, ServedAt, Before
  <2>2. QueuedBy(now) = [j \in Keys |-> Accounting!NotQueued]
    BY DEF Init, QueuedBy, PlaceOf, Accounting!NotQueued, None, NoCg
  <2>3. Lead \in BOOLEAN
    BY DEF Lead
  <2> QED BY <2>1, <2>2, <2>3 DEF Init, Accounting!Init, CgOfLast
<1>2. IInv /\ IInv' /\ [Next]_vars => [Accounting!Next]_Accounting!vars
  <2> SUFFICES ASSUME IInv, IInv', [Next]_vars PROVE [Accounting!Next]_Accounting!vars
    OBVIOUS
  <2>1. ASSUME NEW k \in Keys, NEW cg \in Cgroups, NEW ts \in 0 .. MaxTime, HandleStart(k, cg, ts)
        PROVE  Accounting!Next
    <3>1. now' = ts /\ ts \in Nat
      BY <2>1, BoundAssumption DEF HandleStart, Event
    <3>2. Accounting!Enqueue(k, cg, ts)
      BY <2>1, StartIsEnqueue
    <3>3. now' \in Nat /\ \E c \in Cgroups : Accounting!Enqueue(k, c, now')
      BY <3>1, <3>2 DEF Accounting!Enqueue
    <3> QED BY <3>3 DEF Accounting!Next
  <2>2. ASSUME NEW k \in Keys, NEW cg \in Cgroups, NEW ts \in 0 .. MaxTime, HandleService(k, cg, ts)
        PROVE  Accounting!Next
    <3>1. now' = ts /\ ts \in Nat
      BY <2>2, BoundAssumption DEF HandleService, Event
    <3>2. Accounting!Serve(k, cg, ts)
      BY <2>2, ServiceIsServe
    <3>3. now' \in Nat /\ \E c \in Cgroups : Accounting!Serve(k, c, now')
      BY <3>1, <3>2 DEF Accounting!Serve
    <3> QED BY <3>3 DEF Accounting!Next
  <2>3. ASSUME NEW ts \in 0 .. MaxTime, OtherEvent(ts)
        PROVE  Accounting!Next
    <3>1. now' = ts /\ ts \in Nat
      BY <2>3, BoundAssumption DEF OtherEvent, Event
    <3>2. Accounting!Pass(ts)
      BY <2>3, <3>1, OtherIsPass
    <3>3. now' \in Nat /\ Accounting!Pass(now')
      BY <3>1, <3>2 DEF Accounting!Pass
    <3> QED BY <3>3 DEF Accounting!Next
  <2>4. CASE UNCHANGED vars
    BY <2>4 DEF vars, Accounting!vars, Lead, CgOfLast, ServedAt, QueuedBy, PlaceOf, QueueCharge
  <2> QED BY <2>1, <2>2, <2>3, <2>4 DEF Next
<1> QED BY <1>1, <1>2, Invariant, PTL DEF Spec, ImplementsOccupancy, Accounting!Spec
===============================================================================
