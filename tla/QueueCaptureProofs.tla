-------------------------- MODULE QueueCaptureProofs ---------------------------
(***************************************************************************)
(* The socket map keeps to the connections that are alive, and what is     *)
(* taken off a makespan for a queue was queueing behind others: for any    *)
(* number of addresses, sockets and containers, any size of the map and    *)
(* traces of any length.                                                   *)
(***************************************************************************)
EXTENDS QueueCapture, Sequences, FiniteSetTheorems, TLAPS

QW == INSTANCE QueueWaitProofs

SocketType ==
  /\ tracked_sockets \in [Sockets -> Containers \cup {NoCg}]
  /\ socket \in [Sockets -> [open : BOOLEAN, owner : Cgroups \cup {Root, NoCg},
                             sender : Containers \cup {NoCg}, users : SUBSET Cgroups]]

TrackedIsSender ==
  \A s \in Sockets : tracked_sockets[s] # NoCg =>
    socket[s].open /\ tracked_sockets[s] = socket[s].sender

MapInv ==
  /\ SocketType
  /\ TrackedIsSender
  /\ Cardinality(Tracked) <= MaxTracked

LEMMA TrackedIsFinite == IsFiniteSet(Tracked) /\ Cardinality(Tracked) \in Nat
  BY SocketsAssumption, FS_Subset, FS_CardinalityType DEF Tracked

LEMMA MapInit == Init => MapInv
<1> SUFFICES ASSUME Init PROVE MapInv
  OBVIOUS
<1>1. SocketType /\ TrackedIsSender
  BY DEF Init, SocketType, TrackedIsSender
<1>2. Tracked = {}
  BY DEF Init, Tracked
<1> QED BY <1>1, <1>2, FS_EmptySet, BoundAssumption DEF MapInv

(* An entry is added only where there is room.                             *)
LEMMA SendKeepsRoom ==
  ASSUME MapInv, NEW s \in Sockets, NEW g \in Cgroups, tcp_sendmsg_entry(s, g)
  PROVE  Cardinality(Tracked') <= MaxTracked
<1>1. CASE g \in Containers /\ (s \in Tracked \/ Cardinality(Tracked) < MaxTracked)
  <2>1. g # NoCg
    BY <1>1, CgroupsAssumption
  <2>2. Tracked' = Tracked \cup {s}
    BY <1>1, <2>1 DEF tcp_sendmsg_entry, Tracked, MapInv, SocketType
  <2>3. CASE s \in Tracked
    BY <2>2, <2>3 DEF MapInv
  <2>4. CASE s \notin Tracked
    <3>1. Cardinality(Tracked \cup {s}) = Cardinality(Tracked) + 1
      BY <2>4, TrackedIsFinite, FS_AddElement
    <3> QED BY <1>1, <2>2, <2>4, <3>1, TrackedIsFinite, BoundAssumption
  <2> QED BY <2>3, <2>4
<1>2. CASE ~(g \in Containers /\ (s \in Tracked \/ Cardinality(Tracked) < MaxTracked))
  <2>1. Tracked' = Tracked
    BY <1>2 DEF tcp_sendmsg_entry, Tracked
  <2> QED BY <2>1 DEF MapInv
<1> QED BY <1>1, <1>2

LEMMA MapStep == MapInv /\ [Next]_vars => MapInv'
<1> SUFFICES ASSUME MapInv, [Next]_vars PROVE MapInv'
  OBVIOUS
<1>1. ASSUME NEW s \in Sockets, NEW g \in Cgroups \cup {Root}, Open(s, g) PROVE MapInv'
  <2>1. SocketType'
    <3>1. [open |-> TRUE, owner |-> g, sender |-> NoCg, users |-> {g} \ {Root}] \in
            [open : BOOLEAN, owner : Cgroups \cup {Root, NoCg},
             sender : Containers \cup {NoCg}, users : SUBSET Cgroups]
      OBVIOUS
    <3> QED BY <1>1, <3>1 DEF Open, MapInv, SocketType
  <2>2. TrackedIsSender'
    BY <1>1 DEF Open, MapInv, SocketType, TrackedIsSender
  <2>3. Tracked' = Tracked
    BY <1>1 DEF Open, Tracked
  <2> QED BY <2>1, <2>2, <2>3 DEF MapInv
<1>2. ASSUME NEW s \in Sockets, NEW g \in Cgroups, Send(s, g) PROVE MapInv'
  <2>1. SocketType'
    <3>1. (tracked_sockets \in [Sockets -> Containers \cup {NoCg}])'
      BY <1>2 DEF Send, tcp_sendmsg_entry, MapInv, SocketType
    <3>2. PICK owner \in Cgroups \cup {Root, NoCg}, sender \in Containers \cup {NoCg},
               users \in SUBSET Cgroups :
            socket[s].owner = owner /\ socket[s].sender = sender /\ socket[s].users = users
      BY DEF MapInv, SocketType
    <3>3. PICK sender1 \in Containers \cup {NoCg} :
            sender1 = IF g \in Containers THEN g ELSE sender
      OBVIOUS
    <3>4. socket' = [socket EXCEPT ![s] = [open |-> TRUE, owner |-> owner,
                                           users |-> users \cup {g}, sender |-> sender1]]
      BY <1>2, <3>2, <3>3 DEF Send
    <3> QED BY <3>1, <3>4 DEF MapInv, SocketType
  <2>2. TrackedIsSender'
    BY <1>2 DEF Send, tcp_sendmsg_entry, Tracked, MapInv, SocketType, TrackedIsSender
  <2>3. Cardinality(Tracked') <= MaxTracked
    BY <1>2, SendKeepsRoom DEF Send
  <2> QED BY <2>1, <2>2, <2>3 DEF MapInv
<1>3. ASSUME NEW s \in Sockets, Close(s) PROVE MapInv'
  <2>1. SocketType'
    BY <1>3 DEF Close, tcp_close_entry, MapInv, SocketType
  <2>2. TrackedIsSender'
    BY <1>3 DEF Close, tcp_close_entry, MapInv, SocketType, TrackedIsSender
  <2>3. Tracked' \subseteq Tracked
    BY <1>3 DEF Close, tcp_close_entry, MapInv, SocketType, Tracked
  <2>4. Cardinality(Tracked') <= Cardinality(Tracked) /\ Cardinality(Tracked') \in Nat
    BY <2>3, TrackedIsFinite, FS_Subset, FS_CardinalityType
  <2> QED BY <2>1, <2>2, <2>4, TrackedIsFinite, BoundAssumption DEF MapInv
<1>4. ASSUME UNCHANGED <<socket, tracked_sockets>> PROVE MapInv'
  BY <1>4 DEF MapInv, SocketType, TrackedIsSender, Tracked
<1>5. CASE Tick
  BY <1>4, <1>5 DEF Tick, socketVars
<1>6. ASSUME NEW k \in Keys, Serve(k) \/ Vanish(k) PROVE MapInv'
  BY <1>4, <1>6 DEF Serve, Served, Vanish, socketVars
<1>7. ASSUME NEW k \in Keys, NEW item \in Items, Enqueue(k, item) \/ ServeUnqueued(k, item)
      PROVE  MapInv'
  BY <1>4, <1>7 DEF Enqueue, ServeUnqueued, Served, socketVars
<1>8. CASE UNCHANGED vars
  BY <1>4, <1>8 DEF vars, socketVars
<1> QED BY <1>1, <1>2, <1>3, <1>5, <1>6, <1>7, <1>8 DEF Next

(* An entry of the socket map is the container that sent last on a socket  *)
(* that is still open, and the map never overflows: tcp_sendmsg_entry and  *)
(* tcp_close_entry leave nothing behind for the next connection at the     *)
(* same address.                                                           *)
THEOREM MapIsCurrent == Spec => []TrackedIsLastSender
<1>1. MapInv => TrackedIsLastSender
  BY DEF MapInv, TrackedIsSender, TrackedIsLastSender, Tracked
<1> QED BY MapInit, MapStep, <1>1, PTL DEF Spec

-------------------------------------------------------------------------------
(* The queue and the analyzer.                                             *)

(* What is queued is of the device, and what was used on a socket is known *)
(* of it.                                                                  *)
ItemsOf(d) ==
  IF d = "net" THEN {Packet(s) : s \in Sockets} ELSE {Request(g) : g \in Cgroups \cup {Root}}

KernelInv ==
  /\ clock \in 0 .. MaxTime /\ delegated \in BOOLEAN /\ uses \in 0 .. MaxUses
  /\ device \in {"net", "block"}
  /\ queue \in [Keys -> {Free} \cup ItemsOf(device)]

UsersInv ==
  \A s \in Sockets : /\ socket[s].owner \in Cgroups => socket[s].owner \in socket[s].users
                     /\ socket[s].sender # NoCg => socket[s].sender \in socket[s].users

AnalyzerInv == QW!OrderInv /\ now <= clock

(* The start the analyzer holds at an address is the last one recorded     *)
(* there; if its packet or request is still queued, the address is not     *)
(* free.                                                                   *)
StartInv ==
  /\ start \in [Keys -> [at : Nat \cup {-1}, cg : Cgroups \cup {NoCg}, queued : BOOLEAN]]
  /\ \A k \in Keys : /\ pending[k].ts = start[k].at /\ pending[k].cg = start[k].cg
                     /\ queue[k] = Free => ~start[k].queued

TruthInv ==
  /\ queuedFor \in [Targets -> SUBSET Nat] /\ mismatched \in [Targets -> SUBSET Nat]
  /\ firstForeign \in [Targets -> 0 .. Never]
  /\ \A g \in Targets : firstForeign[g] # Never => firstForeign[g] <= clock

(* Every service the analyzer knows of was one of its cgroup's, so that no *)
(* measured cgroup met its first foreign service later.                    *)
ForeignInv ==
  device = "net" \/ delegated =>
    \A i \in DOMAIN history, g \in Targets : history[i].cg # g => firstForeign[g] <= history[i].ts

CaptureInv ==
  /\ MapInv /\ KernelInv /\ UsersInv /\ AnalyzerInv /\ StartInv /\ TruthInv /\ ForeignInv
  /\ ChargedWhileQueued
  /\ ~NoAttribution => ChargedBehindOthers

LEMMA InstanceAssumptions ==
  QW!CgroupsAssumption /\ QW!BoundAssumption /\ QW!AttributionAssumption
  BY CgroupsAssumption, BoundAssumption, AttributionAssumption
     DEF NoCg, QW!CgroupsAssumption, QW!BoundAssumption, QW!AttributionAssumption

LEMMA SameQueueCharge ==
  ASSUME NEW h, NEW a, NEW b, NEW mine
  PROVE  Analyzer!QueueCharge(h, a, b, mine) = QW!QueueCharge(h, a, b, mine)
  BY Zenon DEF Analyzer!LeadSlice, Analyzer!Spans, Analyzer!Before, Analyzer!Charged,
       Analyzer!LeadEnd, Analyzer!Window, Analyzer!ClosedOpen, Analyzer!Min, Analyzer!Max,
       Analyzer!QueueCharge, Analyzer!Lead, QW!QueueCharge, QW!Lead,
       QW!LeadSlice, QW!Spans, QW!Before, QW!Charged, QW!LeadEnd, QW!Window, QW!ClosedOpen,
       QW!Min, QW!Max

LEMMA CaptureInit == Init => CaptureInv
<1> SUFFICES ASSUME Init PROVE CaptureInv
  OBVIOUS
<1>1. MapInv
  BY MapInit
<1>2. /\ device \in {"net", "block"} /\ now = 0 /\ events = 0
      /\ pending = [k \in Keys |-> QW!NoStart] /\ history = <<>>
      /\ queue_waits = [g \in Cgroups |-> {}]
  BY DEF Init, Analyzer!Init, Analyzer!None, QW!NoStart
<1>3. KernelInv
  BY <1>2, BoundAssumption DEF Init, KernelInv
<1>4. UsersInv
  BY CgroupsAssumption DEF Init, UsersInv
<1>5. AnalyzerInv
  BY <1>2, BoundAssumption DEF Init, AnalyzerInv, QW!OrderInv, QW!QueueGood, QW!NoStart, QW!InOrder
<1>6. StartInv
  <2>1. NoStart \in [at : Nat \cup {-1}, cg : Cgroups \cup {NoCg}, queued : BOOLEAN]
    BY DEF NoStart
  <2>2. start = [k \in Keys |-> NoStart]
    BY DEF Init
  <2>3. ASSUME NEW k \in Keys
        PROVE  /\ pending[k].ts = start[k].at /\ pending[k].cg = start[k].cg
               /\ queue[k] = Free => ~start[k].queued
    BY <1>2, <2>2 DEF NoStart, NoCg, QW!NoStart
  <2> QED BY <2>1, <2>2, <2>3 DEF StartInv
<1>7. TruthInv
  BY BoundAssumption DEF Init, TruthInv, Never
<1>8. ForeignInv
  BY <1>2 DEF ForeignInv
<1>9. ChargedWhileQueued /\ ChargedBehindOthers
  BY <1>2, CgroupsAssumption DEF ChargedWhileQueued, ChargedBehindOthers
<1> QED BY <1>1, <1>3, <1>4, <1>5, <1>6, <1>7, <1>8, <1>9 DEF CaptureInv

(* What the socket of a packet tells of its users.                         *)
LEMMA UsersStep == MapInv /\ UsersInv /\ [Next]_vars => UsersInv'
<1> SUFFICES ASSUME MapInv, UsersInv, [Next]_vars PROVE UsersInv'
  OBVIOUS
<1> USE CgroupsAssumption DEF MapInv, SocketType
<1>1. ASSUME NEW s \in Sockets, NEW g \in Cgroups \cup {Root}, Open(s, g) PROVE UsersInv'
  BY <1>1 DEF Open, UsersInv
<1>2. ASSUME NEW s \in Sockets, NEW g \in Cgroups, Send(s, g) PROVE UsersInv'
  <2> DEFINE new == [open |-> TRUE, owner |-> socket[s].owner, users |-> socket[s].users \cup {g},
                     sender |-> IF g \in Containers THEN g ELSE socket[s].sender]
  <2>1. socket' = [socket EXCEPT ![s] = new]
    BY <1>2 DEF Send
  <2>2. /\ new.owner \in Cgroups => new.owner \in new.users
        /\ new.sender # NoCg => new.sender \in new.users
    BY DEF UsersInv
  <2> HIDE DEF new
  <2> QED BY <2>1, <2>2 DEF UsersInv
<1>3. ASSUME NEW s \in Sockets, Close(s) PROVE UsersInv'
  BY <1>3 DEF Close, UsersInv
<1>4. ASSUME UNCHANGED socket PROVE UsersInv'
  BY <1>4 DEF UsersInv
<1>5. CASE Tick
  BY <1>4, <1>5 DEF Tick, socketVars
<1>6. ASSUME NEW k \in Keys, Serve(k) \/ Vanish(k) PROVE UsersInv'
  BY <1>4, <1>6 DEF Serve, Served, Vanish, socketVars
<1>7. ASSUME NEW k \in Keys, NEW item \in Items, Enqueue(k, item) \/ ServeUnqueued(k, item)
      PROVE  UsersInv'
  BY <1>4, <1>7 DEF Enqueue, ServeUnqueued, Served, socketVars
<1>8. CASE UNCHANGED vars
  BY <1>4, <1>8 DEF vars, socketVars
<1> QED BY <1>1, <1>2, <1>3, <1>5, <1>6, <1>7, <1>8 DEF Next

(* A recorded service is one of a cgroup that used what is served, or, of  *)
(* a request of root's, of one whose user is nobody measured.              *)
LEMMA RecordedIsUser ==
  ASSUME MapInv, UsersInv, device \in {"net", "block"}, device = "net" \/ delegated,
         NEW k \in Keys, NEW item \in ItemsOf(device), NEW g \in Cgroups \cup {Root},
         AtService(k, item, g), Recorded(g), NEW h \in Targets, g # h
  PROVE  ~(UsersOf(item) \subseteq {h})
<1> USE CgroupsAssumption
<1>1. g \in Cgroups /\ g # NoCg
  BY DEF Recorded
<1>2. CASE device = "net"
  <2>1. PICK s \in Sockets : item = Packet(s)
    BY <1>2 DEF ItemsOf
  <2>2. item.sk = s /\ UsersOf(item) = socket[s].users
    BY <1>2, <2>1 DEF Packet, UsersOf
  <2>3. g = SocketCgroup(s)
    BY <1>2, <2>2 DEF AtService, handle_net_dev_start_xmit
  <2>4. CASE s \in Tracked
    BY <1>1, <2>2, <2>3, <2>4 DEF SocketCgroup, Tracked, MapInv, TrackedIsSender, UsersInv
  <2>5. CASE s \notin Tracked
    BY <1>1, <2>2, <2>3, <2>5 DEF SocketCgroup, UsersInv
  <2> QED BY <2>4, <2>5
<1>3. CASE device = "block"
  <2>1. PICK o \in Cgroups \cup {Root} : item = Request(o)
    BY <1>3 DEF ItemsOf
  <2>2. item.cg = o /\ UsersOf(item) = {o} /\ delegated
    BY <1>3, <2>1 DEF Request, UsersOf
  <2>3. g \in RequestCgroups(o)
    BY <1>3, <2>2 DEF AtService, handle_block_rq_issue
  <2>4. CASE o = Root
    BY <2>2, <2>4
  <2>5. CASE o # Root
    <3>1. o > Root
      BY <2>5 DEF Root, NoCg
    <3> QED BY <2>2, <2>3, <3>1 DEF RequestCgroups
  <2> QED BY <2>4, <2>5
<1> QED BY <1>2, <1>3

-------------------------------------------------------------------------------
(* The handlers of the analyzer are those of QueueWaitProofs.              *)

LEMMA HandleStartKeeps ==
  ASSUME QW!OrderInv, NEW k \in Keys, NEW g \in Cgroups, NEW ts \in 0 .. MaxTime,
         Analyzer!HandleStart(k, g, ts)
  PROVE  /\ QW!OrderInv' /\ now <= ts /\ now' = ts /\ QW!KeepsQueue
         /\ pending' = [pending EXCEPT ![k] = [ts |-> ts, cg |-> g]]
<1>1. QW!HandleStart(k, g, ts)
  BY DEF Analyzer!HandleStart, Analyzer!Event, QW!HandleStart, QW!Event
<1> QED BY <1>1, QW!HandleStartKeeps, InstanceAssumptions

LEMMA HandleServiceKeeps ==
  ASSUME QW!OrderInv, NEW k \in Keys, NEW g \in Cgroups, NEW ts \in 0 .. MaxTime,
         Analyzer!HandleService(k, g, ts)
  PROVE  /\ QW!OrderInv' /\ now <= ts /\ now' = ts /\ UNCHANGED device
         /\ pending' = [pending EXCEPT ![k] = QW!NoStart]
         /\ history' = Append(history, [ts |-> ts, cg |-> g])
         /\ \E charge : QW!ServiceCharges(k, ts, charge)
<1>1. QW!HandleService(k, g, ts)
  BY SameQueueCharge, Zenon DEF Analyzer!HandleService, Analyzer!Event, Analyzer!None,
     QW!HandleService, QW!Event, QW!None
<1> QED BY <1>1, QW!HandleServiceKeeps, InstanceAssumptions

-------------------------------------------------------------------------------
(* The programs call the handlers, at the present.                         *)

LEMMA StartRecords ==
  ASSUME AnalyzerInv, clock \in 0 .. MaxTime, UNCHANGED clock,
         NEW k \in Keys, NEW g \in Cgroups \cup {Root}, RecordStart(k, g)
  PROVE  /\ AnalyzerInv' /\ QW!KeepsQueue
         /\ pending' = IF Recorded(g) THEN [pending EXCEPT ![k] = [ts |-> clock, cg |-> g]]
                       ELSE pending
<1>1. CASE Recorded(g)
  <2>1. g \in Cgroups
    BY <1>1, CgroupsAssumption DEF Recorded
  <2>2. PICK ts \in 0 .. MaxTime : ts = clock
    OBVIOUS
  <2>3. Analyzer!HandleStart(k, g, ts)
    BY <1>1, <2>2 DEF RecordStart
  <2>4. /\ QW!OrderInv' /\ now' = ts /\ QW!KeepsQueue
        /\ pending' = [pending EXCEPT ![k] = [ts |-> ts, cg |-> g]]
    BY <2>1, <2>3, HandleStartKeeps DEF AnalyzerInv
  <2> QED BY <1>1, <2>2, <2>4, BoundAssumption DEF AnalyzerInv
<1>2. CASE ~Recorded(g)
  <2>1. UNCHANGED analyzerVars
    BY <1>2 DEF RecordStart
  <2> QED BY <1>2, <2>1
      DEF AnalyzerInv, QW!OrderInv, QW!QueueGood, QW!InOrder, QW!KeepsQueue, analyzerVars
<1> QED BY <1>1, <1>2

LEMMA ServiceRecords ==
  ASSUME AnalyzerInv, clock \in 0 .. MaxTime, UNCHANGED clock,
         NEW k \in Keys, NEW g \in Cgroups, Recorded(g), RecordService(k, g)
  PROVE  /\ AnalyzerInv' /\ UNCHANGED device
         /\ pending' = [pending EXCEPT ![k] = QW!NoStart]
         /\ history' = Append(history, [ts |-> clock, cg |-> g])
         /\ \E charge : QW!ServiceCharges(k, clock, charge)
<1>1. PICK ts \in 0 .. MaxTime : ts = clock
  OBVIOUS
<1>2. Analyzer!HandleService(k, g, ts)
  BY <1>1 DEF RecordService
<1>3. /\ QW!OrderInv' /\ now' = ts /\ UNCHANGED device
      /\ pending' = [pending EXCEPT ![k] = QW!NoStart]
      /\ history' = Append(history, [ts |-> ts, cg |-> g])
      /\ \E charge : QW!ServiceCharges(k, ts, charge)
  BY <1>2, HandleServiceKeeps DEF AnalyzerInv
<1> QED BY <1>1, <1>3, BoundAssumption DEF AnalyzerInv

-------------------------------------------------------------------------------
(* The steps.                                                              *)

LEMMA TargetFacts ==
  ASSUME AnalyzerInv, StartInv, NEW k \in Keys
  PROVE  /\ Targets \subseteq Cgroups /\ NoCg \notin Targets
         /\ start[k].cg \in Targets => start[k].at \in Nat
         /\ start[k].at # -1 => start[k] # NoStart
<1>1. Targets \subseteq Cgroups /\ NoCg \notin Targets
  BY CgroupsAssumption
<1>2. pending[k].ts = start[k].at /\ pending[k].cg = start[k].cg
  BY DEF StartInv
<1>3. pending[k] \in QW!Entry(Cgroups) \cup {QW!NoStart}
  BY DEF AnalyzerInv, QW!OrderInv, QW!QueueGood
<1>4. start[k].cg \in Targets => start[k].at \in Nat
  BY <1>1, <1>2, <1>3 DEF QW!Entry, QW!NoStart, NoCg
<1>5. start[k].at # -1 => start[k] # NoStart
  BY DEF NoStart
<1> QED BY <1>1, <1>4, <1>5

(* The time goes on, or a socket is used: nothing else.                    *)
LEMMA QuietStep ==
  ASSUME CaptureInv, MapInv', UsersInv', clock' \in 0 .. MaxTime, clock <= clock',
         uses' \in 0 .. MaxUses, UNCHANGED <<delegated, queue, analyzerVars, truthVars>>
  PROVE  CaptureInv'
<1>1. UNCHANGED <<device, now, events, pending, history, queue_waits,
                  start, queuedFor, mismatched, firstForeign>>
  BY DEF analyzerVars, truthVars
<1>2. now \in Nat /\ clock \in Nat /\ clock' \in Nat /\ clock <= clock'
  BY BoundAssumption DEF CaptureInv, KernelInv, AnalyzerInv, QW!OrderInv
<1>3. KernelInv'
  BY <1>1 DEF CaptureInv, KernelInv, ItemsOf
<1>4. AnalyzerInv'
  BY <1>1, <1>2 DEF CaptureInv, AnalyzerInv, QW!OrderInv, QW!QueueGood, QW!InOrder
<1>5. StartInv'
  BY <1>1 DEF CaptureInv, StartInv
<1>6. TruthInv'
  <2>1. \A g \in Targets : firstForeign[g] \in Int
    BY BoundAssumption DEF CaptureInv, TruthInv, Never
  <2> QED BY <1>1, <1>2, <2>1 DEF CaptureInv, TruthInv
<1>7. ForeignInv' /\ ChargedWhileQueued' /\ (~NoAttribution => ChargedBehindOthers')
  BY <1>1 DEF CaptureInv, ForeignInv, ChargedWhileQueued, ChargedBehindOthers
<1> QED BY <1>3, <1>4, <1>5, <1>6, <1>7 DEF CaptureInv

(* The instants of a queued start are taken down when it is over.          *)
TakenDown(k) ==
  /\ queuedFor' \in [Targets -> SUBSET Nat]
  /\ \A g \in Targets : queuedFor[g] \subseteq queuedFor'[g]
  /\ start[k].queued /\ start[k].cg \in Targets =>
       start[k].at .. clock - 1 \subseteq queuedFor'[start[k].cg]

LEMMA LeaveTakesDown ==
  ASSUME CaptureInv, NEW k \in Keys, Leave(k)
  PROVE  TakenDown(k)
<1>1. queuedFor \in [Targets -> SUBSET Nat] /\ clock \in Nat
  BY BoundAssumption DEF CaptureInv, TruthInv, KernelInv
<1>2. start[k].cg \in Targets => start[k].at \in Nat
  BY TargetFacts DEF CaptureInv
<1> DEFINE wait == start[k].at .. clock - 1
<1>3. start[k].cg \in Targets => wait \subseteq Nat
  BY <1>1, <1>2
<1>4. queuedFor' = IF start[k].queued /\ start[k].cg \in Targets
                   THEN [queuedFor EXCEPT ![start[k].cg] = @ \cup wait] ELSE queuedFor
  BY DEF Leave, Charge
<1> HIDE DEF wait
<1>5. CASE start[k].queued /\ start[k].cg \in Targets
  <2>1. queuedFor' = [queuedFor EXCEPT ![start[k].cg] = @ \cup wait]
    BY <1>4, <1>5
  <2> QED BY <1>1, <1>3, <1>5, <2>1 DEF TakenDown, wait
<1>6. CASE ~(start[k].queued /\ start[k].cg \in Targets)
  BY <1>1, <1>4, <1>6 DEF TakenDown
<1> QED BY <1>5, <1>6

(* A start is no longer that of something queued.                          *)
LEMMA NoLongerQueued ==
  ASSUME CaptureInv, NEW k \in Keys, UNCHANGED pending, queue' = [queue EXCEPT ![k] = Free],
         start' = [start EXCEPT ![k] = [@ EXCEPT !.queued = FALSE]]
  PROVE  StartInv'
<1> DEFINE old == start[k]
           new == [old EXCEPT !.queued = FALSE]
<1>1. start \in [Keys -> [at : Nat \cup {-1}, cg : Cgroups \cup {NoCg}, queued : BOOLEAN]]
  BY DEF CaptureInv, StartInv
<1>2. /\ new \in [at : Nat \cup {-1}, cg : Cgroups \cup {NoCg}, queued : BOOLEAN]
      /\ new.at = old.at /\ new.cg = old.cg /\ ~new.queued
  BY <1>1
<1>3. start' = [start EXCEPT ![k] = new]
  BY Zenon
<1>4. \A j \in Keys \ {k} : queue'[j] = queue[j]
  BY DEF CaptureInv, KernelInv
<1> HIDE DEF new
<1>5. start' \in [Keys -> [at : Nat \cup {-1}, cg : Cgroups \cup {NoCg}, queued : BOOLEAN]]
  BY <1>1, <1>2, <1>3
<1>6. ASSUME NEW j \in Keys
      PROVE  /\ pending'[j].ts = start'[j].at /\ pending'[j].cg = start'[j].cg
             /\ queue'[j] = Free => ~start'[j].queued
  <2>1. /\ pending[j].ts = start[j].at /\ pending[j].cg = start[j].cg
        /\ queue[j] = Free => ~start[j].queued
    BY DEF CaptureInv, StartInv
  <2>2. CASE j = k
    <3>1. start'[j] = new
      BY <1>1, <1>3, <2>2
    <3> QED BY <1>2, <2>1, <2>2, <3>1
  <2>3. CASE j # k
    <3>1. start'[j] = start[j] /\ queue'[j] = queue[j]
      BY <1>1, <1>3, <1>4, <2>3
    <3> QED BY <2>1, <3>1
  <2> QED BY <2>2, <2>3
<1> QED BY <1>5, <1>6 DEF StartInv

LEMMA VanishKeeps ==
  ASSUME CaptureInv, MapInv', UsersInv', NEW k \in Keys, Vanish(k)
  PROVE  CaptureInv'
<1>1. /\ UNCHANGED <<device, now, events, pending, history, queue_waits, clock, delegated, uses,
                     mismatched, firstForeign>>
      /\ queue' = [queue EXCEPT ![k] = Free] /\ start' = [start EXCEPT ![k].queued = FALSE]
  BY DEF Vanish, analyzerVars, socketVars
<1>2. TakenDown(k)
  BY LeaveTakesDown DEF Vanish
<1>3. KernelInv'
  BY <1>1 DEF CaptureInv, KernelInv, ItemsOf
<1>4. AnalyzerInv'
  BY <1>1 DEF CaptureInv, AnalyzerInv, QW!OrderInv, QW!QueueGood, QW!InOrder
<1>5. StartInv'
  <2>1. start' = [start EXCEPT ![k] = [@ EXCEPT !.queued = FALSE]]
    BY <1>1, Zenon
  <2> QED BY <1>1, <2>1, NoLongerQueued
<1>6. TruthInv' /\ ForeignInv'
  BY <1>1, <1>2 DEF CaptureInv, TruthInv, ForeignInv, TakenDown
<1>7. ChargedWhileQueued' /\ (~NoAttribution => ChargedBehindOthers')
  BY <1>1, <1>2 DEF CaptureInv, ChargedWhileQueued, ChargedBehindOthers, TakenDown
<1> QED BY <1>3, <1>4, <1>5, <1>6, <1>7 DEF CaptureInv

LEMMA EnqueueKeeps ==
  ASSUME CaptureInv, MapInv', UsersInv', NEW k \in Keys, NEW item \in Items, Enqueue(k, item)
  PROVE  CaptureInv'
<1>1. PICK g \in Cgroups \cup {Root} :
        /\ AtStart(k, item, g)
        /\ start' = IF Recorded(g)
                    THEN [start EXCEPT ![k] = [at |-> clock, cg |-> g, queued |-> TRUE]]
                    ELSE start
  BY DEF Enqueue
<1>2. /\ UNCHANGED <<clock, delegated, uses, queuedFor, mismatched, firstForeign>>
      /\ queue[k] = Free /\ queue' = [queue EXCEPT ![k] = item]
  BY DEF Enqueue, socketVars
<1>3. RecordStart(k, g)
  BY <1>1 DEF AtStart, handle_net_dev_queue, handle_block_rq_insert
<1>4. /\ AnalyzerInv' /\ UNCHANGED <<device, history, queue_waits>>
      /\ pending' = IF Recorded(g) THEN [pending EXCEPT ![k] = [ts |-> clock, cg |-> g]]
                    ELSE pending
  BY <1>2, <1>3, StartRecords DEF CaptureInv, KernelInv, QW!KeepsQueue
<1>5. item \in ItemsOf(device) /\ item # Free
  BY SocketsAssumption, CgroupsAssumption
  DEF Items, ItemsOf, Packet, Request, Free, NoCg, Root
<1>6. KernelInv'
  BY <1>2, <1>4, <1>5 DEF CaptureInv, KernelInv, ItemsOf
<1>7. StartInv'
  <2>1. CASE Recorded(g)
    <3> DEFINE new == [at |-> clock, cg |-> g, queued |-> TRUE]
               begun == [ts |-> clock, cg |-> g]
    <3>1. clock \in Nat /\ g \in Cgroups
      BY <2>1, BoundAssumption, CgroupsAssumption DEF CaptureInv, KernelInv, Recorded
    <3>2. new \in [at : Nat \cup {-1}, cg : Cgroups \cup {NoCg}, queued : BOOLEAN]
      BY <3>1
    <3>3. new.at = begun.ts /\ new.cg = begun.cg
      OBVIOUS
    <3>4. start' = [start EXCEPT ![k] = new] /\ pending' = [pending EXCEPT ![k] = begun]
      BY <1>1, <1>4, <2>1
    <3>5. pending \in [Keys -> QW!Entry(Cgroups) \cup {QW!NoStart}]
      BY DEF CaptureInv, AnalyzerInv, QW!OrderInv, QW!QueueGood
    <3>6. queue'[k] # Free /\ \A j \in Keys \ {k} : queue'[j] = queue[j]
      BY <1>2, <1>5 DEF CaptureInv, KernelInv
    <3> HIDE DEF new, begun
    <3> QED BY <3>2, <3>3, <3>4, <3>5, <3>6 DEF CaptureInv, StartInv
  <2>2. CASE ~Recorded(g)
    BY <1>1, <1>2, <1>4, <1>5, <2>2 DEF CaptureInv, KernelInv, StartInv
  <2> QED BY <2>1, <2>2
<1>8. TruthInv' /\ ForeignInv'
  BY <1>2, <1>4 DEF CaptureInv, TruthInv, ForeignInv
<1>9. ChargedWhileQueued' /\ (~NoAttribution => ChargedBehindOthers')
  BY <1>2, <1>4 DEF CaptureInv, ChargedWhileQueued, ChargedBehindOthers
<1> QED BY <1>4, <1>6, <1>7, <1>8, <1>9 DEF CaptureInv

(* The first foreign service, which is never moved to a later instant.     *)
FirstStays(item) ==
  /\ firstForeign' \in [Targets -> 0 .. Never]
  /\ \A h \in Targets :
       /\ firstForeign'[h] <= firstForeign[h]
       /\ firstForeign'[h] # Never => firstForeign'[h] <= clock
       /\ ~(UsersOf(item) \subseteq {h}) => firstForeign'[h] <= clock

LEMMA ServedFirst ==
  ASSUME CaptureInv, NEW k \in Keys, NEW item, Served(k, item)
  PROVE  FirstStays(item)
<1>1. firstForeign' =
        [h \in Targets |-> IF UsersOf(item) \subseteq {h} \/ firstForeign[h] # Never
                           THEN firstForeign[h] ELSE clock]
  BY DEF Served
<1>2. /\ clock \in 0 .. MaxTime /\ firstForeign \in [Targets -> 0 .. Never]
      /\ \A h \in Targets : firstForeign[h] # Never => firstForeign[h] <= clock
  BY DEF CaptureInv, KernelInv, TruthInv
<1>3. clock \in 0 .. Never /\ clock < Never /\ Never \in Nat
  BY <1>2, BoundAssumption DEF Never
<1>4. firstForeign' \in [Targets -> 0 .. Never]
  BY <1>1, <1>2, <1>3
<1>5. ASSUME NEW h \in Targets
      PROVE  /\ firstForeign'[h] <= firstForeign[h]
             /\ firstForeign'[h] # Never => firstForeign'[h] <= clock
             /\ ~(UsersOf(item) \subseteq {h}) => firstForeign'[h] <= clock
  <2>1. firstForeign[h] \in 0 .. Never
    BY <1>2
  <2>2. CASE UsersOf(item) \subseteq {h} \/ firstForeign[h] # Never
    BY <1>1, <1>2, <1>3, <2>1, <2>2
  <2>3. CASE ~(UsersOf(item) \subseteq {h} \/ firstForeign[h] # Never)
    BY <1>1, <1>2, <1>3, <2>1, <2>3
  <2> QED BY <2>2, <2>3
<1> QED BY <1>4, <1>5 DEF FirstStays

(* A recorded service.                                                     *)
LEMMA RecordedServiceKeeps ==
  ASSUME CaptureInv, MapInv', UsersInv', NEW k \in Keys, NEW item \in ItemsOf(device),
         TakenDown(k), FirstStays(item), queue' = [queue EXCEPT ![k] = Free],
         UNCHANGED <<clock, delegated, uses>>,
         NEW g \in Cgroups, Recorded(g), AtService(k, item, g), start' = [start EXCEPT ![k] = NoStart],
         mismatched' = IF start[k] # NoStart /\ ~start[k].queued
                       THEN Charge(mismatched, start[k].cg, start[k].at .. clock - 1)
                       ELSE mismatched
  PROVE  CaptureInv'
<1> DEFINE mine == start[k].cg
           wait == start[k].at .. clock - 1
<1>1. clock \in 0 .. MaxTime /\ clock \in Nat
  BY BoundAssumption DEF CaptureInv, KernelInv
<1>2. RecordService(k, g)
  BY DEF AtService, handle_net_dev_start_xmit, handle_block_rq_issue
<1>3. /\ AnalyzerInv' /\ UNCHANGED device
      /\ pending' = [pending EXCEPT ![k] = QW!NoStart]
      /\ history' = Append(history, [ts |-> clock, cg |-> g])
      /\ \E charge : QW!ServiceCharges(k, clock, charge)
  BY <1>1, <1>2, ServiceRecords DEF CaptureInv
<1>4. /\ Targets \subseteq Cgroups /\ NoCg \notin Targets
      /\ mine \in Targets => start[k].at \in Nat /\ start[k] # NoStart /\ wait \subseteq Nat
  BY <1>1, TargetFacts DEF CaptureInv
<1>5. pending[k].ts = start[k].at /\ pending[k].cg = mine
  BY DEF CaptureInv, StartInv
<1>6. KernelInv'
  BY <1>3 DEF CaptureInv, KernelInv, ItemsOf
<1>7. StartInv'
  <2>1. NoStart \in [at : Nat \cup {-1}, cg : Cgroups \cup {NoCg}, queued : BOOLEAN]
    BY DEF NoStart
  <2>2. NoStart.at = QW!NoStart.ts /\ NoStart.cg = QW!NoStart.cg /\ ~NoStart.queued
    BY DEF NoStart, NoCg, QW!NoStart
  <2>3. /\ start \in [Keys -> [at : Nat \cup {-1}, cg : Cgroups \cup {NoCg}, queued : BOOLEAN]]
        /\ pending \in [Keys -> QW!Entry(Cgroups) \cup {QW!NoStart}]
        /\ queue \in [Keys -> {Free} \cup ItemsOf(device)]
    BY DEF CaptureInv, StartInv, KernelInv, AnalyzerInv, QW!OrderInv, QW!QueueGood
  <2>4. start' \in [Keys -> [at : Nat \cup {-1}, cg : Cgroups \cup {NoCg}, queued : BOOLEAN]]
    BY <2>1, <2>3
  <2>5. ASSUME NEW j \in Keys
        PROVE  /\ pending'[j].ts = start'[j].at /\ pending'[j].cg = start'[j].cg
               /\ queue'[j] = Free => ~start'[j].queued
    <3>1. CASE j = k
      <4>1. start'[j] = NoStart /\ pending'[j] = QW!NoStart
        BY <1>3, <2>3, <3>1
      <4> QED BY <2>2, <4>1
    <3>2. CASE j # k
      <4>1. start'[j] = start[j] /\ pending'[j] = pending[j] /\ queue'[j] = queue[j]
        BY <1>3, <2>3, <3>2
      <4> QED BY <4>1 DEF CaptureInv, StartInv
    <3> QED BY <3>1, <3>2
  <2> QED BY <2>4, <2>5 DEF StartInv
<1>8. /\ mismatched' \in [Targets -> SUBSET Nat]
      /\ \A h \in Targets : mismatched[h] \subseteq mismatched'[h]
      /\ mine \in Targets /\ ~start[k].queued => wait \subseteq mismatched'[mine]
  <2>1. mismatched \in [Targets -> SUBSET Nat]
    BY DEF CaptureInv, TruthInv
  <2>2. CASE mine \in Targets /\ ~start[k].queued
    <3>1. mismatched' = [mismatched EXCEPT ![mine] = @ \cup wait]
      BY <1>4, <2>2 DEF Charge
    <3> HIDE DEF wait
    <3> QED BY <1>4, <2>1, <2>2, <3>1
  <2>3. CASE ~(mine \in Targets /\ ~start[k].queued)
    <3>1. mismatched' = mismatched
      BY <2>3 DEF Charge
    <3> QED BY <2>1, <2>3, <3>1
  <2> QED BY <2>2, <2>3
<1>9. TruthInv'
  BY <1>8 DEF TruthInv, TakenDown, FirstStays
<1>10. /\ \A i \in DOMAIN history' : history'[i] = [ts |-> clock, cg |-> g]
                                     \/ (i \in DOMAIN history /\ history'[i] = history[i])
       /\ \A i \in DOMAIN history : history[i].ts \in Nat
       /\ queue_waits \in [Cgroups -> SUBSET Nat]
       /\ \A h \in Targets : firstForeign[h] \in Int /\ firstForeign'[h] \in Int
                             /\ firstForeign'[h] <= firstForeign[h]
  <2>1. /\ history \in Seq(QW!Entry(Cgroups)) /\ QW!InOrder(history)
        /\ queue_waits \in [Cgroups -> SUBSET Nat]
    BY DEF CaptureInv, AnalyzerInv, QW!OrderInv, QW!QueueGood
  <2>2. \A i \in DOMAIN history : history[i].ts \in Nat
    BY <2>1, QW!HistoryFacts, InstanceAssumptions
  <2>3. \A i \in DOMAIN history' : history'[i] = [ts |-> clock, cg |-> g]
                                   \/ (i \in DOMAIN history /\ history'[i] = history[i])
    BY <1>3, <2>1
  <2>4. \A h \in Targets : firstForeign[h] \in Int /\ firstForeign'[h] \in Int
                           /\ firstForeign'[h] <= firstForeign[h]
    BY BoundAssumption DEF CaptureInv, TruthInv, FirstStays, Never
  <2> QED BY <2>1, <2>2, <2>3, <2>4
<1>11. ForeignInv'
  <2> SUFFICES ASSUME device = "net" \/ delegated, NEW i \in DOMAIN history', NEW h \in Targets,
                      history'[i].cg # h
               PROVE  firstForeign'[h] <= history'[i].ts
    BY <1>3 DEF ForeignInv
  <2>1. CASE history'[i] = [ts |-> clock, cg |-> g]
    <3>1. g # h /\ history'[i].ts = clock
      BY <2>1
    <3>2. ~(UsersOf(item) \subseteq {h})
      BY <3>1, RecordedIsUser DEF CaptureInv, KernelInv
    <3> QED BY <3>1, <3>2 DEF FirstStays
  <2>2. CASE i \in DOMAIN history /\ history'[i] = history[i]
    <3>1. firstForeign[h] <= history[i].ts
      BY <2>2 DEF CaptureInv, ForeignInv
    <3> QED BY <1>10, <2>2, <3>1
  <2> QED BY <1>10, <2>1, <2>2
<1>12. PICK charge : QW!ServiceCharges(k, clock, charge)
  BY <1>3
<1>13. ASSUME NEW h \in Targets, NEW p \in queue_waits'[h], p \notin queue_waits[h]
       PROVE  /\ h = mine /\ p \in wait /\ p \in Nat
              /\ \E i \in DOMAIN history : history[i].ts <= p /\ QW!Charged(history[i], h)
  <2> DEFINE matched == pending[k] # QW!NoStart /\ mine \in Targets
  <2>1. queue_waits' = IF matched THEN [queue_waits EXCEPT ![mine] = @ \cup charge] ELSE queue_waits
    BY <1>5, <1>12 DEF QW!ServiceCharges
  <2>2. matched
    BY <1>13, <2>1
  <2>3. h = mine /\ p \in charge
    BY <1>4, <1>10, <1>13, <2>1, <2>2
  <2>4. /\ charge \subseteq QW!ClosedOpen(start[k].at, clock)
        /\ \A q \in charge : \E i \in DOMAIN history :
             history[i].ts <= q /\ QW!Charged(history[i], mine)
    BY <1>5, <1>12, <2>2 DEF QW!ServiceCharges
  <2> QED BY <1>4, <2>2, <2>3, <2>4 DEF QW!ClosedOpen
<1>14. ChargedWhileQueued'
  <2> SUFFICES ASSUME NEW h \in Targets, NEW p \in queue_waits'[h]
               PROVE  p \in queuedFor'[h] \cup mismatched'[h]
    BY DEF ChargedWhileQueued
  <2>1. CASE p \in queue_waits[h]
    BY <1>8, <2>1 DEF CaptureInv, ChargedWhileQueued, TakenDown
  <2>2. CASE p \notin queue_waits[h]
    <3>1. h = mine /\ p \in wait
      BY <1>13, <2>2
    <3> HIDE DEF wait
    <3>2. CASE start[k].queued
      BY <3>1, <3>2 DEF TakenDown, wait
    <3>3. CASE ~start[k].queued
      BY <1>8, <3>1, <3>3
    <3> QED BY <3>2, <3>3
  <2> QED BY <2>1, <2>2
<1>15. ~NoAttribution => ChargedBehindOthers'
  <2> SUFFICES ASSUME ~NoAttribution, device = "net" \/ delegated,
                      NEW h \in Targets, NEW p \in queue_waits'[h]
               PROVE  firstForeign'[h] <= p
    BY <1>3 DEF ChargedBehindOthers
  <2>1. CASE p \in queue_waits[h]
    <3>1. firstForeign[h] <= p /\ p \in Nat
      BY <1>4, <1>10, <2>1 DEF CaptureInv, ChargedBehindOthers
    <3> QED BY <1>10, <3>1
  <2>2. CASE p \notin queue_waits[h]
    <3>1. PICK i \in DOMAIN history : history[i].ts <= p /\ QW!Charged(history[i], h)
      BY <1>13, <2>2
    <3>2. p \in Nat
      BY <1>13, <2>2
    <3>3. history[i].cg # h
      BY <3>1 DEF QW!Charged
    <3>4. firstForeign[h] <= history[i].ts
      BY <3>3 DEF CaptureInv, ForeignInv
    <3> QED BY <1>10, <3>1, <3>2, <3>4
  <2> QED BY <2>1, <2>2
<1> QED BY <1>3, <1>6, <1>7, <1>9, <1>11, <1>14, <1>15 DEF CaptureInv

LEMMA ServedKeeps ==
  ASSUME CaptureInv, MapInv', UsersInv', NEW k \in Keys, NEW item \in ItemsOf(device),
         TakenDown(k), queue' = [queue EXCEPT ![k] = Free], Served(k, item)
  PROVE  CaptureInv'
<1>1. PICK g \in Cgroups \cup {Root} :
        /\ AtService(k, item, g)
        /\ start' = [start EXCEPT ![k] = IF Recorded(g) THEN NoStart ELSE [@ EXCEPT !.queued = FALSE]]
        /\ mismatched' = IF Recorded(g) /\ start[k] # NoStart /\ ~start[k].queued
                         THEN Charge(mismatched, start[k].cg, start[k].at .. clock - 1)
                         ELSE mismatched
  BY Zenon DEF Served
<1>2. FirstStays(item)
  BY ServedFirst
<1>3. UNCHANGED <<clock, delegated, uses>>
  BY DEF Served, socketVars
<1>4. CASE Recorded(g)
  <2>1. g \in Cgroups
    BY <1>4, CgroupsAssumption DEF Recorded
  <2>2. start' = [start EXCEPT ![k] = NoStart]
    BY <1>1, <1>4
  <2>3. mismatched' = IF start[k] # NoStart /\ ~start[k].queued
                      THEN Charge(mismatched, start[k].cg, start[k].at .. clock - 1)
                      ELSE mismatched
    BY <1>1, <1>4
  <2> QED BY <1>1, <1>2, <1>3, <1>4, <2>1, <2>2, <2>3, RecordedServiceKeeps
<1>5. CASE ~Recorded(g)
  <2>1. UNCHANGED <<device, now, events, pending, history, queue_waits, mismatched>>
    BY <1>1, <1>5 DEF AtService, handle_net_dev_start_xmit, handle_block_rq_issue, RecordService,
       analyzerVars
  <2>2. start' = [start EXCEPT ![k] = [@ EXCEPT !.queued = FALSE]]
    BY <1>1, <1>5, Zenon
  <2>3. KernelInv'
    BY <1>3, <2>1 DEF CaptureInv, KernelInv, ItemsOf
  <2>4. AnalyzerInv'
    BY <1>3, <2>1 DEF CaptureInv, AnalyzerInv, QW!OrderInv, QW!QueueGood, QW!InOrder
  <2>5. StartInv'
    BY <2>1, <2>2, NoLongerQueued
  <2>6. TruthInv'
    BY <1>2, <1>3, <2>1 DEF CaptureInv, TruthInv, TakenDown, FirstStays
  <2>7. /\ \A i \in DOMAIN history : history[i].ts \in Nat
        /\ \A h \in Targets : \A p \in queue_waits[h] : p \in Nat
        /\ \A h \in Targets : firstForeign[h] \in Int /\ firstForeign'[h] \in Int
                              /\ firstForeign'[h] <= firstForeign[h]
    <3>1. /\ history \in Seq(QW!Entry(Cgroups)) /\ QW!InOrder(history)
          /\ queue_waits \in [Cgroups -> SUBSET Nat]
      BY DEF CaptureInv, AnalyzerInv, QW!OrderInv, QW!QueueGood
    <3>2. \A i \in DOMAIN history : history[i].ts \in Nat
      BY <3>1, QW!HistoryFacts, InstanceAssumptions
    <3>3. \A h \in Targets : firstForeign[h] \in Int /\ firstForeign'[h] \in Int
                             /\ firstForeign'[h] <= firstForeign[h]
      BY <1>2, BoundAssumption DEF CaptureInv, TruthInv, FirstStays, Never
    <3> QED BY <3>1, <3>2, <3>3, CgroupsAssumption
  <2>8. ForeignInv'
    <3> SUFFICES ASSUME device = "net" \/ delegated, NEW i \in DOMAIN history, NEW h \in Targets,
                        history[i].cg # h
                 PROVE  firstForeign'[h] <= history[i].ts
      BY <1>3, <2>1 DEF ForeignInv
    <3>1. firstForeign[h] <= history[i].ts
      BY DEF CaptureInv, ForeignInv
    <3> QED BY <2>7, <3>1
  <2>9. ChargedWhileQueued'
    BY <2>1 DEF CaptureInv, ChargedWhileQueued, TakenDown
  <2>10. ~NoAttribution => ChargedBehindOthers'
    <3> SUFFICES ASSUME ~NoAttribution, device = "net" \/ delegated,
                        NEW h \in Targets, NEW p \in queue_waits[h]
                 PROVE  firstForeign'[h] <= p
      BY <1>3, <2>1 DEF ChargedBehindOthers
    <3>1. firstForeign[h] <= p
      BY DEF CaptureInv, ChargedBehindOthers
    <3> QED BY <2>7, <3>1
  <2> QED BY <2>3, <2>4, <2>5, <2>6, <2>8, <2>9, <2>10 DEF CaptureInv
<1> QED BY <1>4, <1>5

LEMMA CaptureStep == CaptureInv /\ [Next]_vars => CaptureInv'
<1> SUFFICES ASSUME CaptureInv, [Next]_vars PROVE CaptureInv'
  OBVIOUS
<1>1. MapInv' /\ UsersInv'
  BY MapStep, UsersStep DEF CaptureInv
<1>2. clock \in 0 .. MaxTime /\ clock \in Nat /\ uses \in 0 .. MaxUses
  BY BoundAssumption DEF CaptureInv, KernelInv
<1>3. CASE Tick
  <2>1. clock' \in 0 .. MaxTime /\ clock <= clock'
    BY <1>2, <1>3, BoundAssumption DEF Tick
  <2> QED BY <1>1, <1>2, <1>3, <2>1, QuietStep DEF Tick, socketVars
<1>4. ASSUME NEW s \in Sockets,
             \/ \E g \in Cgroups \cup {Root} : Open(s, g)
             \/ \E g \in Cgroups : Send(s, g)
             \/ Close(s)
      PROVE  CaptureInv'
  <2>1. /\ uses' \in 0 .. MaxUses
        /\ UNCHANGED <<clock, delegated, queue, analyzerVars, truthVars>>
    BY <1>2, <1>4, BoundAssumption DEF Open, Send, Close, kernelVars
  <2> QED BY <1>1, <1>2, <2>1, QuietStep
<1>5. ASSUME NEW k \in Keys, Serve(k) PROVE CaptureInv'
  <2>1. queue[k] \in ItemsOf(device)
    BY <1>5 DEF Serve, CaptureInv, KernelInv
  <2>2. TakenDown(k)
    BY <1>5, LeaveTakesDown DEF Serve
  <2>3. PICK item \in ItemsOf(device) : item = queue[k]
    BY <2>1
  <2>4. queue' = [queue EXCEPT ![k] = Free] /\ Served(k, item)
    BY <1>5, <2>3 DEF Serve
  <2> QED BY <1>1, <2>2, <2>4, ServedKeeps
<1>6. ASSUME NEW k \in Keys, Vanish(k) PROVE CaptureInv'
  BY <1>1, <1>6, VanishKeeps
<1>7. ASSUME NEW k \in Keys, NEW item \in Items, Enqueue(k, item) PROVE CaptureInv'
  BY <1>1, <1>7, EnqueueKeeps
<1>8. ASSUME NEW k \in Keys, NEW item \in Items, ServeUnqueued(k, item) PROVE CaptureInv'
  <2>1. item \in ItemsOf(device)
    BY DEF Items, ItemsOf
  <2>2. queue[k] = Free /\ UNCHANGED <<queue, queuedFor>> /\ Served(k, item)
    BY <1>8 DEF ServeUnqueued
  <2>3. TakenDown(k)
    BY <2>2 DEF CaptureInv, StartInv, TruthInv, TakenDown
  <2>4. queue' = [queue EXCEPT ![k] = Free]
    BY <2>2 DEF CaptureInv, KernelInv
  <2> QED BY <1>1, <2>1, <2>2, <2>3, <2>4, ServedKeeps
<1>9. CASE UNCHANGED vars
  <2>1. UNCHANGED <<clock, delegated, queue, uses, analyzerVars, truthVars>>
    BY <1>9 DEF vars, kernelVars, socketVars
  <2> QED BY <1>1, <1>2, <2>1, QuietStep
<1> QED BY <1>3, <1>4, <1>5, <1>6, <1>7, <1>8, <1>9 DEF Next

LEMMA Capture == Spec => []CaptureInv
  BY CaptureInit, CaptureStep, PTL DEF Spec

(* The queue, its programs and its analyzer keep their types.              *)
THEOREM TypeCorrect == Spec => []TypeOK
<1>1. CaptureInv => TypeOK
  <2> SUFFICES ASSUME CaptureInv PROVE TypeOK
    OBVIOUS
  <2>1. Analyzer!TypeOK
    BY DEF CaptureInv, KernelInv, AnalyzerInv, QW!OrderInv, QW!QueueGood, QW!Entry, QW!NoStart,
       Analyzer!TypeOK, Analyzer!None
  <2> QED BY <2>1 DEF CaptureInv, KernelInv, MapInv, SocketType, StartInv, TruthInv, TypeOK, ItemsOf
<1> QED BY <1>1, Capture, PTL

(* Whatever is taken off a makespan for a queue was queueing, or is the    *)
(* wait of one packet or request that was matched with the service of      *)
(* another at its address, however many addresses and whatever drops,      *)
(* merges, bypasses and changes of owner lie between.                      *)
THEOREM ChargesAreQueueing == Spec => []ChargedWhileQueued
<1>1. CaptureInv => ChargedWhileQueued
  BY DEF CaptureInv
<1> QED BY <1>1, Capture, PTL

(* Nobody is charged before somebody else was served: the analyzer charges *)
(* behind a service of another cgroup only, and the programs record no     *)
(* service under a cgroup that had no part in what is served.  That is     *)
(* what attribution is for, and the ablation does not have it.             *)
THEOREM ChargesAreBehindOthers == ~NoAttribution => (Spec => []ChargedBehindOthers)
<1>1. CASE NoAttribution
  BY <1>1
<1>2. CASE ~NoAttribution
  <2>1. CaptureInv => ChargedBehindOthers
    BY <1>2 DEF CaptureInv
  <2> QED BY <2>1, Capture, PTL
<1> QED BY <1>1, <1>2

-------------------------------------------------------------------------------
(* The analyzer within.                                                    *)

LEMMA StepIsAnalyzers == CaptureInv /\ [Next]_vars => [QW!Next]_QW!vars
<1> SUFFICES ASSUME CaptureInv, [Next]_vars PROVE [QW!Next]_QW!vars
  OBVIOUS
<1>1. clock \in 0 .. MaxTime
  BY DEF CaptureInv, KernelInv
<1>2. ASSUME NEW k \in Keys, NEW g \in Cgroups \cup {Root}, RecordStart(k, g)
      PROVE  [QW!Next]_QW!vars
  <2>1. CASE Recorded(g)
    <3>1. g \in Cgroups
      BY <2>1, CgroupsAssumption DEF Recorded
    <3>2. QW!HandleStart(k, g, clock)
      BY <1>2, <2>1 DEF RecordStart, Analyzer!HandleStart, Analyzer!Event, QW!HandleStart, QW!Event
    <3> QED BY <1>1, <3>1, <3>2 DEF QW!Next
  <2>2. CASE ~Recorded(g)
    BY <1>2, <2>2 DEF RecordStart, analyzerVars, QW!vars
  <2> QED BY <2>1, <2>2
<1>3. ASSUME NEW k \in Keys, NEW g \in Cgroups \cup {Root}, RecordService(k, g)
      PROVE  [QW!Next]_QW!vars
  <2>1. CASE Recorded(g)
    <3>1. g \in Cgroups
      BY <2>1, CgroupsAssumption DEF Recorded
    <3>2. Analyzer!HandleService(k, g, clock)
      BY <1>3, <2>1 DEF RecordService
    <3>3. QW!HandleService(k, g, clock)
      BY <3>2, SameQueueCharge, Zenon DEF Analyzer!HandleService, Analyzer!Event, Analyzer!None,
         QW!HandleService, QW!Event, QW!None
    <3> QED BY <1>1, <3>1, <3>3 DEF QW!Next
  <2>2. CASE ~Recorded(g)
    BY <1>3, <2>2 DEF RecordService, analyzerVars, QW!vars
  <2> QED BY <2>1, <2>2
<1>4. ASSUME NEW k \in Keys, NEW item \in Items, Enqueue(k, item) PROVE [QW!Next]_QW!vars
  <2>1. PICK g \in Cgroups \cup {Root} : AtStart(k, item, g)
    BY <1>4 DEF Enqueue
  <2>2. RecordStart(k, g)
    BY <2>1 DEF AtStart, handle_net_dev_queue, handle_block_rq_insert
  <2> QED BY <1>2, <2>2
<1>5. ASSUME NEW k \in Keys, NEW item, Served(k, item) PROVE [QW!Next]_QW!vars
  <2>1. PICK g \in Cgroups \cup {Root} : AtService(k, item, g)
    BY <1>5 DEF Served
  <2>2. RecordService(k, g)
    BY <2>1 DEF AtService, handle_net_dev_start_xmit, handle_block_rq_issue
  <2> QED BY <1>3, <2>2
<1>6. ASSUME NEW k \in Keys, Serve(k) \/ \E item \in Items : ServeUnqueued(k, item)
      PROVE  [QW!Next]_QW!vars
  BY <1>5, <1>6 DEF Serve, ServeUnqueued
<1>7. ASSUME UNCHANGED analyzerVars PROVE [QW!Next]_QW!vars
  BY <1>7 DEF analyzerVars, QW!vars
<1>8. CASE Tick \/ UNCHANGED vars
  BY <1>7, <1>8 DEF Tick, vars
<1>9. ASSUME NEW s \in Sockets,
             Close(s) \/ (\E g \in Cgroups \cup {Root} : Open(s, g)) \/ \E g \in Cgroups : Send(s, g)
      PROVE  [QW!Next]_QW!vars
  BY <1>7, <1>9 DEF Close, Open, Send
<1>10. ASSUME NEW k \in Keys, Vanish(k) PROVE [QW!Next]_QW!vars
  BY <1>7, <1>10 DEF Vanish
<1> QED BY <1>4, <1>6, <1>8, <1>9, <1>10 DEF Next

LEMMA SameAccounting ==
  /\ QW!Accounting!Init <=> Analyzer!Accounting!Init
  /\ [QW!Accounting!Next]_QW!Accounting!vars
       <=> [Analyzer!Accounting!Next]_Analyzer!Accounting!vars
  BY Zenon
     DEF QW!Accounting!Init, QW!Accounting!Next, QW!Accounting!vars, QW!Accounting!Enqueue,
         QW!Accounting!Serve, QW!Accounting!Pass, QW!Accounting!Until, QW!Accounting!LastBy,
         QW!Accounting!ServedBy, QW!Accounting!Place, QW!Accounting!After,
         QW!Accounting!Charged, QW!Accounting!NotQueued, QW!QueuedBy, QW!PlaceOf, QW!CgOfLast,
         QW!ServedAt, QW!NoCg, QW!None, QW!QueueCharge, QW!Lead, QW!LeadSlice, QW!Spans,
         QW!Before, QW!Charged, QW!LeadEnd, QW!Window, QW!ClosedOpen, QW!Min, QW!Max,
         Analyzer!Accounting!Init, Analyzer!Accounting!Next, Analyzer!Accounting!vars,
         Analyzer!Accounting!Enqueue, Analyzer!Accounting!Serve, Analyzer!Accounting!Pass,
         Analyzer!Accounting!Until, Analyzer!Accounting!LastBy, Analyzer!Accounting!ServedBy,
         Analyzer!Accounting!Place, Analyzer!Accounting!After, Analyzer!Accounting!Charged,
         Analyzer!Accounting!NotQueued, Analyzer!QueuedBy, Analyzer!PlaceOf,
         Analyzer!CgOfLast, Analyzer!ServedAt, Analyzer!NoCg, Analyzer!None,
         Analyzer!QueueCharge, Analyzer!Lead, Analyzer!LeadSlice, Analyzer!Spans,
         Analyzer!Before, Analyzer!Charged, Analyzer!LeadEnd, Analyzer!Window,
         Analyzer!ClosedOpen, Analyzer!Min, Analyzer!Max

(* The programs give the analyzer nothing but what it is specified for:    *)
(* starts and services of containers, in order of time.  So on what is     *)
(* recorded of any packets and requests, with sockets that are reused and  *)
(* owners that are mistaken, it comes to the same as the accounting kept   *)
(* as time passes.                                                         *)
THEOREM CapturedIsExact == Spec => Analyzer!ImplementsOccupancy
<1>1. Init => QW!Init
  BY DEF Init, Analyzer!Init, Analyzer!None, QW!Init, QW!None
<1>2. Spec => QW!Spec
  BY <1>1, Capture, StepIsAnalyzers, PTL DEF Spec, QW!Spec
<1>3. QW!Spec => QW!ImplementsOccupancy
  BY InstanceAssumptions, QW!LookingBackIsExact
<1> QED BY <1>2, <1>3, SameAccounting, PTL
        DEF QW!ImplementsOccupancy, Analyzer!ImplementsOccupancy,
            QW!Accounting!Spec, Analyzer!Accounting!Spec
===============================================================================
