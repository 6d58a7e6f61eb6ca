----------------------------- MODULE QueueCapture ------------------------------
(***************************************************************************)
(* What is recorded of a queue, and what becomes of it: packets on their   *)
(* way through the queueing discipline, or requests through the scheduler  *)
(* of the disk (device); the socket map of src/puretime.bpf.c with the     *)
(* programs that maintain it and those that read it; and the analyzer,     *)
(* QueueWait, which matches a service with a start by address alone.       *)
(* Beside them the truth is kept: who was queued when, and who was served. *)
(*                                                                         *)
(* The kernel is the environment, modelled from how the programs are       *)
(* attached and what they read.  A packet or request may leave its queue   *)
(* without being served (dropped, merged, cut into segments), be served    *)
(* without having been queued (a bypass, a segment, a second attempt), and *)
(* its address is used again.  A socket's address is used again once it is *)
(* closed and its last packet is gone.  A program takes no time, its event *)
(* is not lost, and the analyzer handles it in the same step, which is no  *)
(* restriction: it looks at nothing but the trace.                         *)
(***************************************************************************)
EXTENDS Integers, FiniteSets

CONSTANTS
  Keys,            \* addresses of packets or requests
  Sockets,         \* addresses of sockets
  Cgroups,         \* the cgroups below the root
  Containers,      \* those at level 2 or deeper
  Targets,         \* the cgroups that are measured
  MaxTracked,      \* max_entries of tracked_sockets, 10240
  NoAttribution,   \* the ablation of WaitWindows
  MaxUses,         \* bound: sockets opened and sends
  MaxTime,         \* bound: the last instant
  MaxEvents,       \* bound: events recorded
  MaxSteps         \* bound: the two together

Root == 1
NoCg == 0
NoSocket == "none"   \* the socket of a request

ASSUME CgroupsAssumption ==
  Cgroups \subseteq Nat \ {NoCg, Root} /\ Containers \subseteq Cgroups /\ Targets \subseteq Cgroups
ASSUME SocketsAssumption == NoSocket \notin Sockets /\ IsFiniteSet(Sockets)
ASSUME BoundAssumption ==
  {MaxTracked, MaxUses, MaxTime, MaxEvents, MaxSteps} \subseteq Nat
ASSUME AttributionAssumption == NoAttribution \in BOOLEAN

VARIABLES
  clock,           \* bpf_ktime_get_ns
  delegated,       \* whether the io controller is delegated to the containers
  tracked_sockets, \* the cgroup of each socket in the map, NoCg if it is not there
  socket,          \* owner: the cgroup that created it; sender and users: the last
                   \* container that sent, and all cgroups but root's that used it
                   \* since it was created
  uses,            \* sockets opened and sends so far
  queue,           \* the packet or request queued at each address, or Free
  device, now, events, pending, history, queue_waits,
  \* The truth, of measured cgroups:
  start,           \* the last start recorded at each address that no service recorded
                   \* there followed, and whether its packet or request is still queued
  queuedFor,       \* the instants at which one was queued whose start was recorded
  mismatched,      \* those from the start of one to the service of another
  firstForeign     \* when the first of another cgroup was served

socketVars == <<socket, uses, tracked_sockets>>
kernelVars == <<clock, delegated, queue>>
analyzerVars == <<device, now, events, pending, history, queue_waits>>
truthVars == <<start, queuedFor, mismatched, firstForeign>>
vars == <<kernelVars, socketVars, analyzerVars, truthVars>>

Analyzer == INSTANCE QueueWait

(* A packet is its socket, a request the cgroup that submitted it.         *)
Packet(s) == [sk |-> s, cg |-> NoCg]
Request(g) == [sk |-> NoSocket, cg |-> g]
Free == [sk |-> NoSocket, cg |-> -1]
NoStart == [at |-> -1, cg |-> NoCg, queued |-> FALSE]
Never == MaxTime + 1

Init ==
  /\ clock = 0
  /\ Analyzer!Init
  /\ delegated \in BOOLEAN
  /\ device = "net" => ~delegated
  /\ tracked_sockets = [s \in Sockets |-> NoCg]
  /\ socket = [s \in Sockets |-> [open |-> FALSE, owner |-> NoCg, sender |-> NoCg, users |-> {}]]
  /\ uses = 0
  /\ queue = [k \in Keys |-> Free]
  /\ start = [k \in Keys |-> NoStart]
  /\ queuedFor = [g \in Targets |-> {}]
  /\ mismatched = [g \in Targets |-> {}]
  /\ firstForeign = [g \in Targets |-> Never]

-------------------------------------------------------------------------------
(* The programs.                                                           *)

Tracked == {s \in Sockets : tracked_sockets[s] # NoCg}

(* Mutant of tcp_sendmsg_entry: only the first sender is registered.       *)
RegisterOnce(s, g) ==
  tracked_sockets' =
    IF g \in Containers /\ s \notin Tracked /\ Cardinality(Tracked) < MaxTracked
    THEN [tracked_sockets EXCEPT ![s] = g] ELSE tracked_sockets

(* A thread of g sends on s.  A full map refuses a new socket, silently.   *)
tcp_sendmsg_entry(s, g) ==
  tracked_sockets' =
    IF g \in Containers /\ (s \in Tracked \/ Cardinality(Tracked) < MaxTracked)
    THEN [tracked_sockets EXCEPT ![s] = g] ELSE tracked_sockets

(* Mutant of tcp_close_entry: the socket stays in the map.                 *)
ForgetNothing(s) == UNCHANGED tracked_sockets

tcp_close_entry(s) == tracked_sockets' = [tracked_sockets EXCEPT ![s] = NoCg]

(* The cgroup that the programs at net_dev_queue and net_dev_start_xmit    *)
(* come up with: that in the map, else that of the socket itself.  (A      *)
(* packet without a socket is ignored, as is one of a socket of root's     *)
(* that is not in the map; the latter stand for both.)                     *)
SocketCgroup(s) ==
  IF s \in Tracked THEN tracked_sockets[s] ELSE socket[s].owner

(* Mutant of RequestCgroups: the current thread's cgroup, always.          *)
CurrentCgroup(g) == Cgroups \cup {Root}

(* And those at block_rq_insert and block_rq_issue: that of the owning     *)
(* blkcg, which is the container's only if the controller is delegated,    *)
(* else that of whatever thread is current.                                *)
RequestCgroups(g) ==
  LET blkcg == IF delegated THEN g ELSE Root
  IN  IF blkcg > Root THEN {blkcg} ELSE Cgroups \cup {Root}

(* The filter of every program.                                            *)
Recorded(g) == g > Root

(* An event of cgroup g, if there is one, and what the analyzer makes of it. *)
RecordStart(k, g) ==
  IF Recorded(g) THEN Analyzer!HandleStart(k, g, clock) ELSE UNCHANGED analyzerVars
RecordService(k, g) ==
  IF Recorded(g) THEN Analyzer!HandleService(k, g, clock) ELSE UNCHANGED analyzerVars

(* The four programs, with the cgroup that each finds.                     *)
handle_net_dev_queue(k, s, g) == g = SocketCgroup(s) /\ RecordStart(k, g)
handle_net_dev_start_xmit(k, s, g) == g = SocketCgroup(s) /\ RecordService(k, g)
handle_block_rq_insert(k, owner, g) == g \in RequestCgroups(owner) /\ RecordStart(k, g)
handle_block_rq_issue(k, owner, g) == g \in RequestCgroups(owner) /\ RecordService(k, g)

AtStart(k, item, g) ==
  \/ device = "net" /\ handle_net_dev_queue(k, item.sk, g)
  \/ device = "block" /\ handle_block_rq_insert(k, item.cg, g)
AtService(k, item, g) ==
  \/ device = "net" /\ handle_net_dev_start_xmit(k, item.sk, g)
  \/ device = "block" /\ handle_block_rq_issue(k, item.cg, g)

-------------------------------------------------------------------------------
(* The kernel.                                                             *)

Open(s, g) ==
  /\ device = "net" /\ uses < MaxUses
  /\ uses' = uses + 1
  /\ ~socket[s].open /\ \A k \in Keys : queue[k].sk # s
  /\ socket' = [socket EXCEPT ![s] =
                  [open |-> TRUE, owner |-> g, sender |-> NoCg, users |-> {g} \ {Root}]]
  /\ UNCHANGED <<kernelVars, tracked_sockets, analyzerVars, truthVars>>

Send(s, g) ==
  /\ socket[s].open /\ uses < MaxUses
  /\ uses' = uses + 1
  /\ tcp_sendmsg_entry(s, g)
  /\ socket' = [socket EXCEPT ![s] =
                  [open |-> TRUE, owner |-> @.owner, users |-> @.users \cup {g},
                   sender |-> IF g \in Containers THEN g ELSE @.sender]]
  /\ UNCHANGED <<kernelVars, analyzerVars, truthVars>>

(* Packets of a closed socket may still be queued and served.              *)
Close(s) ==
  /\ socket[s].open
  /\ tcp_close_entry(s)
  /\ socket' = [socket EXCEPT ![s].open = FALSE]
  /\ UNCHANGED <<kernelVars, uses, analyzerVars, truthVars>>

(* What may be queued or served, and whose it is.                          *)
Items ==
  IF device = "net"
  THEN {Packet(s) : s \in {u \in Sockets : socket[u].owner # NoCg}}
  ELSE {Request(g) : g \in Cgroups \cup {Root}}

UsersOf(item) ==
  IF device = "net" THEN socket[item.sk].users ELSE {item.cg}

Charge(table, g, instants) ==
  IF g \in Targets THEN [table EXCEPT ![g] = @ \cup instants] ELSE table

Enqueue(k, item) ==
  /\ queue[k] = Free /\ item \in Items
  /\ queue' = [queue EXCEPT ![k] = item]
  /\ \E g \in Cgroups \cup {Root} :
       /\ AtStart(k, item, g)
       /\ start' = IF Recorded(g)
                   THEN [start EXCEPT ![k] = [at |-> clock, cg |-> g, queued |-> TRUE]]
                   ELSE start
  /\ UNCHANGED <<clock, delegated, socketVars, queuedFor, mismatched, firstForeign>>

(* The start recorded at k, if it is of what is queued there now, is over. *)
Leave(k) ==
  queuedFor' = IF start[k].queued
               THEN Charge(queuedFor, start[k].cg, start[k].at .. clock - 1)
               ELSE queuedFor

(* The item at address k is served.                                        *)
Served(k, item) ==
  /\ firstForeign' =
       [g \in Targets |-> IF UsersOf(item) \subseteq {g} \/ firstForeign[g] # Never
                          THEN firstForeign[g] ELSE clock]
  /\ \E g \in Cgroups \cup {Root} :
       /\ AtService(k, item, g)
       /\ start' = [start EXCEPT ![k] = IF Recorded(g) THEN NoStart ELSE [@ EXCEPT !.queued = FALSE]]
       /\ mismatched' =
            IF Recorded(g) /\ start[k] # NoStart /\ ~start[k].queued
            THEN Charge(mismatched, start[k].cg, start[k].at .. clock - 1)
            ELSE mismatched
  /\ UNCHANGED <<clock, delegated, socketVars>>

Serve(k) ==
  /\ queue[k] # Free
  /\ queue' = [queue EXCEPT ![k] = Free]
  /\ Leave(k)
  /\ Served(k, queue[k])

ServeUnqueued(k, item) ==
  /\ queue[k] = Free /\ item \in Items
  /\ Served(k, item)
  /\ UNCHANGED <<queue, queuedFor>>

(* Dropped, merged into another, or cut into segments at other addresses.  *)
Vanish(k) ==
  /\ queue[k] # Free
  /\ queue' = [queue EXCEPT ![k] = Free]
  /\ Leave(k)
  /\ start' = [start EXCEPT ![k].queued = FALSE]
  /\ UNCHANGED <<clock, delegated, socketVars, analyzerVars,
                 mismatched, firstForeign>>

Tick ==
  /\ clock < MaxTime
  /\ clock' = clock + 1
  /\ UNCHANGED <<delegated, queue, socketVars, analyzerVars, truthVars>>

(* (Nothing happens any more once a bound on events is met.)               *)
Next ==
  /\ events < MaxEvents /\ uses + events < MaxSteps
  /\ \/ Tick
     \/ \E s \in Sockets :
          \/ \E g \in Cgroups \cup {Root} : Open(s, g)
          \/ \E g \in Cgroups : Send(s, g)
          \/ Close(s)
     \/ \E k \in Keys :
          \/ Serve(k)
          \/ Vanish(k)
          \/ \E item \in Items : Enqueue(k, item) \/ ServeUnqueued(k, item)

Spec == Init /\ [][Next]_vars

-------------------------------------------------------------------------------

TypeOK ==
  /\ clock \in 0 .. MaxTime
  /\ delegated \in BOOLEAN
  /\ tracked_sockets \in [Sockets -> Containers \cup {NoCg}]
  /\ socket \in [Sockets -> [open : BOOLEAN, owner : Cgroups \cup {Root, NoCg},
                             sender : Containers \cup {NoCg}, users : SUBSET Cgroups]]
  /\ uses \in 0 .. MaxUses
  /\ queue \in [Keys -> {Free} \cup {Packet(s) : s \in Sockets}
                          \cup {Request(g) : g \in Cgroups \cup {Root}}]
  /\ Analyzer!TypeOK
  /\ start \in [Keys -> [at : Nat \cup {-1}, cg : Cgroups \cup {NoCg}, queued : BOOLEAN]]
  /\ queuedFor \in [Targets -> SUBSET Nat]
  /\ mismatched \in [Targets -> SUBSET Nat]
  /\ firstForeign \in [Targets -> 0 .. Never]

(* An entry of the map is never that of an earlier connection at the same  *)
(* address, nor of an earlier user of the same one: it is the container    *)
(* that sent last, on a socket that is open.  And the map never holds more *)
(* than it has room for.                                                   *)
TrackedIsLastSender ==
  /\ \A s \in Tracked : socket[s].open /\ tracked_sockets[s] = socket[s].sender
  /\ Cardinality(Tracked) <= MaxTracked

(* What is taken off a makespan for a queue was queueing: at every charged *)
(* instant something of the cgroup stood in the queue, whatever was reused *)
(* or attributed differently at its start and its service.  The exception  *)
(* is exactly this: something left the queue with no service recorded, and *)
(* the next thing recorded at its address is a service without a start;    *)
(* the two are matched, over whatever lay between.                         *)
ChargedWhileQueued ==
  \A g \in Targets : queue_waits[g] \subseteq queuedFor[g] \cup mismatched[g]

(* Nobody waits behind himself: nothing is charged before something of     *)
(* another user was served.  A connection that inherits the address of     *)
(* another's must not inherit its cgroup, or its packets would count as    *)
(* foreign to the rest of its own container.  On a disk it takes a         *)
(* delegated io controller.                                                *)
ChargedBehindOthers ==
  device = "net" \/ delegated =>
    \A g \in Targets : \A p \in queue_waits[g] : firstForeign[g] <= p
===============================================================================
