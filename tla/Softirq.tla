-------------------------------- MODULE Softirq --------------------------------
(***************************************************************************)
(* The softirq half of NoiseFreeAnalyzer: the time of a softirq is divided *)
(* between the cgroups whose packets and requests were served meanwhile on *)
(* the same CPU, in proportion to their number.  Each measured cgroup gets *)
(* its share at the beginning of the softirq as its own work, and the      *)
(* share of all others at the end as time it may have removed.             *)
(*                                                                         *)
(* The log is a history: the events handled, from which the properties     *)
(* read off the softirqs without the handlers' state.  NoiseFree extends   *)
(* this module with the handlers of the other events, which here only take *)
(* their time.                                                             *)
(***************************************************************************)
EXTENDS WaitWindows

CONSTANTS
  Cpus,
  Cgroups,
  Targets,       \* the cgroups that are measured
  MaxTime,       \* bound: timestamps
  MaxEvents      \* bound: events handled

ASSUME CgroupsAssumption == Cgroups \subseteq Nat \ {0} /\ IsFiniteSet(Cgroups)
ASSUME TargetsAssumption == Targets \subseteq Cgroups
ASSUME BoundAssumption == MaxTime \in Nat /\ MaxEvents \in Nat

VARIABLES
  now,                \* the timestamp of the last event handled
  events,             \* how many events were handled
  pending_softirqs,   \* the softirq each CPU is in, or NoSoftirq
  softirq_self,       \* cgroup_waits[cg].softirq_self
  softirq_other,      \* cgroup_waits[cg].softirq_other
  log                 \* history: the events of softirqs handled

softirqVars == <<pending_softirqs, softirq_self, softirq_other, log>>

NoSoftirq == [entry |-> -1, counts |-> [g \in Cgroups |-> 0]]

SoftirqInit ==
  /\ now = 0
  /\ events = 0
  /\ pending_softirqs = [c \in Cpus |-> NoSoftirq]
  /\ softirq_self = [g \in Targets |-> {}]
  /\ softirq_other = [g \in Targets |-> {}]
  /\ log = <<>>

(* The next event of the sorted trace.                                     *)
Event(ts) ==
  /\ events < MaxEvents
  /\ events' = events + 1
  /\ now <= ts
  /\ now' = ts

(* Mutant of Shares: rounded up.                                           *)
SharesRoundedUp(duration, n, total) == {(duration * n + total - 1) \div total}

(* int(duration * (n / total)).  The ratio is a double: where the exact    *)
(* product is a whole number the computed one may fall just below it, as   *)
(* 49 * (1 / 49) does, and lose one.  It is exact for all or nothing.      *)
Shares(duration, n, total) ==
  LET exact == (duration * n) \div total
  IN  {exact} \cup {s \in {exact - 1} : /\ 0 < n /\ n < total /\ 0 < exact
                                        /\ (duration * n) % total = 0}

(* sum(counts.values()): each service counted is one <<cgroup, number>>.   *)
TotalOf(counts) == Cardinality(UNION {{g} \X (1 .. counts[g]) : g \in Cgroups})

Logged(kind, c, ts, cg) ==
  log' = Append(log, [kind |-> kind, cpu |-> c, ts |-> ts, cg |-> cg])

(* Mutant of HandleEntry: the counts of an earlier entry stay.             *)
EntryKeepsCounts(c, ts) ==
  /\ Event(ts)
  /\ pending_softirqs' = [pending_softirqs EXCEPT ![c].entry = ts]
  /\ Logged("entry", c, ts, 0)
  /\ UNCHANGED <<softirq_self, softirq_other>>

(* _handle_softirq_entry: an earlier entry that met no exit is forgotten.  *)
HandleEntry(c, ts) ==
  /\ Event(ts)
  /\ pending_softirqs' = [pending_softirqs EXCEPT ![c] = [NoSoftirq EXCEPT !.entry = ts]]
  /\ Logged("entry", c, ts, 0)
  /\ UNCHANGED <<softirq_self, softirq_other>>

(* Mutant of RecordEvent: it counts outside softirqs too.                  *)
RecordAlways(cg, c, ts) ==
  /\ pending_softirqs' = [pending_softirqs EXCEPT ![c].counts[cg] = @ + 1]
  /\ Logged("service", c, ts, cg)
  /\ UNCHANGED <<softirq_self, softirq_other>>

(* _record_softirq_event, of the packet or request of cg served on c.      *)
RecordEvent(cg, c, ts) ==
  /\ pending_softirqs' =
       IF pending_softirqs[c] # NoSoftirq
       THEN [pending_softirqs EXCEPT ![c].counts[cg] = @ + 1]
       ELSE pending_softirqs
  /\ Logged("service", c, ts, cg)
  /\ UNCHANGED <<softirq_self, softirq_other>>

(* _handle_softirq_exit.  A share of nothing is the empty interval.        *)
HandleExit(c, ts) ==
  LET softirq == pending_softirqs[c]
      duration == ts - softirq.entry
      total == TotalOf(softirq.counts)
      SelfShares(g) == Shares(duration, softirq.counts[g], total)
      OtherShares(g) == Shares(duration, total - softirq.counts[g], total)
  IN  /\ Event(ts)
      /\ pending_softirqs' = [pending_softirqs EXCEPT ![c] = NoSoftirq]
      /\ Logged("exit", c, ts, 0)
      /\ IF softirq # NoSoftirq /\ duration > 0 /\ total > 0
         THEN \E mine, others \in [Targets -> 0 .. duration] :
                /\ \A g \in Targets : mine[g] \in SelfShares(g) /\ others[g] \in OtherShares(g)
                /\ softirq_self' = [g \in Targets |->
                     softirq_self[g] \cup ClosedOpen(softirq.entry, softirq.entry + mine[g])]
                /\ softirq_other' = [g \in Targets |->
                     softirq_other[g] \cup ClosedOpen(ts - others[g], ts)]
         ELSE UNCHANGED <<softirq_self, softirq_other>>

OtherEvent(ts) == Event(ts) /\ UNCHANGED softirqVars

SoftirqNext ==
  \E ts \in 0 .. MaxTime :
    \/ OtherEvent(ts)
    \/ \E c \in Cpus :
         \/ HandleEntry(c, ts)
         \/ HandleExit(c, ts)
         \/ \E cg \in Cgroups : Event(ts) /\ RecordEvent(cg, c, ts)

SoftirqSpec == SoftirqInit /\ [][SoftirqNext]_<<now, events, softirqVars>>

-------------------------------------------------------------------------------

LogEntry ==
  [kind : {"entry", "exit", "service"}, cpu : Cpus, ts : Nat, cg : Cgroups \cup {0}]

SoftirqTypeOK ==
  /\ now \in 0 .. MaxTime
  /\ events \in 0 .. MaxEvents
  /\ pending_softirqs \in [Cpus -> [entry : Nat \cup {-1}, counts : [Cgroups -> Nat]]]
  /\ softirq_self \in [Targets -> SUBSET Nat]
  /\ softirq_other \in [Targets -> SUBSET Nat]
  /\ log \in Seq(LogEntry)

(* The softirqs of the log: <<i, j>> if event j is the exit of the softirq *)
(* event i entered.                                                        *)
Windows ==
  {w \in (DOMAIN log) \X (DOMAIN log) :
     /\ w[1] < w[2]
     /\ log[w[1]].kind = "entry" /\ log[w[2]].kind = "exit"
     /\ log[w[1]].cpu = log[w[2]].cpu
     /\ \A k \in w[1] + 1 .. w[2] - 1 : log[k].cpu = log[w[1]].cpu => log[k].kind = "service"}

ServedIn(w, G) ==
  Cardinality({k \in w[1] .. w[2] : /\ log[k].kind = "service" /\ log[k].cg \in G
                                    /\ log[k].cpu = log[w[1]].cpu})

Instants(w) == ClosedOpen(log[w[1]].ts, log[w[2]].ts)

(* Every instant that counts against a cgroup, and every one that counts   *)
(* as its own, lies in a softirq that served others, or that served it;    *)
(* and the two cover all softirqs that served anybody but for an instant   *)
(* or two each: no service is forgotten, none of another CPU, of an        *)
(* earlier softirq or of one whose exit was never seen is counted.         *)
SharesComeFromService ==
  \A g \in Targets :
    LET served == {w \in Windows : ServedIn(w, Cgroups) > 0}
    IN  /\ \A p \in softirq_self[g] : \E w \in served : p \in Instants(w) /\ ServedIn(w, {g}) > 0
        /\ \A p \in softirq_other[g] :
             \E w \in served : p \in Instants(w) /\ ServedIn(w, Cgroups \ {g}) > 0
        /\ \A w \in served :
             Cardinality(Instants(w) \ (softirq_self[g] \cup softirq_other[g])) <= 2

(* The softirqs of a CPU follow one another, so with one CPU no instant is *)
(* both a cgroup's own and others'.                                        *)
SelfAndOtherDisjoint ==
  Cardinality({log[k].cpu : k \in DOMAIN log}) <= 1 =>
    \A g \in Targets : softirq_self[g] \cap softirq_other[g] = {}
===============================================================================
