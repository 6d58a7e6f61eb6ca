----------------------------- MODULE CpuOccupancy ------------------------------
(***************************************************************************)
(* What CPU waiting means: while a thread waits for a CPU, the instants at *)
(* which somebody else's thread holds a CPU add up, for each CPU; when the *)
(* thread is switched in on a CPU, its cgroup has waited for the instants  *)
(* that added up there.  The accounting is kept as time passes and never   *)
(* looks back; CpuWait, which looks back at the recorded switches when a   *)
(* thread is switched in, implements it.                                   *)
(***************************************************************************)
EXTENDS Integers

CONSTANTS Cpus, Tids, CgOf, Targets, NoAttribution, NoCg

VARIABLES
  now,           \* the time of the last event
  holder,        \* the cgroup that holds each CPU, NoCg before the first switch
  waiting,       \* the threads waiting for a CPU
  added,         \* what has added up for each thread and CPU
  waits          \* the instants each cgroup has waited

vars == <<now, holder, waiting, added, waits>>

Owners == {CgOf[t] : t \in Tids}

Init ==
  /\ now = 0
  /\ holder = [c \in Cpus |-> NoCg]
  /\ waiting = {}
  /\ added = [t \in Tids |-> [c \in Cpus |-> {}]]
  /\ waits = [g \in Owners |-> {}]

ChargedTo(t, c) == holder[c] # NoCg /\ (NoAttribution \/ holder[c] # CgOf[t])

(* What has added up when time has passed until ts.                        *)
Until(ts) ==
  [t \in Tids |-> [c \in Cpus |->
     IF t \in waiting /\ ChargedTo(t, c)
     THEN added[t][c] \cup (now .. ts - 1)
     ELSE added[t][c]]]

(* A thread is put on a run queue; if it waited already it starts afresh.  *)
Wake(t, ts) ==
  /\ now <= ts /\ now' = ts
  /\ waiting' = waiting \cup {t}
  /\ added' = [Until(ts) EXCEPT ![t] = [c \in Cpus |-> {}]]
  /\ UNCHANGED <<holder, waits>>

Run(t, c, ts) ==
  /\ now <= ts /\ now' = ts
  /\ waits' = IF t \in waiting /\ CgOf[t] \in Targets
              THEN [waits EXCEPT ![CgOf[t]] = @ \cup Until(ts)[t][c]]
              ELSE waits
  /\ holder' = [holder EXCEPT ![c] = CgOf[t]]
  /\ waiting' = waiting \ {t}
  /\ added' = [Until(ts) EXCEPT ![t] = [d \in Cpus |-> {}]]

Pass(ts) ==
  /\ now <= ts /\ now' = ts
  /\ added' = Until(ts)
  /\ UNCHANGED <<holder, waiting, waits>>

Next ==
  /\ now' \in Nat
  /\ \/ Pass(now')
     \/ \E t \in Tids : Wake(t, now') \/ \E c \in Cpus : Run(t, c, now')

Spec == Init /\ [][Next]_vars
===============================================================================
