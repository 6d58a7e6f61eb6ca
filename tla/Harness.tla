-------------------------------- MODULE Harness --------------------------------
(***************************************************************************)
(* experiments/exp_accuracy_by_type.sh: a script that measures one victim  *)
(* container after another, with and without a stressor, each with a       *)
(* tracer in the background whose trace it picks by date, and that changes *)
(* the settings of the disk and of the network interface for some of the   *)
(* runs.  The script may be stopped anywhere (set -e, a signal; it has no  *)
(* trap), and started again beside whatever it left running.               *)
(*                                                                         *)
(* Besides the script there are the tracer processes (src/puretime.c, as   *)
(* far as the script can tell), the victim and time.  A run that meets     *)
(* something the script has no means against is marked (mishap).  The      *)
(* kernel has bfq and takes the settings it is given; a refusal would be   *)
(* ignored.                                                                *)
(***************************************************************************)
EXTENDS Integers, Sequences

CONSTANTS
  Levels,          \* strengths of a stressor, 0 for none, in the order of the script
  ITERATIONS,
  BLOCK_QUEUE_DEPTH,
  Depths,          \* the depths the disk's queue may have
  OwnInterfaces,   \* the settings the network interface may have of its own
  MaxScripts,      \* bound: the script is started so often
  MaxRuns          \* bound: runs of all scripts

Kinds == <<"cpu", "network", "block">>
NoDepth == 0       \* the disk has no queue_depth
Schedulers == {"bfq", "mq-deadline"}

(* The network interface: its root qdisc is the kernel's default, one of   *)
(* the machine's own or the script's limit, and tso, gso and gro are on,   *)
(* off or mixed.                                                           *)
Interfaces == [qdisc : {"default", "own", "htb"}, offloads : {"on", "off", "mixed"}]

ASSUME LevelsAssumption == Levels \in Seq(Nat) /\ ITERATIONS \in Nat
ASSUME DepthsAssumption == BLOCK_QUEUE_DEPTH \in Depths \ {NoDepth}
ASSUME InterfacesAssumption == OwnInterfaces \subseteq {f \in Interfaces : f.qdisc # "htb"}
ASSUME BoundAssumption == MaxScripts \in Nat /\ MaxRuns \in Nat

VARIABLES
  scripts,         \* how often the script was started
  step,            \* where it is, "idle" between two runs, "off" if it does not run
  todo,            \* its runs, the current one first
  disk, saved,     \* the disk's settings, and ORIGINAL_SCHEDULER and ORIGINAL_QUEUE_DEPTH
  iface,           \* the settings of the network interface
  stressors,       \* the kinds of stressor that run
  runs,            \* how many runs were begun; the last is the current one
  tracer,          \* the state of the tracer of each run
  lossy,           \* the tracers that recorded a loss in their trailer
  newest,          \* the tracer that wrote to its file last
  trace_file,      \* the tracer whose file the run will analyze, 0 if there is none
  victim,          \* of the current run: "none", "running" or "done"
  cover,           \* how much of the victim's life so far each tracer has seen
  rows,            \* the rows it has written to the two result files
  mishap,          \* whether the run met something it can do nothing about
  found            \* what the script found when it was started

machineVars == <<disk, saved, iface, stressors>>
tracerVars == <<tracer, lossy, newest, cover>>
vars == <<scripts, step, todo, machineVars, runs, tracerVars, trace_file, victim,
          rows, mishap, found>>

Runs == 1 .. MaxRuns
Alive(i) == tracer[i] \in {"started", "open", "tracing"}

Found == [disk |-> disk, iface |-> iface, stressors |-> stressors]
Unsaved == [scheduler |-> "", depth |-> NoDepth]

Init ==
  /\ scripts = 0 /\ step = "off" /\ todo = <<>>
  /\ disk \in [scheduler : Schedulers, depth : Depths]
  /\ saved = Unsaved
  /\ iface \in OwnInterfaces
  /\ stressors = {}
  /\ runs = 0
  /\ tracer = [i \in Runs |-> "none"] /\ lossy = {} /\ newest = 0
  /\ cover = [i \in Runs |-> "none"]
  /\ trace_file = 0 /\ victim = "none"
  /\ rows = {} /\ mishap = FALSE
  /\ found = Found

-------------------------------------------------------------------------------
(* The script.                                                             *)

(* All iterations at one level before the next, or all levels in each      *)
(* iteration: a disk drifts, and each run is to have a solo run beside it. *)
LevelByLevel(kind) ==
  [n \in 1 .. Len(Levels) * ITERATIONS |->
     [kind |-> kind, level |-> Levels[((n - 1) \div ITERATIONS) + 1]]]
Interleaved(kind) ==
  [n \in 1 .. Len(Levels) * ITERATIONS |->
     [kind |-> kind, level |-> Levels[((n - 1) % Len(Levels)) + 1]]]

Plan(resources) ==
  LET Part(kind, part) == IF kind \in resources THEN part ELSE <<>>
  IN  Part("cpu", LevelByLevel("cpu")) \o Part("network", LevelByLevel("network"))
        \o Part("block", Interleaved("block"))

Start ==
  /\ step = "off" /\ scripts < MaxScripts
  /\ scripts' = scripts + 1
  /\ \E resources \in SUBSET {Kinds[i] : i \in DOMAIN Kinds} : todo' = Plan(resources)
  /\ step' = "idle"
  /\ found' = Found
  /\ UNCHANGED <<machineVars, runs, tracerVars, trace_file, victim, rows, mishap>>

(* No run: no tracer has seen anything of its victim.                      *)
NoRun ==
  /\ trace_file' = 0 /\ victim' = "none" /\ rows' = {}
  /\ cover' = [i \in Runs |-> "none"]

(* It ends, or it is stopped: what it has saved is lost, the processes it  *)
(* started go on.                                                          *)
Stop ==
  /\ step # "off"
  /\ step' = "off" /\ todo' = <<>> /\ saved' = Unsaved
  /\ NoRun /\ mishap' = FALSE
  /\ UNCHANGED <<scripts, disk, iface, stressors, runs, tracer, lossy, newest, found>>

Kind == Head(todo).kind
Level == Head(todo).level

(* From one step of the script to another, and what most steps leave alone *)
(* of the run.                                                             *)
Goes(from, to) ==
  /\ step = from
  /\ step' = to
  /\ UNCHANGED <<scripts, found>>
KeepsRun == UNCHANGED <<todo, runs, trace_file, victim, rows, mishap>>

(* The next run begins.  A tracer that an earlier script left running      *)
(* writes its trace beside that of the run.                                *)
Begin ==
  /\ todo # <<>> /\ runs < MaxRuns
  /\ \/ Kind = "cpu" /\ Goes("idle", "trace")
     \/ Kind = "network" /\ Goes("idle", "throttle")
     \/ Kind = "block" /\ Goes("idle", "scheduler")
  /\ runs' = runs + 1
  /\ NoRun /\ mishap' = \E i \in Runs : Alive(i)
  /\ UNCHANGED <<machineVars, todo, tracer, lossy, newest>>

(* Mutant of SetupScheduler: it saves all of what the kernel lists.        *)
SaveWholeLine ==
  /\ Goes("scheduler", "depth")
  /\ saved' = [saved EXCEPT !.scheduler = "none [bfq]"]
  /\ disk' = [disk EXCEPT !.scheduler = "bfq"]
  /\ KeepsRun /\ UNCHANGED <<iface, stressors, tracerVars>>

(* setup_io_scheduler, first half.                                         *)
SetupScheduler ==
  /\ Goes("scheduler", "depth")
  /\ saved' = [saved EXCEPT !.scheduler = disk.scheduler]
  /\ disk' = [disk EXCEPT !.scheduler = "bfq"]
  /\ KeepsRun /\ UNCHANGED <<iface, stressors, tracerVars>>

(* Mutant of SetupDepth: it is done once per script.                       *)
SetupOnce ==
  /\ Goes("depth", "trace")
  /\ saved' = IF saved.depth = NoDepth THEN [saved EXCEPT !.depth = disk.depth] ELSE saved
  /\ disk' = IF saved.depth = NoDepth /\ disk.depth # NoDepth
             THEN [disk EXCEPT !.depth = BLOCK_QUEUE_DEPTH] ELSE disk
  /\ KeepsRun /\ UNCHANGED <<iface, stressors, tracerVars>>

(* And the second.                                                         *)
SetupDepth ==
  /\ Goes("depth", "trace")
  /\ IF disk.depth = NoDepth THEN UNCHANGED <<disk, saved>>
     ELSE /\ saved' = [saved EXCEPT !.depth = disk.depth]
          /\ disk' = [disk EXCEPT !.depth = BLOCK_QUEUE_DEPTH]
  /\ KeepsRun /\ UNCHANGED <<iface, stressors, tracerVars>>

(* setup_network_throttle turns the offloads off and puts its limit in the *)
(* place of the root qdisc.  It saves neither.                             *)
SetupOffloads ==
  /\ Goes("throttle", "qdisc")
  /\ iface' = [iface EXCEPT !.offloads = "off"]
  /\ KeepsRun /\ UNCHANGED <<disk, saved, stressors, tracerVars>>

SetupQdisc ==
  /\ Goes("qdisc", "trace")
  /\ iface' = [iface EXCEPT !.qdisc = "htb"]
  /\ KeepsRun /\ UNCHANGED <<disk, saved, stressors, tracerVars>>

StartTracer ==
  /\ Goes("trace", "pick")
  /\ tracer' = [tracer EXCEPT ![runs] = "started"]
  /\ KeepsRun /\ UNCHANGED <<machineVars, lossy, newest, cover>>

(* get_latest_trace, after two seconds: the tracer should have created its *)
(* file by then.                                                           *)
get_latest_trace ==
  /\ Goes("pick", "stress")
  /\ trace_file' = newest
  /\ mishap' = (mishap \/ newest # runs)
  /\ UNCHANGED <<machineVars, todo, runs, tracerVars, victim, rows>>

StartStressor ==
  /\ Goes("stress", "victim")
  /\ stressors' = IF Level > 0 THEN stressors \cup {Kind} ELSE stressors
  /\ KeepsRun /\ UNCHANGED <<disk, saved, iface, tracerVars>>

(* start_containers and save_cgroup_ids.  A tracer should be attached by   *)
(* now.  A container that is gone before it is inspected, or was never     *)
(* started, is measured by the id of the root cgroup, with which softirqs  *)
(* are stamped: a row there is, but its life is not in any trace.          *)
start_containers ==
  /\ Goes("victim", "wait")
  /\ \/ /\ victim' = "running"
        /\ cover' = [i \in Runs |-> IF tracer[i] = "tracing" THEN "whole" ELSE "none"]
        /\ mishap' = (mishap \/ tracer[runs] \in {"started", "open"})
     \/ /\ victim' = "done" /\ mishap' = TRUE
        /\ UNCHANGED cover
  /\ UNCHANGED <<machineVars, todo, runs, tracer, lossy, newest, trace_file, rows>>

wait_containers ==
  /\ victim = "done"
  /\ Goes("wait", "stop")
  /\ KeepsRun /\ UNCHANGED <<machineVars, tracerVars>>

(* Mutant of StopStressor: that for the CPU, which has no pid, is left.    *)
StopOwnPid ==
  /\ Goes("stop", "reap")
  /\ stressors' = IF Kind = "cpu" THEN stressors ELSE stressors \ {Kind}
  /\ KeepsRun /\ UNCHANGED <<disk, saved, iface, tracerVars>>

(* The pkill of stress-ng is made in every run for the CPU, that of the    *)
(* other stressors only if this run has started one.                       *)
StopStressor ==
  /\ Goes("stop", "reap")
  /\ stressors' = IF Kind = "cpu" \/ Level > 0 THEN stressors \ {Kind} ELSE stressors
  /\ KeepsRun /\ UNCHANGED <<disk, saved, iface, tracerVars>>

(* Mutant of StopTracer: it does not wait for the tracer.                  *)
KillOnly ==
  /\ Goes("reap", "analyze")
  /\ KeepsRun /\ UNCHANGED <<machineVars, tracerVars>>

(* kill and wait: the tracer ends by then.                                 *)
StopTracer ==
  /\ Goes("reap", "analyze")
  /\ ~Alive(runs)
  /\ KeepsRun /\ UNCHANGED <<machineVars, tracerVars>>

(* What the analyzer can find of the victim in the file of tracer i: all   *)
(* that it saw if it has ended; else what it has flushed.                  *)
Readable(i) ==
  IF Alive(i) THEN {"none", cover[i]} \cup (IF cover[i] = "none" THEN {} ELSE {"part"})
  ELSE {cover[i]}

(* The analyzer, and save_puretime_results.  A trace with losses, or none, *)
(* gives no row.  A victim that is not in the trace gives a row of zeros,  *)
(* or one of the softirqs.                                                 *)
Analyze(table, from, to) ==
  /\ Goes(from, to)
  /\ IF trace_file = 0 \/ (trace_file \in lossy /\ ~Alive(trace_file)) THEN UNCHANGED rows
     ELSE \E c \in Readable(trace_file) :
            rows' = rows \cup {[table |-> table, cover |-> c]}
  /\ UNCHANGED <<machineVars, todo, runs, tracerVars, trace_file, victim, mishap>>

(* Mutant of TeardownQdisc: the limit is deleted only if the run had a     *)
(* stressor.                                                               *)
TeardownIfStressed ==
  /\ Goes("clean", "offloads")
  /\ Kind = "network"
  /\ iface' = IF Level > 0 THEN [iface EXCEPT !.qdisc = "default"] ELSE iface
  /\ KeepsRun /\ UNCHANGED <<disk, saved, stressors, tracerVars>>

(* teardown_network_throttle deletes the root qdisc, so that the default   *)
(* one takes its place, and turns the offloads on, whatever they were.     *)
TeardownQdisc ==
  /\ Goes("clean", "offloads")
  /\ Kind = "network"
  /\ iface' = [iface EXCEPT !.qdisc = "default"]
  /\ KeepsRun /\ UNCHANGED <<disk, saved, stressors, tracerVars>>

TeardownOffloads ==
  /\ Goes("offloads", "next")
  /\ iface' = [iface EXCEPT !.offloads = "on"]
  /\ KeepsRun /\ UNCHANGED <<disk, saved, stressors, tracerVars>>

(* restore_io_scheduler, its two halves.                                   *)
RestoreScheduler ==
  /\ Goes("clean", "restore")
  /\ Kind = "block"
  /\ disk' = IF saved.scheduler \in {"", "bfq"} THEN disk
             ELSE [disk EXCEPT !.scheduler = saved.scheduler]
  /\ KeepsRun /\ UNCHANGED <<saved, iface, stressors, tracerVars>>

(* Mutant of RestoreDepth: the guard is that of the scheduler.             *)
RestoreIfNotBfq ==
  /\ Goes("restore", "next")
  /\ disk' = IF saved.depth = NoDepth \/ saved.scheduler = "bfq" THEN disk
             ELSE [disk EXCEPT !.depth = saved.depth]
  /\ KeepsRun /\ UNCHANGED <<saved, iface, stressors, tracerVars>>

RestoreDepth ==
  /\ Goes("restore", "next")
  /\ disk' = IF saved.depth = NoDepth THEN disk ELSE [disk EXCEPT !.depth = saved.depth]
  /\ KeepsRun /\ UNCHANGED <<saved, iface, stressors, tracerVars>>

NothingToClean ==
  /\ Goes("clean", "next")
  /\ Kind = "cpu"
  /\ KeepsRun /\ UNCHANGED <<machineVars, tracerVars>>

(* The loops of main.                                                      *)
NextRun ==
  /\ Goes("next", "idle")
  /\ todo' = Tail(todo)
  /\ NoRun /\ mishap' = FALSE
  /\ UNCHANGED <<machineVars, runs, tracer, lossy, newest>>

Script ==
  \/ Start \/ Stop \/ Begin \/ SetupScheduler \/ SetupDepth \/ SetupOffloads \/ SetupQdisc
  \/ StartTracer \/ get_latest_trace \/ StartStressor \/ start_containers
  \/ wait_containers \/ StopStressor \/ StopTracer
  \/ Analyze("results", "analyze", "ablate") \/ Analyze("results_noattr", "ablate", "clean")
  \/ TeardownQdisc \/ TeardownOffloads \/ RestoreScheduler \/ RestoreDepth \/ NothingToClean
  \/ NextRun

-------------------------------------------------------------------------------
(* The tracers, the victim and the stressors.                              *)

KeepsScript ==
  UNCHANGED <<scripts, step, todo, disk, saved, iface, runs, trace_file, rows, found>>

CreateFile(i) ==
  /\ tracer[i] = "started"
  /\ tracer' = [tracer EXCEPT ![i] = "open"]
  /\ newest' = i
  /\ KeepsScript /\ UNCHANGED <<stressors, lossy, cover, victim, mishap>>

Attach(i) ==
  /\ tracer[i] = "open"
  /\ tracer' = [tracer EXCEPT ![i] = "tracing"]
  /\ cover' = [cover EXCEPT ![i] = IF victim = "running" THEN "part" ELSE @]
  /\ KeepsScript /\ UNCHANGED <<stressors, lossy, newest, victim, mishap>>

(* It cannot create its file or load its programs, or is killed before it  *)
(* handles signals.                                                        *)
FailToStart(i) ==
  /\ tracer[i] \in {"started", "open"}
  /\ tracer' = [tracer EXCEPT ![i] = "ended"]
  /\ mishap' = (step # "off")
  /\ KeepsScript /\ UNCHANGED <<stressors, lossy, newest, cover, victim>>

(* The buffer of the writer is full.                                       *)
Flush(i) ==
  /\ tracer[i] = "tracing"
  /\ newest' = i
  /\ KeepsScript /\ UNCHANGED <<stressors, tracer, lossy, cover, victim, mishap>>

(* It was asked to, its duration is over, or it has lost an event.         *)
End(i) ==
  /\ tracer[i] = "tracing"
  /\ tracer' = [tracer EXCEPT ![i] = "ended"]
  /\ newest' = i
  /\ cover' = [cover EXCEPT ![i] = IF victim = "running" /\ @ = "whole" THEN "part" ELSE @]
  /\ \/ lossy' = lossy \cup {i} /\ UNCHANGED mishap
     \/ /\ UNCHANGED lossy
        /\ mishap' = (mishap \/ (step # "off" /\ victim # "done"))
  /\ KeepsScript /\ UNCHANGED <<stressors, victim>>

VictimEnds ==
  /\ victim = "running"
  /\ victim' = "done"
  /\ KeepsScript /\ UNCHANGED <<stressors, tracerVars, mishap>>

(* A stressor runs for as long as a trace may, or until it is stopped.     *)
StressorEnds(kind) ==
  /\ kind \in stressors
  /\ stressors' = stressors \ {kind}
  /\ KeepsScript /\ UNCHANGED <<tracerVars, victim, mishap>>

Next ==
  \/ Script
  \/ \E i \in Runs : CreateFile(i) \/ Attach(i) \/ FailToStart(i) \/ Flush(i) \/ End(i)
  \/ VictimEnds
  \/ \E i \in DOMAIN Kinds : StressorEnds(Kinds[i])

Spec == Init /\ [][Next]_vars

-------------------------------------------------------------------------------

TypeOK ==
  /\ scripts \in 0 .. MaxScripts /\ runs \in 0 .. MaxRuns
  /\ step \in {"off", "idle", "scheduler", "depth", "throttle", "qdisc", "trace", "pick",
               "stress", "victim", "wait", "stop", "reap", "analyze", "ablate", "clean",
               "restore", "offloads", "next"}
  /\ todo \in Seq([kind : {Kinds[i] : i \in DOMAIN Kinds}, level : Nat])
  /\ disk \in [scheduler : Schedulers, depth : Depths]
  /\ saved \in [scheduler : Schedulers \cup {""}, depth : Depths \cup {NoDepth}]
  /\ iface \in Interfaces
  /\ stressors \subseteq {Kinds[i] : i \in DOMAIN Kinds}
  /\ tracer \in [Runs -> {"none", "started", "open", "tracing", "ended"}]
  /\ lossy \subseteq Runs /\ newest \in 0 .. MaxRuns /\ trace_file \in 0 .. MaxRuns
  /\ victim \in {"none", "running", "done"}
  /\ cover \in [Runs -> {"none", "part", "whole"}]
  /\ rows \subseteq [table : {"results", "results_noattr"}, cover : {"none", "part", "whole"}]
  /\ mishap \in BOOLEAN

(* A script that comes to the end of a run has given the disk back as it   *)
(* found it, its own scheduler and depth, whichever they were.  It leaves  *)
(* no interface throttled that it did not find so; but one that a run for  *)
(* the network has used is left with the default qdisc and all offloads    *)
(* on, which need not be what it had.  (An interrupted script leaves       *)
(* everything changed, and the next one takes it for the machine's own.)   *)
MachineIsGivenBack ==
  step = "idle" => /\ disk = found.disk
                   /\ iface \in {found.iface, [qdisc |-> "default", offloads |-> "on"]}

(* While the victim of a run for the disk is alive, the disk has the short *)
(* queue that makes waiting visible, in every run and whatever an earlier  *)
(* script left behind.                                                     *)
BlockRunsOnShortQueue ==
  step = "wait" /\ Kind = "block" =>
    disk.scheduler = "bfq" /\ disk.depth \in {BLOCK_QUEUE_DEPTH, NoDepth}

(* The solo run, which the others are compared with, is alone: no stressor *)
(* of an earlier run of the same script still runs.                        *)
SoloRunsAlone ==
  step = "wait" /\ Level = 0 => stressors \subseteq found.stressors

(* A row is computed from all of its own victim's life, unless its run met *)
(* one of these: its tracer did not start, was late or ended early, its    *)
(* container was gone too soon, or a tracer of an earlier script still     *)
(* ran.  Of none of these does the script notice anything; but a trace     *)
(* with losses gives no row.                                               *)
RowIsOfWholeRun ==
  mishap \/ \A row \in rows : row.cover = "whole"
===============================================================================
