----------------------------- MODULE HarnessProofs -----------------------------
(***************************************************************************)
(* Every script that comes to the end of a run gives the disk back, the    *)
(* disk's queue is short in every run for the disk, a solo run is alone,   *)
(* and a row is of its whole run: for every plan, all depths and any       *)
(* number of runs, and however often earlier scripts were interrupted.     *)
(***************************************************************************)
EXTENDS Harness, TLAPS

(* The steps of a run between the setup and the cleaning up.               *)
Measuring ==
  {"trace", "pick", "stress", "victim", "wait", "stop", "reap", "analyze", "ablate", "clean"}
Networking == {"throttle", "qdisc", "offloads"}
Calm == {"off", "idle", "next", "scheduler"} \cup Networking

(* Where the disk's own settings are, at each step: on the disk, saved, or *)
(* one of the two each.                                                    *)
SchedulerSaved == saved.scheduler = found.disk.scheduler /\ saved.scheduler # ""
DepthSaved ==
  IF found.disk.depth = NoDepth THEN disk.depth = NoDepth /\ saved.depth = NoDepth
  ELSE saved.depth = found.disk.depth
SchedulerKept == disk.scheduler = found.disk.scheduler
DepthKept == disk.depth = found.disk.depth

DiskInv ==
  /\ disk \in [scheduler : Schedulers, depth : Depths]
  /\ found.disk \in [scheduler : Schedulers, depth : Depths]
  /\ saved \in [scheduler : Schedulers \cup {""}, depth : Depths \cup {NoDepth}]
  /\ step \in Calm \cup Measuring \cup {"depth", "restore"}
  /\ step = "scheduler" => Kind = "block"
  /\ step = "off" \/ found.disk.depth = NoDepth => saved.depth = NoDepth
  /\ step # "off" /\ (step \in Calm \/ (step \in Measuring /\ Kind # "block")) =>
       SchedulerKept /\ DepthKept
  /\ step = "depth" => Kind = "block" /\ SchedulerSaved /\ disk.scheduler = "bfq" /\ DepthKept
  /\ step \in Measuring /\ Kind = "block" =>
       /\ SchedulerSaved /\ disk.scheduler = "bfq"
       /\ DepthSaved /\ disk.depth \in {BLOCK_QUEUE_DEPTH, NoDepth}
  /\ step = "restore" => SchedulerKept /\ DepthSaved

(* The interface is as it was found, or as a run for the network leaves    *)
(* it, but during such a run.                                              *)
Plain == [qdisc |-> "default", offloads |-> "on"]
IfaceInv ==
  /\ iface \in Interfaces
  /\ step \in Networking => Kind = "network"
  /\ step = "offloads" => iface.qdisc = "default"
  /\ \/ iface = found.iface \/ iface = Plain
     \/ step \in {"off", "qdisc", "offloads"} \/ (step \in Measuring /\ Kind = "network")

Inv == DiskInv /\ IfaceInv

LEMMA InitInv == Init => Inv
<1> SUFFICES ASSUME Init PROVE Inv
  OBVIOUS
<1>1. step = "off" /\ iface \in Interfaces /\ disk \in [scheduler : Schedulers, depth : Depths]
  BY InterfacesAssumption DEF Init
<1>2. found.disk = disk
  BY DEF Init, Found
<1>3. saved.depth = NoDepth /\ saved \in [scheduler : Schedulers \cup {""}, depth : Depths \cup {NoDepth}]
  BY DEF Init, Unsaved
<1> QED BY <1>1, <1>2, <1>3 DEF Inv, DiskInv, IfaceInv, Calm, Networking, Measuring

(* A step of the environment touches neither the script nor its settings.  *)
LEMMA EnvironmentInv ==
  ASSUME Inv, UNCHANGED <<step, todo, disk, saved, iface, found>>
  PROVE  Inv'
<1>1. DiskInv'
  BY DEF Inv, DiskInv, Kind, SchedulerSaved, DepthSaved, SchedulerKept, DepthKept
<1>2. IfaceInv'
  BY DEF Inv, IfaceInv, Kind
<1> QED BY <1>1, <1>2 DEF Inv

(* A step of the script from one step to the next within the measurement.  *)
LEMMA MeasuringInv ==
  ASSUME Inv, step \in Measuring, step' \in Measuring,
         UNCHANGED <<todo, disk, saved, iface, found>>
  PROVE  Inv'
<1>1. DiskInv'
  BY DEF Inv, DiskInv, Kind, SchedulerSaved, DepthSaved, SchedulerKept, DepthKept,
     Measuring, Calm, Networking
<1>2. IfaceInv'
  BY DEF Inv, IfaceInv, Kind, Networking, Measuring
<1> QED BY <1>1, <1>2 DEF Inv

LEMMA StepInv == Inv /\ [Next]_vars => Inv'
<1> SUFFICES ASSUME Inv, [Next]_vars PROVE Inv'
  OBVIOUS
<1> USE DepthsAssumption
<1>1. CASE Start
  <2>1. found'.disk = disk /\ found'.iface = iface
    BY <1>1 DEF Start, Found
  <2>2. step = "off" /\ step' = "idle" /\ UNCHANGED <<disk, saved, iface>>
    BY <1>1 DEF Start, machineVars
  <2>3. DiskInv'
    BY <2>1, <2>2 DEF Inv, DiskInv, Calm, Networking, Measuring, SchedulerKept, DepthKept
  <2>4. IfaceInv'
    BY <2>1, <2>2 DEF Inv, IfaceInv, Networking
  <2> QED BY ONLY <2>3, <2>4, Zenon DEF Inv
<1>2. CASE Stop
  BY <1>2 DEF Stop, Inv, DiskInv, IfaceInv, Unsaved, Calm, Networking, Measuring, NoDepth
<1>3. CASE Begin
  BY <1>3 DEF Begin, Goes, Inv, DiskInv, IfaceInv, machineVars, Kind, Calm, Networking, Measuring,
     SchedulerKept, DepthKept
<1>4. CASE SetupScheduler
  BY <1>4 DEF SetupScheduler, Goes, KeepsRun, Inv, DiskInv, IfaceInv, Kind, Calm, Networking, Measuring,
     SchedulerKept, DepthKept, SchedulerSaved, Schedulers
<1>5. CASE SetupDepth
  <2>1. DiskInv'
    BY <1>5 DEF SetupDepth, Goes, KeepsRun, Inv, DiskInv, Kind, Calm, Networking, Measuring,
       SchedulerKept, DepthKept, SchedulerSaved, DepthSaved, Schedulers
  <2>2. IfaceInv'
    BY <1>5 DEF SetupDepth, Goes, KeepsRun, Inv, IfaceInv, Kind, Networking, Measuring
  <2> QED BY <2>1, <2>2 DEF Inv
<1>6. CASE SetupOffloads
  BY <1>6 DEF SetupOffloads, Goes, KeepsRun, Inv, DiskInv, IfaceInv, Interfaces, Kind, Calm, Networking,
     Measuring, SchedulerKept, DepthKept
<1>15. CASE SetupQdisc
  BY <1>15 DEF SetupQdisc, Goes, KeepsRun, Inv, DiskInv, IfaceInv, Interfaces, Kind, Calm, Networking,
     Measuring, SchedulerKept, DepthKept
<1>7. CASE StartTracer \/ get_latest_trace \/ StartStressor \/ start_containers
           \/ wait_containers \/ StopStressor \/ StopTracer
           \/ Analyze("results", "analyze", "ablate") \/ Analyze("results_noattr", "ablate", "clean")
  <2>1. step \in Measuring /\ step' \in Measuring
    BY <1>7 DEF StartTracer, get_latest_trace, StartStressor, start_containers, wait_containers,
       StopStressor, StopTracer, Analyze, Goes, Measuring
  <2>2. UNCHANGED <<todo, disk, saved, iface, found>>
    BY <1>7 DEF StartTracer, get_latest_trace, StartStressor, start_containers, wait_containers,
       StopStressor, StopTracer, Analyze, Goes, KeepsRun, machineVars
  <2> QED BY <2>1, <2>2, MeasuringInv
<1>8. CASE TeardownQdisc
  BY <1>8 DEF TeardownQdisc, Goes, KeepsRun, Inv, DiskInv, IfaceInv, Interfaces, Kind, Calm, Networking,
     Measuring, SchedulerKept, DepthKept
<1>16. CASE TeardownOffloads
  BY <1>16 DEF TeardownOffloads, Goes, KeepsRun, Inv, DiskInv, IfaceInv, Interfaces, Plain, Kind,
     Calm, Networking, Measuring, SchedulerKept, DepthKept
<1>9. CASE RestoreScheduler
  BY <1>9 DEF RestoreScheduler, Goes, KeepsRun, Inv, DiskInv, IfaceInv, Kind, Calm, Networking, Measuring,
     SchedulerKept, DepthKept, SchedulerSaved, DepthSaved, Schedulers
<1>10. CASE RestoreDepth
  BY <1>10 DEF RestoreDepth, Goes, KeepsRun, Inv, DiskInv, IfaceInv, Kind, Calm, Networking, Measuring,
     SchedulerKept, DepthKept, DepthSaved
<1>11. CASE NothingToClean
  BY <1>11 DEF NothingToClean, Goes, KeepsRun, machineVars, Inv, DiskInv, IfaceInv, Kind, Calm, Networking,
     Measuring, SchedulerKept, DepthKept
<1>12. CASE NextRun
  BY <1>12 DEF NextRun, Goes, machineVars, Inv, DiskInv, IfaceInv, Calm, Networking, Measuring,
     SchedulerKept, DepthKept
<1>13. CASE \/ \E i \in Runs : CreateFile(i) \/ Attach(i) \/ FailToStart(i) \/ Flush(i) \/ End(i)
            \/ VictimEnds
            \/ \E i \in DOMAIN Kinds : StressorEnds(Kinds[i])
  <2>1. UNCHANGED <<step, todo, disk, saved, iface, found>>
    BY <1>13 DEF CreateFile, Attach, FailToStart, Flush, End, VictimEnds, StressorEnds, KeepsScript
  <2> QED BY <2>1, EnvironmentInv
<1>14. CASE UNCHANGED vars
  BY <1>14, EnvironmentInv DEF vars, machineVars
<1> QED
  BY <1>1, <1>2, <1>3, <1>4, <1>5, <1>6, <1>7, <1>8, <1>9, <1>10, <1>11, <1>12, <1>13, <1>14,
     <1>15, <1>16
  DEF Next, Script

(* Every script that comes to the end of a run has given the disk back as  *)
(* it found it (restore_io_scheduler undoes what setup_io_scheduler did),  *)
(* and an interface as it found it or with the default qdisc and all       *)
(* offloads on (as teardown_network_throttle leaves it, whatever it was),  *)
(* whatever the order of the runs and the fate of the tracers, and after   *)
(* any number of interrupted scripts.                                      *)
THEOREM GivenBack == Spec => []MachineIsGivenBack
<1>1. Inv => MachineIsGivenBack
  <2> SUFFICES ASSUME Inv, step = "idle" PROVE disk = found.disk /\ iface \in {found.iface, Plain}
    BY DEF MachineIsGivenBack, Plain
  <2>1. disk.scheduler = found.disk.scheduler /\ disk.depth = found.disk.depth
    BY DEF Inv, DiskInv, SchedulerKept, DepthKept, Calm
  <2>2. disk = [scheduler |-> disk.scheduler, depth |-> disk.depth]
    BY DEF Inv, DiskInv
  <2>3. found.disk = [scheduler |-> found.disk.scheduler, depth |-> found.disk.depth]
    BY DEF Inv, DiskInv
  <2>4. iface \in {found.iface, Plain}
    BY DEF Inv, IfaceInv, Measuring
  <2> QED BY <2>1, <2>2, <2>3, <2>4
<1> QED BY InitInv, StepInv, <1>1, PTL DEF Spec

(* The disk's queue is short whenever the victim of a run for the disk is  *)
(* alive: setup_io_scheduler is done in each run, before the tracer starts.*)
THEOREM ShortQueue == Spec => []BlockRunsOnShortQueue
<1>1. Inv => BlockRunsOnShortQueue
  BY DEF Inv, DiskInv, BlockRunsOnShortQueue, Measuring
<1> QED BY InitInv, StepInv, <1>1, PTL DEF Spec

-------------------------------------------------------------------------------

(* The steps of a run, by what has been done.                              *)
BeforeTracer == {"scheduler", "depth", "throttle", "qdisc", "trace"}
BeforeVictim == {"stress", "victim"}
Waited == {"stop", "reap"}
Reaped == {"analyze", "ablate", "clean", "restore", "offloads", "next"}
InRun == BeforeTracer \cup {"pick", "wait"} \cup BeforeVictim \cup Waited \cup Reaped

TracerType ==
  /\ tracer \in [Runs -> {"none", "started", "open", "tracing", "ended"}]
  /\ cover \in [Runs -> {"none", "part", "whole"}]
  /\ runs \in 0 .. MaxRuns

(* What the current run can rely on as long as nothing went wrong: no      *)
(* other tracer runs, its own was picked, and it has seen all of the       *)
(* victim so far, or has told of its losses.                               *)
SoFar ==
  /\ \A i \in Runs \ {runs} : ~Alive(i)
  /\ step \notin BeforeTracer => tracer[runs] # "none"
  /\ step \notin BeforeTracer \cup {"pick"} => trace_file = runs
  /\ step \in BeforeTracer \cup {"pick"} \cup BeforeVictim =>
       victim = "none" /\ (tracer[runs] = "ended" => runs \in lossy)
  /\ step \in {"wait"} \cup Waited \cup Reaped =>
       /\ victim \in {"running", "done"}
       /\ tracer[runs] \in {"tracing", "ended"}
       /\ cover[runs] = "whole" \/ (runs \in lossy /\ tracer[runs] = "ended")
  /\ step \in Waited \cup Reaped => victim = "done"
  /\ step \in Reaped => ~Alive(runs)
  /\ \A row \in rows : row.cover = "whole"

RowInv ==
  /\ TracerType
  /\ step \in InRun \cup {"off", "idle"}
  /\ \A i \in Runs : i > runs => tracer[i] = "none"
  /\ step \in BeforeTracer => tracer[runs] = "none"
  /\ step \in InRun => runs \in Runs
  /\ step \in InRun /\ ~mishap => SoFar
  /\ step \in {"off", "idle"} => rows = {}

LEMMA RowInit == Init => RowInv
  BY BoundAssumption DEF Init, RowInv, TracerType, InRun, BeforeTracer, BeforeVictim, Waited,
     Reaped, Runs

LEMMA RowStep == RowInv /\ [Next]_vars => RowInv'
<1> SUFFICES ASSUME RowInv, [Next]_vars PROVE RowInv'
  OBVIOUS
<1> USE BoundAssumption DEF InRun, BeforeTracer, BeforeVictim, Waited, Reaped
<1>1. CASE Start
  BY <1>1 DEF Start, RowInv, TracerType, tracerVars
<1>2. CASE Stop
  BY <1>2 DEF Stop, NoRun, RowInv, TracerType
<1>3. CASE Begin
  BY <1>3 DEF Begin, NoRun, Goes, RowInv, TracerType, SoFar, Alive, Runs
<1>4. CASE SetupScheduler \/ SetupDepth \/ SetupOffloads \/ SetupQdisc
  BY <1>4 DEF SetupScheduler, SetupDepth, SetupOffloads, SetupQdisc, Goes, KeepsRun, tracerVars,
     RowInv, TracerType, SoFar, Alive
<1>5. CASE StartTracer
  BY <1>5 DEF StartTracer, Goes, KeepsRun, RowInv, TracerType, SoFar, Alive
<1>6. CASE get_latest_trace
  BY <1>6 DEF get_latest_trace, Goes, tracerVars, RowInv, TracerType, SoFar, Alive
<1>7. CASE StartStressor
  BY <1>7 DEF StartStressor, Goes, KeepsRun, tracerVars, RowInv, TracerType, SoFar, Alive
<1>8. CASE start_containers
  BY <1>8 DEF start_containers, Goes, RowInv, TracerType, SoFar, Alive
<1>9. CASE wait_containers \/ StopStressor
  BY <1>9 DEF wait_containers, StopStressor, Goes, KeepsRun, tracerVars, RowInv, TracerType,
     SoFar, Alive
<1>10. CASE StopTracer
  BY <1>10 DEF StopTracer, Goes, KeepsRun, tracerVars, RowInv, TracerType, SoFar, Alive
<1>11. ASSUME NEW table, NEW to \in Reaped, step \in {"analyze", "ablate"}, Analyze(table, step, to)
       PROVE  RowInv'
  BY <1>11 DEF Analyze, Readable, Goes, tracerVars, RowInv, TracerType, SoFar, Alive
<1>12. CASE Analyze("results", "analyze", "ablate") \/ Analyze("results_noattr", "ablate", "clean")
  <2>1. CASE Analyze("results", "analyze", "ablate")
    <3>1. step = "analyze"
      BY <2>1 DEF Analyze, Goes
    <3> QED BY <2>1, <3>1, <1>11
  <2>2. CASE Analyze("results_noattr", "ablate", "clean")
    <3>1. step = "ablate"
      BY <2>2 DEF Analyze, Goes
    <3> QED BY <2>2, <3>1, <1>11
  <2> QED BY <1>12, <2>1, <2>2
<1>13. CASE \/ TeardownQdisc \/ TeardownOffloads \/ RestoreScheduler \/ RestoreDepth
            \/ NothingToClean
  <2>1. /\ step \in Reaped /\ step' \in Reaped
        /\ UNCHANGED <<tracer, cover, runs, trace_file, victim, rows, mishap, lossy>>
    BY <1>13 DEF TeardownQdisc, TeardownOffloads, RestoreScheduler, RestoreDepth, NothingToClean,
       Goes, KeepsRun, tracerVars
  <2> QED BY <2>1 DEF RowInv, TracerType, SoFar, Alive
<1>14. CASE NextRun
  BY <1>14 DEF NextRun, NoRun, Goes, RowInv, TracerType
<1>15. ASSUME NEW i \in Runs, CreateFile(i) PROVE RowInv'
  BY <1>15 DEF CreateFile, KeepsScript, RowInv, TracerType, SoFar, Alive
<1>16. ASSUME NEW i \in Runs, Attach(i) PROVE RowInv'
  BY <1>16 DEF Attach, KeepsScript, RowInv, TracerType, SoFar, Alive
<1>17. ASSUME NEW i \in Runs, FailToStart(i) PROVE RowInv'
  BY <1>17 DEF FailToStart, KeepsScript, RowInv, TracerType, SoFar, Alive
<1>18. ASSUME NEW i \in Runs, Flush(i) PROVE RowInv'
  BY <1>18 DEF Flush, KeepsScript, RowInv, TracerType, SoFar, Alive
<1>19. ASSUME NEW i \in Runs, End(i) PROVE RowInv'
  BY <1>19 DEF End, KeepsScript, RowInv, TracerType, SoFar, Alive
<1>20. CASE VictimEnds
  BY <1>20 DEF VictimEnds, KeepsScript, tracerVars, RowInv, TracerType, SoFar, Alive
<1>21. ASSUME NEW i \in DOMAIN Kinds, StressorEnds(Kinds[i]) PROVE RowInv'
  BY <1>21 DEF StressorEnds, KeepsScript, tracerVars, RowInv, TracerType, SoFar, Alive
<1>22. CASE UNCHANGED vars
  BY <1>22 DEF vars, tracerVars, RowInv, TracerType, SoFar, Alive
<1> QED
  BY <1>1, <1>2, <1>3, <1>4, <1>5, <1>6, <1>7, <1>8, <1>9, <1>10, <1>12, <1>13, <1>14, <1>15,
     <1>16, <1>17, <1>18, <1>19, <1>20, <1>21, <1>22
  DEF Next, Script

(* A row is computed from all of its own victim's life: the order of       *)
(* wait_containers, kill, wait and the analysis lets no row be made of a   *)
(* trace that is still being written, nor of another run's, unless the run *)
(* met one of the mishaps the script has no means against.                 *)
THEOREM WholeRun == Spec => []RowIsOfWholeRun
<1>1. RowInv => RowIsOfWholeRun
  BY DEF RowInv, SoFar, RowIsOfWholeRun, InRun, BeforeTracer, BeforeVictim, Waited, Reaped
<1> QED BY RowInit, RowStep, <1>1, PTL DEF Spec

-------------------------------------------------------------------------------

(* The runs a script is to make: those of each kind are as many as the     *)
(* levels and the iterations, and each is at one of the levels.            *)
KindSet == {Kinds[i] : i \in DOMAIN Kinds}
Run == [kind : KindSet, level : Nat]

LEMMA LevelOfRun ==
  ASSUME NEW n \in 1 .. Len(Levels) * ITERATIONS
  PROVE  /\ ((n - 1) \div ITERATIONS) + 1 \in DOMAIN Levels
         /\ ((n - 1) % Len(Levels)) + 1 \in DOMAIN Levels
<1> DEFINE many == Len(Levels)
           q == (n - 1) \div ITERATIONS
<1>1. many \in Nat /\ ITERATIONS \in Nat /\ DOMAIN Levels = 1 .. many
  BY LevelsAssumption
<1>2. n \in Nat /\ 1 <= n /\ n <= many * ITERATIONS
  BY <1>1
<1> HIDE DEF many
<1>3. many # 0 /\ ITERATIONS # 0
  BY <1>1, <1>2
<1>4. (n - 1) % many \in 0 .. many - 1
  BY <1>1, <1>2, <1>3
<1>5. q \in Nat /\ ITERATIONS * q <= n - 1
  BY <1>1, <1>2, <1>3
<1> HIDE DEF q
<1>6. q < many
  <2> SUFFICES ASSUME many <= q PROVE FALSE
    BY <1>1, <1>5
  <2>1. PICK d \in Nat : q = many + d
    <3>1. q - many \in Nat /\ q = many + (q - many)
      BY <1>1, <1>5
    <3> QED BY <3>1
  <2>2. ITERATIONS * q = many * ITERATIONS + ITERATIONS * d /\ ITERATIONS * d \in Nat
    BY <1>1, <2>1
  <2>3. many * ITERATIONS \in Nat
    BY <1>1
  <2> QED BY <1>2, <1>5, <2>2, <2>3
<1> QED BY <1>1, <1>4, <1>5, <1>6 DEF many, q

LEMMA PlanIsOfRuns ==
  ASSUME NEW resources
  PROVE  Plan(resources) \in Seq(Run)
<1>1. "cpu" \in KindSet /\ "network" \in KindSet /\ "block" \in KindSet
  BY DEF KindSet, Kinds
<1>2. Len(Levels) * ITERATIONS \in Nat
  BY LevelsAssumption
<1>3. \A i \in DOMAIN Levels : Levels[i] \in Nat
  BY LevelsAssumption
<1>4. ASSUME NEW kind \in KindSet
      PROVE  LevelByLevel(kind) \in Seq(Run) /\ Interleaved(kind) \in Seq(Run)
  <2>1. ASSUME NEW n \in 1 .. Len(Levels) * ITERATIONS
        PROVE  /\ [kind |-> kind, level |-> Levels[((n - 1) \div ITERATIONS) + 1]] \in Run
               /\ [kind |-> kind, level |-> Levels[((n - 1) % Len(Levels)) + 1]] \in Run
    BY <1>3, LevelOfRun DEF Run
  <2>2. ASSUME NEW many \in Nat, NEW part, part = [n \in 1 .. many |-> part[n]],
               \A n \in 1 .. many : part[n] \in Run
        PROVE  part \in Seq(Run)
    BY <2>2
  <2>3. LevelByLevel(kind) \in Seq(Run)
    BY <1>2, <2>1, <2>2 DEF LevelByLevel
  <2>4. Interleaved(kind) \in Seq(Run)
    BY <1>2, <2>1, <2>2 DEF Interleaved
  <2> QED BY <2>3, <2>4
<1>5. <<>> \in Seq(Run)
  OBVIOUS
<1>6. /\ LevelByLevel("cpu") \in Seq(Run) /\ LevelByLevel("network") \in Seq(Run)
      /\ Interleaved("block") \in Seq(Run)
  BY <1>1, <1>4
<1>7. ASSUME NEW part \in Seq(Run), NEW kind
      PROVE  (IF kind \in resources THEN part ELSE <<>>) \in Seq(Run)
  BY <1>5
<1>8. ASSUME NEW first \in Seq(Run), NEW second \in Seq(Run), NEW third \in Seq(Run)
      PROVE  first \o second \o third \in Seq(Run)
  OBVIOUS
<1> QED BY <1>6, <1>7, <1>8 DEF Plan

(* A run is going on only if the script has it to do.                      *)
ScriptTypes ==
  /\ scripts \in 0 .. MaxScripts /\ runs \in 0 .. MaxRuns
  /\ step \in InRun \cup {"off", "idle"}
  /\ todo \in Seq(Run) /\ stressors \subseteq KindSet
  /\ step \in InRun => todo # <<>>

TraceTypes ==
  /\ lossy \subseteq Runs /\ newest \in 0 .. MaxRuns /\ trace_file \in 0 .. MaxRuns
  /\ victim \in {"none", "running", "done"}

RowTypes == rows \subseteq [table : {"results", "results_noattr"}, cover : {"none", "part", "whole"}]
FlagTypes == mishap \in BOOLEAN

ScriptInv ==
  /\ Inv /\ RowInv
  /\ ScriptTypes /\ TraceTypes /\ RowTypes /\ FlagTypes

LEMMA ScriptInit == Init => ScriptInv
<1> SUFFICES ASSUME Init PROVE ScriptInv
  OBVIOUS
<1>1. Inv /\ RowInv
  BY InitInv, RowInit
<1>2. ScriptTypes
  BY BoundAssumption DEF Init, ScriptTypes, InRun, BeforeTracer, BeforeVictim, Waited, Reaped
<1>3. TraceTypes /\ RowTypes
  BY BoundAssumption DEF Init, TraceTypes, RowTypes
<1>4. FlagTypes
  BY DEF Init, FlagTypes
<1> QED BY <1>1, <1>2, <1>3, <1>4 DEF ScriptInv

LEMMA RunToDo ==
  ASSUME ScriptTypes, step \in InRun
  PROVE  Tail(todo) \in Seq(Run) /\ Kind \in KindSet /\ Level \in Nat
<1>1. todo \in Seq(Run) /\ todo # <<>>
  BY DEF ScriptTypes
<1>2. Head(todo) \in Run /\ Tail(todo) \in Seq(Run)
  BY <1>1
<1> QED BY <1>2 DEF Kind, Level, Run

LEMMA ScriptTypesStep == ScriptTypes /\ [Next]_vars => ScriptTypes'
<1> SUFFICES ASSUME ScriptTypes, [Next]_vars PROVE ScriptTypes'
  OBVIOUS
<1> USE BoundAssumption DEF InRun, BeforeTracer, BeforeVictim, Waited, Reaped
<1>1. CASE Start
  <2>1. PICK resources : todo' = Plan(resources)
    BY <1>1 DEF Start
  <2>2. todo' \in Seq(Run)
    BY <2>1, PlanIsOfRuns
  <2> QED BY <1>1, <2>2 DEF Start, ScriptTypes, machineVars
<1>2. CASE Stop
  BY <1>2 DEF Stop, ScriptTypes
<1>3. CASE Begin
  BY <1>3 DEF Begin, Goes, ScriptTypes, machineVars
<1>4. CASE StartStressor
  <2>1. Kind \in KindSet
    BY <1>4, RunToDo DEF StartStressor, Goes
  <2> QED BY <1>4, <2>1 DEF StartStressor, Goes, KeepsRun, ScriptTypes
<1>5. CASE StopStressor
  BY <1>5 DEF StopStressor, Goes, KeepsRun, ScriptTypes
<1>6. CASE \/ SetupScheduler \/ SetupDepth \/ SetupOffloads \/ SetupQdisc \/ StartTracer
           \/ get_latest_trace \/ start_containers \/ wait_containers \/ StopTracer
           \/ Analyze("results", "analyze", "ablate") \/ Analyze("results_noattr", "ablate", "clean")
           \/ TeardownQdisc \/ TeardownOffloads \/ RestoreScheduler \/ RestoreDepth \/ NothingToClean
  <2>1. /\ step \in InRun /\ step' \in InRun
        /\ UNCHANGED <<scripts, runs, todo, stressors>>
    BY <1>6 DEF SetupScheduler, SetupDepth, SetupOffloads, SetupQdisc, StartTracer, get_latest_trace,
       start_containers, wait_containers, StopTracer, Analyze, TeardownQdisc, TeardownOffloads,
       RestoreScheduler, RestoreDepth, NothingToClean, Goes, KeepsRun, machineVars
  <2> QED BY <2>1 DEF ScriptTypes
<1>7. CASE NextRun
  <2>1. step = "next" /\ step' = "idle" /\ UNCHANGED <<scripts, runs, stressors>>
    BY <1>7 DEF NextRun, Goes, machineVars
  <2>2. todo' \in Seq(Run)
    BY <1>7, <2>1, RunToDo DEF NextRun
  <2> QED BY <2>1, <2>2 DEF ScriptTypes
<1>8. CASE \/ \E i \in Runs : CreateFile(i) \/ Attach(i) \/ FailToStart(i) \/ Flush(i) \/ End(i)
           \/ VictimEnds
           \/ \E i \in DOMAIN Kinds : StressorEnds(Kinds[i])
  <2>1. stressors' \subseteq stressors /\ UNCHANGED <<scripts, step, todo, runs>>
    BY <1>8 DEF CreateFile, Attach, FailToStart, Flush, End, VictimEnds, StressorEnds, KeepsScript
  <2> QED BY <2>1 DEF ScriptTypes
<1>9. CASE UNCHANGED vars
  BY <1>9 DEF vars, machineVars, ScriptTypes
<1> QED BY <1>1, <1>2, <1>3, <1>4, <1>5, <1>6, <1>7, <1>8, <1>9 DEF Next, Script

LEMMA TraceTypesStep == TraceTypes /\ [Next]_vars => TraceTypes'
<1> SUFFICES ASSUME TraceTypes, [Next]_vars PROVE TraceTypes'
  OBVIOUS
<1> USE BoundAssumption DEF Runs
<1>1. CASE Start \/ StartTracer
  BY <1>1 DEF Start, StartTracer, Goes, KeepsRun, tracerVars, TraceTypes
<1>2. CASE Stop \/ Begin \/ NextRun
  <2>1. trace_file' = 0 /\ victim' = "none" /\ UNCHANGED <<lossy, newest>>
    BY <1>2 DEF Stop, Begin, NextRun, NoRun
  <2> QED BY <2>1 DEF TraceTypes
<1>3. CASE get_latest_trace \/ start_containers
  BY <1>3 DEF get_latest_trace, start_containers, Goes, tracerVars, TraceTypes
<1>4. CASE \/ SetupScheduler \/ SetupDepth \/ SetupOffloads \/ SetupQdisc \/ StartStressor
           \/ StopStressor \/ wait_containers \/ StopTracer
           \/ Analyze("results", "analyze", "ablate") \/ Analyze("results_noattr", "ablate", "clean")
           \/ TeardownQdisc \/ TeardownOffloads \/ RestoreScheduler \/ RestoreDepth \/ NothingToClean
  <2>1. UNCHANGED <<lossy, newest, trace_file, victim>>
    BY <1>4 DEF SetupScheduler, SetupDepth, SetupOffloads, SetupQdisc, StartStressor, StopStressor,
       wait_containers, StopTracer, Analyze, TeardownQdisc, TeardownOffloads,
       RestoreScheduler, RestoreDepth, NothingToClean, KeepsRun, tracerVars
  <2> QED BY <2>1 DEF TraceTypes
<1>5. ASSUME NEW i \in Runs, CreateFile(i) \/ Attach(i) \/ FailToStart(i) \/ Flush(i) \/ End(i)
      PROVE  TraceTypes'
  <2>1. newest' \in {newest, i} /\ lossy' \subseteq lossy \cup {i} /\ UNCHANGED <<trace_file, victim>>
    BY <1>5 DEF CreateFile, Attach, FailToStart, Flush, End, KeepsScript
  <2> QED BY <1>5, <2>1 DEF TraceTypes
<1>6. CASE VictimEnds \/ \E i \in DOMAIN Kinds : StressorEnds(Kinds[i])
  BY <1>6 DEF VictimEnds, StressorEnds, KeepsScript, tracerVars, TraceTypes
<1>7. CASE UNCHANGED vars
  BY <1>7 DEF vars, tracerVars, TraceTypes
<1> QED BY <1>1, <1>2, <1>3, <1>4, <1>5, <1>6, <1>7 DEF Next, Script

LEMMA RowTypesStep == TraceTypes /\ TracerType /\ RowTypes /\ [Next]_vars => RowTypes'
<1> SUFFICES ASSUME TraceTypes, TracerType, RowTypes, [Next]_vars PROVE RowTypes'
  OBVIOUS
<1>1. CASE Stop \/ Begin \/ NextRun
  BY <1>1 DEF Stop, Begin, NextRun, NoRun, RowTypes
<1>2. ASSUME NEW table \in {"results", "results_noattr"}, NEW from, NEW to, Analyze(table, from, to)
      PROVE  RowTypes'
  <2>1. CASE UNCHANGED rows
    BY <2>1 DEF RowTypes
  <2>2. ASSUME NEW c \in Readable(trace_file), trace_file # 0,
               rows' = rows \cup {[table |-> table, cover |-> c]}
        PROVE  RowTypes'
    <3>1. trace_file \in Runs
      BY <2>2, BoundAssumption DEF TraceTypes, Runs
    <3>2. c \in {"none", "part", "whole"}
      BY <2>2, <3>1 DEF Readable, TracerType
    <3> QED BY <2>2, <3>2 DEF RowTypes
  <2> QED BY <1>2, <2>1, <2>2 DEF Analyze
<1>3. CASE UNCHANGED rows
  BY <1>3 DEF RowTypes
<1>4. CASE \/ Start \/ SetupScheduler \/ SetupDepth \/ SetupOffloads \/ SetupQdisc \/ StartTracer
           \/ get_latest_trace \/ StartStressor \/ start_containers \/ wait_containers
           \/ StopStressor \/ StopTracer \/ TeardownQdisc \/ TeardownOffloads \/ RestoreScheduler
           \/ RestoreDepth \/ NothingToClean \/ UNCHANGED vars
  <2>1. UNCHANGED rows
    BY <1>4 DEF Start, SetupScheduler, SetupDepth, SetupOffloads, SetupQdisc, StartTracer,
       get_latest_trace, StartStressor, start_containers, wait_containers, StopStressor, StopTracer,
       TeardownQdisc, TeardownOffloads, RestoreScheduler, RestoreDepth, NothingToClean, KeepsRun, vars
  <2> QED BY <2>1, <1>3
<1>5. CASE \/ \E i \in Runs : CreateFile(i) \/ Attach(i) \/ FailToStart(i) \/ Flush(i) \/ End(i)
           \/ VictimEnds
           \/ \E i \in DOMAIN Kinds : StressorEnds(Kinds[i])
  <2>1. UNCHANGED rows
    BY <1>5 DEF CreateFile, Attach, FailToStart, Flush, End, VictimEnds, StressorEnds, KeepsScript
  <2> QED BY <2>1, <1>3
<1> QED BY <1>1, <1>2, <1>4, <1>5 DEF Next, Script

LEMMA FlagTypesStep == FlagTypes /\ [Next]_vars => FlagTypes'
<1> SUFFICES ASSUME FlagTypes, [Next]_vars PROVE FlagTypes'
  OBVIOUS
<1>1. mishap' \in BOOLEAN
  <2>1. CASE Stop \/ NextRun
    BY <2>1 DEF Stop, NextRun
  <2>2. CASE Begin
    BY <2>2, Zenon DEF Begin
  <2>3. CASE get_latest_trace
    BY <2>3, Zenon DEF get_latest_trace
  <2>4. CASE start_containers
    BY <2>4, Zenon DEF start_containers, FlagTypes
  <2>5. ASSUME NEW i \in Runs, FailToStart(i) PROVE mishap' \in BOOLEAN
    BY <2>5, Zenon DEF FailToStart
  <2>6. ASSUME NEW i \in Runs, End(i) PROVE mishap' \in BOOLEAN
    BY <2>6, Zenon DEF End, FlagTypes
  <2>7. CASE \/ Start \/ SetupScheduler \/ SetupDepth \/ SetupOffloads \/ SetupQdisc \/ StartTracer
             \/ StartStressor \/ wait_containers \/ StopStressor \/ StopTracer
             \/ Analyze("results", "analyze", "ablate")
             \/ Analyze("results_noattr", "ablate", "clean")
             \/ TeardownQdisc \/ TeardownOffloads \/ RestoreScheduler \/ RestoreDepth \/ NothingToClean
             \/ UNCHANGED vars
    <3>1. UNCHANGED mishap
      BY <2>7 DEF Start, SetupScheduler, SetupDepth, SetupOffloads, SetupQdisc, StartTracer,
         StartStressor, wait_containers, StopStressor, StopTracer, Analyze,
         TeardownQdisc, TeardownOffloads, RestoreScheduler, RestoreDepth, NothingToClean, KeepsRun, vars
    <3> QED BY <3>1 DEF FlagTypes
  <2>8. ASSUME NEW i \in Runs, CreateFile(i) \/ Attach(i) \/ Flush(i)
        PROVE  mishap' \in BOOLEAN
    BY <2>8 DEF CreateFile, Attach, Flush, FlagTypes
  <2>9. CASE VictimEnds \/ \E i \in DOMAIN Kinds : StressorEnds(Kinds[i])
    BY <2>9 DEF VictimEnds, StressorEnds, FlagTypes
  <2> QED BY <2>1, <2>2, <2>3, <2>4, <2>5, <2>6, <2>7, <2>8, <2>9 DEF Next, Script
<1> QED BY <1>1 DEF FlagTypes

LEMMA ScriptStep == ScriptInv /\ [Next]_vars => ScriptInv'
<1> SUFFICES ASSUME ScriptInv, [Next]_vars PROVE ScriptInv'
  OBVIOUS
<1>1. Inv' /\ RowInv'
  BY StepInv, RowStep DEF ScriptInv
<1>2. ScriptTypes' /\ TraceTypes' /\ FlagTypes'
  BY ScriptTypesStep, TraceTypesStep, FlagTypesStep DEF ScriptInv
<1>3. RowTypes'
  BY RowTypesStep DEF ScriptInv, RowInv
<1> QED BY <1>1, <1>2, <1>3 DEF ScriptInv

(* The harness keeps its types, for every plan of runs.                    *)
THEOREM TypeCorrect == Spec => []TypeOK
<1>1. ScriptInv => TypeOK
  BY DEF ScriptInv, Inv, DiskInv, IfaceInv, RowInv, TracerType, ScriptTypes, TraceTypes, RowTypes, FlagTypes,
     TypeOK, Run, KindSet, InRun, BeforeTracer, BeforeVictim, Waited, Reaped
<1> QED BY ScriptInit, ScriptStep, <1>1, PTL DEF Spec

-------------------------------------------------------------------------------

(* Of the stressors that the script did not find, only that of the current *)
(* run can be alive, and only from its start until the run has stopped it. *)
Stressed == {"victim", "wait", "stop"}
OwnStressor == IF step \in Stressed /\ Level > 0 THEN {Kind} ELSE {}
StressInv == step # "off" => stressors \subseteq found.stressors \cup OwnStressor

LEMMA StressInit == Init => StressInv
  BY DEF Init, StressInv

(* A step that leaves the run, its stressors and its step within or        *)
(* without the time of the stressor.                                       *)
LEMMA SameStress ==
  ASSUME StressInv, step # "off", step' # "off" => (step' \in Stressed <=> step \in Stressed),
         stressors' \subseteq stressors, UNCHANGED <<todo, found>>
  PROVE  StressInv'
  BY DEF StressInv, OwnStressor, Level, Kind

LEMMA StressStep == ScriptInv /\ StressInv /\ [Next]_vars => StressInv'
<1> SUFFICES ASSUME ScriptInv, StressInv, [Next]_vars PROVE StressInv'
  OBVIOUS
<1>1. CASE Start
  BY <1>1 DEF Start, Found, machineVars, StressInv, OwnStressor, Stressed
<1>2. CASE Stop
  BY <1>2 DEF Stop, StressInv
<1>3. CASE Begin \/ NextRun
  BY <1>3 DEF Begin, NextRun, Goes, machineVars, StressInv, OwnStressor, Stressed
<1>4. CASE \/ SetupScheduler \/ SetupDepth \/ SetupOffloads \/ SetupQdisc \/ StartTracer
           \/ get_latest_trace \/ start_containers \/ wait_containers \/ StopTracer
           \/ Analyze("results", "analyze", "ablate") \/ Analyze("results_noattr", "ablate", "clean")
           \/ TeardownQdisc \/ TeardownOffloads \/ RestoreScheduler \/ RestoreDepth \/ NothingToClean
  <2>1. /\ step # "off" /\ step' # "off" /\ (step' \in Stressed <=> step \in Stressed)
        /\ UNCHANGED <<stressors, todo, found>>
    BY <1>4 DEF SetupScheduler, SetupDepth, SetupOffloads, SetupQdisc, StartTracer, get_latest_trace,
       start_containers, wait_containers, StopTracer, Analyze, TeardownQdisc, TeardownOffloads,
       RestoreScheduler, RestoreDepth, NothingToClean, Goes, KeepsRun, machineVars, Stressed
  <2> QED BY <2>1, SameStress
<1>5. CASE StartStressor
  BY <1>5 DEF StartStressor, Goes, KeepsRun, StressInv, OwnStressor, Stressed, Level, Kind
<1>6. CASE StopStressor
  <2>1. step = "stop" /\ step' = "reap" /\ UNCHANGED <<todo, found>>
    BY <1>6 DEF StopStressor, Goes, KeepsRun
  <2>2. stressors' \subseteq found.stressors
    BY <1>6, <2>1 DEF StopStressor, StressInv, OwnStressor
  <2> QED BY <2>1, <2>2 DEF StressInv
<1>7. CASE \/ \E i \in Runs : CreateFile(i) \/ Attach(i) \/ FailToStart(i) \/ Flush(i) \/ End(i)
           \/ VictimEnds
           \/ \E i \in DOMAIN Kinds : StressorEnds(Kinds[i])
  <2>1. stressors' \subseteq stressors /\ UNCHANGED <<step, todo, found>>
    BY <1>7 DEF CreateFile, Attach, FailToStart, Flush, End, VictimEnds, StressorEnds, KeepsScript
  <2> QED BY <2>1 DEF StressInv, OwnStressor, Level, Kind
<1>8. CASE UNCHANGED vars
  BY <1>8 DEF vars, machineVars, StressInv, OwnStressor, Level, Kind
<1> QED BY <1>1, <1>2, <1>3, <1>4, <1>5, <1>6, <1>7, <1>8 DEF Next, Script

(* A solo run is alone but for what the script found running: every run    *)
(* stops its own stressor before the next begins, though what it stops it  *)
(* by differs with the kind and the level of the run.                      *)
THEOREM SoloIsAlone == Spec => []SoloRunsAlone
<1>1. ScriptInv /\ StressInv => SoloRunsAlone
  <2> SUFFICES ASSUME StressInv, step = "wait", Level = 0
               PROVE  stressors \subseteq found.stressors
    BY DEF SoloRunsAlone
  <2> QED BY DEF StressInv, OwnStressor
<1> QED BY ScriptInit, ScriptStep, StressInit, StressStep, <1>1, PTL DEF Spec
===============================================================================
