# PureTime in TLA+

PureTime reports how long a serverless function would have taken without its
neighbours: an eBPF tracer records scheduling, network, disk and softirq events,
a loader writes them to a file, and an offline analyzer subtracts the time the
function waited behind others.  A wrong number looks like a right one, so what
matters is that the trace is what happened or is refused, and that the
subtraction removes waiting and nothing else.

Paths below are relative to the repository.

## 1. The system

| Component | Code | State | Operations | Talks to |
|---|---|---|---|---|
| Tracer, hooks | `src/puretime.bpf.c` | none of their own | eight programs that reserve, fill and submit one record (`handle_sched_switch`: up to two) | ring buffer, drop counter |
| Tracer, drop counter | `dropped_events`, `count_drop` | a counter per CPU | one increment per failed reservation | read by the loader |
| Tracer, socket tracking | `tracked_sockets`, `tcp_sendmsg_entry`, `tcp_close_entry` | socket to cgroup | register, forget, look up | the net programs |
| Loader | `src/puretime.c` | `exiting`, `err`, start time | set up, poll, `handle_event`, stop, trailer, clean up | ring buffer (libbpf), JSON writer |
| JSON writer | `src/json_writer.c` | buffer and its position | `jw_write`, flush, destroy | stdio |
| Noise-free analyzer | `tests/noise_free_makespan.py` (copied to `experiments/`) | pending starts, service histories, waits per cgroup, lifetimes | two passes, eight handlers, `_compute_results` | the trace file |
| Latency analyzer | `tests/analyze_trace.py` | pending starts, statistics | as above, simpler | the trace file |
| Experiment harness | `experiments/exp_accuracy_by_type.sh` (and variants) | the original scheduler and queue depth, the trace picked, the pids it started | plan, set up, run, analyze, restore | all of the above, the disk and the interface |
| Plots, workload functions, bootstrap demo | `experiments/*.py`, `funcs/`, `src/bootstrap.*` | none that matters | | |

Where it is hard:

- **Programs against the loader.**  Programs run on every CPU at once and may be
  between reservation and submission when the consumer arrives; a full ring
  loses some events and keeps others; the counter is a second, later step; the
  loader may stop, or be killed, between any two of these.
- **The file.**  A 4 MiB buffer stands between a line and the disk; a flush, and
  a crash, may cut a line; any call of stdio may fail, and the writer looks at the
  result of one of four.
- **Order.**  Timestamps are taken after the reservation, on several CPUs; the
  file is not in order of time, and the analyzer's bisections need it to be.
- **Matching.**  Starts and completions are matched by thread or by address.
  Starts are overwritten, completions come without starts, addresses are
  reused, cgroups are resolved twice.
- **Interval arithmetic.**  Empty windows, equal timestamps, leading slices,
  siblings of the measured cgroup, overlapping waits, charges outside the
  lifetime.
- **What the hooks see.**  A preemption in favour of a root thread, a packet that
  bypasses its queue, a merged request leave no event; others leave one too many.
  The socket map must follow connections whose addresses are used again.
- **Attribution of softirqs** by number of events, with a rounded ratio.
- **Background processes of a script** that picks its trace by date and may be
  interrupted anywhere.

What makes each part correct is stated as properties in section 3;
`PROJECT.json` lists the hazards line by line with the properties that cover
each.

## 2. The modules

    AppendLog  <= JsonWriter ------ Tracer
    CpuOccupancy   <= CpuWait ----+-- SchedCapture
                                  |
    QueueOccupancy <= QueueWait --+-- QueueCapture
                                  |
                      Softirq ----+-- NoiseFree
    WaitWindows: the interval arithmetic of CpuWait and QueueWait
    JsonWriterPlaces: JsonWriter with a history of where its bytes went
    Harness

`<=` reads "is implemented by", checked by TLC as a refinement and proved.  A
composed module keeps to its parts: the loader changes its writer by JsonWriter's
own actions only, and the CPUs and the two queues of NoiseFree keep to their
accountings (`WaitsAreExact`, which is proved).

**JsonWriter** is `json_writer.c`.  `buffer` is `buffer[0 .. buffer_pos)`, `disk`
what `fwrite` has accepted, less what was lost since, and `held` how much of its
end stdio has still to hand on.  The callers of `jw_write` are the members of
`Data`: formatting only decides which bytes are passed.  Up to `MaxFaults` writes
to the file fail, each at any call that writes: the `fwrite` of a flush, the only
one whose result is looked at, and of a fragment as large as the buffer
(`Direct`), the `fflush`, the `fclose`.  `Partly` is what a failure can leave of the file:
any cut between what was safe and what was to be written.  `FlushOutcomes` has the
success of a flush, the short `fwrite` that keeps the buffer, and the failing
`fflush` behind which it is reset all the same; `RoomOutcomes` is the flush at the
top of `jw_write`.  A copy past the end of the buffer has no defined outcome, and
the model stops in state `"overrun"`.

**JsonWriterPlaces** adds to it the place of each byte in the file followed by
the buffer (`places`), or that it is lost.  After a short write the file holds
bytes twice, and which of them is the one that was passed to `jw_write` is known
from the steps only: `Placed` moves the places of the bytes that a flush did not
reset.

**AppendLog** is what such a writer promises: a log that only grows, a prefix of
it durable, a crash keeping a prefix, a close keeping all.

**Tracer** composes the programs, the ring, the loader and the writer (an
instance of JsonWriter whose bytes are halves of lines).  A record is its rank in
the order of reservation; `attempts` says of each whether it is busy, ready or
lost.  The writer fails in all the ways of JsonWriter; only `held` is fixed at 0,
as nothing but a fragment as large as the buffer leaves anything in stdio behind a
call, and no line of the loader is four megabytes long.  A program is a little process (`hook`): `Fire`, `Submit`, `SecondReserve`,
`CountDrop`; `owed` is the number of records it still wants.  The loader has one
action per step of `main` that others can fall between; `Signal`, `Elapse` and
`Killed` are its environment.  Records are given equal size, and the ring
`RingSlots` of them.  libbpf and the kernel's ring are modelled from how the
loader uses them (`InRing`, `NextRecord`, `RecordReady`, `DrainDone`).  `CanMisread` is the
`return 0` of `read_dropped_events` without memory or map.  The
analyzer's test of the trailer is `Accepted`, over the lines it can parse
(`WholeLines`): after a failed write such a line may begin with one record and
end with the brace of another.  The end of `main` is three steps, `FlushWriter`,
`CloseWriter` (`json_writer_destroy`, which flushes again) and `Detach`; the
results of both flushes are ignored.  After an overrun the loader takes no more
steps: what it does then is undefined.  No program starts once `MaxEvents`
records were wanted; those that run by then may each want one more, which makes
`MaxRecords`.  The sum of the counters is the number of `Drops`, each the n-th
increment of its CPU.  In the loader, `err` after a
successful poll is 0 rather than the number of records: nothing distinguishes
the two.

**WaitWindows** holds the arithmetic of `_handle_switch`, `_handle_net_dequeue`
and `_handle_block_issue`.  Time is whole nanoseconds, so a half-open interval is
the set of its instants, the union of `portion` intervals is the union of sets,
and `interval_sum` is a cardinality.

**CpuWait**, **QueueWait** and **Softirq** are the handlers, one action each; an
action is one event of the sorted trace, with any timestamp not before the last.
Each also takes the events of the other handlers (`OtherEvent`), which only move
the clock of the trace on.
QueueWait is both the network (`device = "net"`) and the disk (`"block"`), which
differ in the leading slice; the other difference is a comment: that of
`_handle_net_dequeue` says `> my_queue_ts`, and both include equality.  The
cgroup of a service is independent of that of its start, as the tracer resolves
them apart.  In Softirq, `Shares` is `int(duration * (n / total))` in double
precision: the exact quotient or, where that is a whole number, possibly one
less.  A product that is not whole is at least `1 / total` away from a whole number,
far more than the rounding error of a softirq's duration in nanoseconds, so its
integer part is exact.

**CpuOccupancy** and **QueueOccupancy** say what waiting means without looking
back: as time passes, instants add up against each waiting thread or request,
by the state of the resource at that moment.  The detailed modules reconstruct
the same from what was recorded.  For CpuOccupancy that is "while a thread waits,
the instants at which somebody else holds the CPU it will be switched in on".
For QueueOccupancy it is the first-come-first-served reading of the code: from
the first foreign service since the start, plus what was going on at the start
for the disk.  An event of another handler is a `Pass`: time goes by and nothing
else happens.

**NoiseFree** runs all of them on one trace: it extends Softirq, and instances of
CpuWait and QueueWait (twice) share its `now` and `events`; an action is one event
with everything it does (a dequeue also counts in the CPU's softirq, every event
extends the lifetime of the cgroup it is stamped with), and `_compute_results`
is a set of operators, so its properties are checked after every prefix of a
trace.  Softirq's `log`, a history of the softirqs and of the services counted in
them, is kept here too.

**SchedCapture** puts the two scheduler hooks between a kernel and CpuWait.  The
kernel is modelled from what the hooks are attached to and read: threads block,
wake, are moved between run queues, are requeued while they wait or run, and each
CPU switches to a thread that waits for it or idles.  `Schedule` keeps apart
what the hook reads of the previous thread, `prev_state == 0` (`runnable`), and
whether it stays on its run queue (`stays`): a thread that is preempted on its way
to sleep, or has a signal pending, does in another state than `TASK_RUNNING`.
`handle_enqueue_task` and
`handle_sched_switch` turn a step of it into the events they record, with their
filter (`Container`); `Handle` gives them to the analyzer.  Beside it stands the
truth: at which instants a thread of the cgroup waited (`waited`) and at which
it did so behind another container (`behind`, `due`).  What is charged is
compared with that.  Measured threads and the others differ only in `CgOf`.

**QueueCapture** does the same for QueueWait, for the network or the disk.
Sockets are opened, used by several cgroups and closed; `tcp_sendmsg_entry` and
`tcp_close_entry` maintain `tracked_sockets`; each of the four programs of the
queues (`handle_net_dev_queue`, ...) comes up with a cgroup its own way: the map,
else the socket's (`SocketCgroup`); the owner's blkcg, else whatever thread is
current (`RequestCgroups`).  Packets and requests may leave their queue unserved,
be served without having been queued, and their addresses are used again.  The
truth is which were queued (`queuedFor`) and when the first of another user was
served (`firstForeign`).

**Harness** is `exp_accuracy_by_type.sh`.  `step` is where the script is, `todo`
the runs that are left of the plan; there is one action per step that something
else can fall between.  The disk's settings, the interface's (its root qdisc and
its offloads) and the stressors survive the script, `saved` does not, and of the
interface it saves nothing.  A tracer is reduced to what the script
depends on: it creates its file, attaches, flushes, ends; `cover` is how much of
the victim's life it has seen, `newest` is what `ls -t` puts first.  `Stop` is
`set -e` or a signal, at any step; `Start` begins again, beside what is left.

## 3. Runs

| Run | Instance | What it shows |
|---|---|---|
| `json_writer` | four-byte buffer, fragments of 1 to 4 bytes, 8 bytes in all, two failing writes (214,594 states) | `ImplementsLog`, `CopyStaysInBuffer`: no loss, repetition or overrun until a write fails, at every crash point; `OnlyUnnoticedLoses`: after it, a byte is lost only to a failure the writer does not look at, and no byte is swapped with another |
| `tracer` | 2 CPUs, ring of 2, 2 records wanted (up to 4), buffer of 4 half lines, one failed reading of the counters, one failing write (422,596 states) | `TraceIsRingPrefix` at every moment; `AcceptedTraceHasNoHole`, also behind the failed write, `OrderlyExitKeepsEverything` at the end; `CountTracksLoss`; `StopsWhenAsked`, `SubmittedIsHandled` |
| `tracer_incomplete` | 2 CPUs, ring of 1, 2 records wanted | violated: `IncompleteTraceRejected` |
| `tracer_killed` | as above, 3 records | violated: `DropRejected` |
| `cpu_wait` | 2 CPUs, 2 + 1 threads, times 0..3, 6 events | `ImplementsOccupancy`, `HistoriesInOrder` |
| `queue_wait` | 2 addresses, 2 cgroups, times 0..4, 5 events, both devices | `ImplementsOccupancy`, `HistoryInOrder` |
| `softirq` | 2 CPUs, 2 cgroups, times 0..3, 5 events | `SharesComeFromService`, `SelfAndOtherDisjoint` |
| `noise_free` | 1 CPU, a thread each of 2 cgroups, 1 packet, 1 request, times 0..3, 4 events (1,539,669 states) | `NoiseFreeInBounds`, `QueueWaitsAreOutstanding`, `SoloRunLosesNothing` |
| `over_removal` | the same | violated: `NoOverRemoval` |
| `sched_capture` | 2 CPUs, a thread each of the victim, another container and root, times 0..3, 7 events (1,783,312 states) | `ChargedIsWaiting`: only waiting is charged; `ForeignHoldIsCharged`: all waiting behind another container is, if an event told of its beginning |
| `queue_capture` | 2 addresses, 2 sockets, room for one in the map, 2 containers and root, times 0..2, 4 events, both devices, io delegated or not | `TrackedIsLastSender`, `ChargedWhileQueued`, `ChargedBehindOthers` |
| `harness` | a solo and a stressed run of each kind, every choice of RESOURCES, 2 starts of the script, 3 runs in all, disks with no, the short and a long queue, an interface as the kernel makes it or tuned (8,058,340 states) | `MachineIsGivenBack`, `BlockRunsOnShortQueue`, `SoloRunsAlone`, `RowIsOfWholeRun` |

**Why the bounds are enough.**  Four bytes let a fragment meet the buffer exactly
full, one short of full, empty, and be as large as it.  A ring of two holds a
busy record in front of a ready one, loses the first or the second record of a
switch, and can take a later record after an earlier loss, which needs one CPU to
lose while the other is between its two records.  One failing write cuts a line,
loses the end of the trace or is retried; an overrun of the buffer needs two in a
row and is met in `json_writer` only.  In the two violations of the tracer no
write fails.  Six events on two CPUs contain
an enqueue, a sibling's and a foreign switch-in inside its window, one before it
on each CPU and the switch-in that ends it; four instants contain every order of
these, coincidences included.  The share of a double that falls short needs no
large number: `Shares` allows it wherever the exact product is whole.  Four
events on one trace contain a start, a foreign service, the completion and one
event of another kind before or between, and four instants keep them all apart.
Seven events of SchedCapture contain a
foreign switch-in, the victim's wake, its move to the other CPU, its run, a
preemption and the second run; a root thread comes between any two of them
without an event.  Four of QueueCapture contain a start that is never served, a
foreign service, the reuse of the address and its service; four opens and sends
fill the map and use a second socket, or close one and use its successor at the
same address.  Two starts of the script with three runs contain a run interrupted at any
step, a solo run after a stressed one, and a tracer left behind by the first
beside one of the second.  All bounds are constants: `MaxEvents`, `MaxTime`,
`MaxFaults`, `MaxBytes`, `MaxMisreads`, `MaxUses`, `MaxSteps`, `MaxScripts`, `MaxRuns`.

**What the properties except.**  They are exact about
what the code does not promise, and say so in their comments:

- `ImplementsLog`, `CopyStaysInBuffer`, `TraceIsRingPrefix`,
  `OrderlyExitKeepsEverything`: a run in which a write to the file failed.  The
  loader does not notice: it repeats what was written in part, or loses what was
  not, overruns its buffer if a full one cannot be written twice in a row, and on
  a full disk it exits in order with a trace that lacks its end and its trailer.
  `OnlyUnnoticedLoses` says what is true then too: it excepts a failing `fflush`,
  a fragment past the buffer cut short, and a short flush behind such a fragment.
- `StopsWhenAsked`, `SubmittedIsHandled`: an overrun, after which nothing is known.
- `AcceptedTraceHasNoHole`: the trailer's own reading of the counters failed.  One
  that fails in the loop is made up for.
- `ForeignHoldIsCharged`: two waits of which no event tells the beginning: of a
  thread that lost the CPU to a root thread, and of one that lost it in a state
  other than `TASK_RUNNING` and stayed on its run queue.
- `ChargedWhileQueued`: a packet or request whose service was never recorded is
  matched with the next service at its address if that one had no start.  The
  time between is charged though nothing was queued.
  `docs/claims-experiments-contract.md:129` calls the matching by the latest start
  conservative; in this case it is not.
- `ChargedBehindOthers`: a disk without a delegated io controller.
- `RowIsOfWholeRun`: the mishaps the script does not notice.  It waits two
  seconds for the tracer's file and does not check it; it does not check that the
  tracer still runs when the victim ends; a container that is gone before it is
  inspected is measured as cgroup 1, which gives a row of zeros, or of the softirqs
  that are stamped with it; a tracer of an interrupted script may be the one that
  wrote last.
- `SoloRunsAlone`: stressors that an interrupted script left, and this one found.
- `MachineIsGivenBack`: the interface's own settings.  A run for the network
  leaves it with the default qdisc and its offloads on, whatever they were.

Some hazards are out of the reach of these properties, and `PROJECT.json` says so:
the wrong cgroup on the enqueue of a preempted thread (`src/puretime.bpf.c:181`)
only moves the beginning or the end of two lifetimes; a wait that spans two
packets of one address is charged as it was recorded; a tracer whose duration is
over before its victim is not noticed; a drain without end is not modelled
(section 5).

Every property has a mutant, an operator beside the definition it replaces, that
changes the code as a plausible bug would and breaks the property under the
run's own configuration.

**Fairness** is assumed in Tracer only: weak fairness of the loader (its poll
returns within 100 ms) and of every program that has started (BPF programs
terminate).  Tracepoints, signals, the duration and crashes are not fair.
`StopsWhenAsked` and `SubmittedIsHandled` hold for finitely many events; whether
libbpf's drain returns under producers that never pause is outside the model.

`CHECK_DEADLOCK` is off in every configuration: each system stops, the tracer
when the loader has ended, the others at their bounds.

**The three violations** are disagreements of documents with the code:

1. *An incomplete trace is rejected* (`src/puretime.bpf.c:38`,
   `src/puretime.c:322`).  The loop is left without a last drain; records already
   submitted stay in the ring, and the trailer counts failed reservations only.
   The accepted trace lacks its end.  (Holes in the middle are excluded:
   `AcceptedTraceHasNoHole`, but for a loss whose `count_drop` was still to run
   when the trailer's count was read.)
2. *The same, when the loader is killed* (`docs/claims-experiments-contract.md:45`).
   No trailer is read as no drop.
3. *Over-removal is structurally impossible, as every wait lies between a start
   and its completion* (`docs/IMPLEMENTATION_HANDOFF.md:67`).  It does for the
   CPU, the network and the disk (`QueueWaitsAreOutstanding`); the share of a
   softirq is charged to every target, whether it waits or not.

## 4. Proofs

TLAPS proves the theorems below for all values of the constants, under the named
assumptions of the modules: types of the constants and bounds, and
`SchedCapture!TargetsAssumption`, that the analyzer measures no cgroup 0 or 1
(`analyze_file`, `tests/noise_free_makespan.py:159-164`, leaves these out when it
chooses the cgroups itself).  Three theorems have the
hypothesis `~NoAttribution` besides: without attribution (`--no-attribution`) a
cgroup's own services are charged, and what they state is false.

Every theorem of the form `Spec => []P` follows the same argument: an invariant
that implies `P`, holds initially, and is preserved by each action, a lemma each.
The invariants were model-checked on the instances of section 3 before they were
proved.

- **JsonWriterProofs.**  `TypeCorrect`; `CopyIsSafe`; `WriterIsALog`, for any
  number of failing writes: the first is the log's failure, after which it promises
  nothing.  `CopyStaysInBuffer` is inductive together with the
  type invariant: after the flush at the top of `jw_write` either the buffer is
  empty or the fragment fits strictly.  For the refinement every step is mapped
  to an append, a sync, a close or a crash of the log `disk \o buffer`; the
  lemmas are facts on concatenation.  `LossIsUnnoticed` is
  `OnlyUnnoticedLoses`, of JsonWriterPlaces, whose behaviours are JsonWriter's
  (`PlacesAreHistory`).  It is inductive with the type invariant: whatever a
  flush or a write past the buffer comes to, the file is cut and extended, and
  every byte that is left is where `Moved` looks for it.
- **TracerProofs.**  `TypeCorrect`, and all four safety invariants of the runs:
  `FileIsRingPrefix`, `AcceptedIsWhole`, `ExitKeepsEverything`,
  `CountersTrackLoss`.  They need to know what every program holds: no two
  programs claim the same record, and a claimed record is busy or lost
  (`HookInv`); each loss is owed by a program or counted once (`DropInv`).  Of the
  file they need more than the properties say: it is whole lines but for the last
  (`LinesInv`), its records are in the order of the ring with the trailer at the
  end (`OrderInv`), and up to each of them none that was submitted is missing
  (`CompleteInv`).  The position of the loader ties the two together: what it has
  consumed is what the file holds (`ConsumedInv`), and from the trailer on, what
  the trailer says is at most what the counters say (`TrailerInv`).
  The file is reached through what the loader has passed to the writer, of which
  these invariants speak.  Every step of the loader is one of JsonWriter, with a fragment
  of its `Data`, or leaves the writer alone (`StepIsWriters`), so that the theorems
  on the writer apply to it (`WriterInv`): as long as no write fails the file is
  what was passed, but for its end, and whatever failed, it holds no fragment that
  was not passed (`HoldsWritten`).  That is enough for an accepted trace: a trailer that
  counts no drop was passed, so nothing before the last record consumed was lost.
- **CpuWaitProofs.**  `CpuChargeIsExact`: on a history in order of time, the
  leading slice and the slices are exactly the instants of `[start, completion)`
  at which the resource is held by a charged service (`HeldAt`), which no
  bisection is needed to define.  `TypeCorrect`, `HistoriesStayInOrder`, and
  `LookingBackIsExact`: CpuWait implements CpuOccupancy.  Neither the type nor
  the order is enough: the invariant `IInv` adds that nothing recorded or pending
  is later than `now`, without which a new switch could change who held a CPU in
  the past.  The refinement then needs that appending a switch at `now` leaves
  `HeldAt` unchanged before (`HeldBeforeAppend`) and that between two events
  nobody else takes the CPU (`HeldFromNow`), from which what has added up until
  `now'` in the two specifications is equal (`UntilIsAddedBy`).
- **QueueWaitProofs.**  `SpansAreExact` and `LeadIsExact` say of the spans and of
  the leading slice what `CpuChargeIsExact` says of the slices, and
  `QueueChargeIsExact` of a whole charge: the instants of the wait that follow a
  charged service given since the start or, on a disk, found at it.
  `ChargesAreForeign`: whatever is charged lies in the wait, and not before a
  service that belongs to another.  The lemmas on a queue (`QueueStart`,
  `QueueService`, `QueueCharges`) say what a start and a service do to any queue
  whose history is in order; `TypeCorrect` and `HistoryStaysInOrder` rest on
  them, and NoiseFreeProofs and QueueCaptureProofs cite them for theirs.
  `LookingBackIsExact`: QueueWait implements QueueOccupancy, with the invariant
  that the history is in order and nothing in it or pending is later than `now`.
  What the accounting makes of the time that passes up to an event is what the
  history tells then (`LastPasses`, `WaitPasses`), a start finds itself where
  `Place` puts it (`PlaceAtStart`), and a service leaves every other request's
  charge so far as it was and moves it as `After` does (`ServiceIsServe`).
- **NoiseFreeProofs.**  `TypeCorrect`; `MakespanInBounds`, that the assertions of
  `_compute_results` cannot fail; `ChargesAreOutstanding`; `SoloRunIsGroundTruth`.
  The invariant has a part per handler, which keeps what it records in order and
  not later than `now`: `IInv` of CpuWaitProofs, the queues' (`NetInv`, `DiskInv`)
  and the softirqs' (`SoftInv`).  It relates what was charged to the waits that were outstanding
  (`OutstandingInv`) and, for a cgroup served alone, says that nothing was charged
  (`SoloInv`): a charge needs a service of another that is recorded, and a share
  of a softirq needs one that was counted.

  Of Softirq: `SoftirqTypesHold`, `SharesAreServed` (`SharesComeFromService`) and
  `SharesAreApart` (`SelfAndOtherDisjoint`).  They rest on `SharesFit`: however
  `Shares` rounds, a cgroup's own part of a softirq and that of the others fit into
  it side by side and leave out two instants at the most.  The invariant
  `SoftirqInv` reads the handlers' state off the log: a CPU is in the softirq of
  its last entry, if no exit came since, and its counts are the numbers of the
  services since then (`PendingOf`); and where all events are of one CPU, what was
  charged lies before the softirq it is in (`ApartInv`).  An exit makes one softirq
  of the log and none else (`ExitWindow`, `WindowsGrow`), to which `SharesFit`
  applies (`ExitDivides`).  NoiseFree is Softirq with other events
  (`ImplementsSoftirq`), so the two hold of it (`AnalyzerShares`).

  `WaitsStayExact`: each step of NoiseFree is, to each of the three handlers, one
  of its own or an `OtherEvent` (`StepIsCpus`, `StepIsNets`, `StepIsDisks`), so
  that `LookingBackIsExact` of CpuWaitProofs and QueueWaitProofs holds three times
  in it.
- **SchedCaptureProofs.**  `TypeCorrect`; `ChargesAreWaits`, that only waiting is
  charged; `WaitsAreCharged`, that waiting behind another container is.  The
  first needs that, of a thread that waits or runs on a CPU since its recorded
  enqueue, what others ran there in the meantime was waiting (`WaitInv`): a wake,
  a requeue and a move each end that span with an event.  The second needs that the last
  switch-in of a CPU's history is the thread that runs there (`HolderInv`), so
  that what a wait has been behind is within what its end will charge
  (`BehindInv`), and that what an ended wait is due is charged when the switch
  arrives (`DueInv`).  Up to two events are between the hooks and the analyzer
  (`TraceInv`); the analyzer's part is the invariant of CpuWaitProofs.
  `CapturedIsExact`: the events handed over are of threads and CPUs there are and in
  order of time, so CpuWait implements its accounting on every trace the hooks
  record.
- **QueueCaptureProofs.**  `MapIsCurrent`: `TrackedIsLastSender` for any number of
  sockets and containers and any size of the map.  The invariant `MapInv` is the
  property and the types of the map and of the sockets; the one step that needs
  an argument is the insertion into a map with room (`SendKeepsRoom`).
  `TypeCorrect`; `ChargesAreQueueing` and `ChargesAreBehindOthers` compare
  QueueWait's charges with the truth of the hooks: the start that is pending at an
  address is the last that was recorded there (`StartInv`), something of its
  cgroup has been queued since, or its service was missed (`TruthInv`), and a recorded
  service is one of a user of what was served (`ForeignInv`).  `CapturedIsExact` is
  that of SchedCaptureProofs, for the four programs of the queues.
- **HarnessProofs.**  `GivenBack`, `ShortQueue`, `WholeRun`, `SoloIsAlone` and
  `TypeCorrect`, for any levels, number of iterations, depths, scripts and runs.
  For the first two the invariant `Inv` says of every step where the disk's own
  settings are: still on the disk, saved, or one of the two each, and what the
  run has made of the interface.  For the third,
  `RowInv` says what a run without a mishap can rely on so far (`SoFar`): no
  other tracer is alive, its own was picked, and it has seen all of the victim or
  has told of its losses.  For the fourth, `StressInv` says that what runs beside
  the stressors found is the current run's own, from its start to its stop.

Only model-checked:

- `StopsWhenAsked`, `SubmittedIsHandled`: liveness under fairness is out of the
  prover's reach.
- That the three violations of section 3 exist: TLC's counterexamples are runs of
  the program, not statements about all of them.

## 5. Not modelled

- The filter of the softirq programs and its three vectors: Softirq takes the
  events in any order and number.
- Packets without a socket, which no program records.
- In CpuWait and SchedCapture: threads that change their cgroup, or end.  A
  thread's cgroup is a constant (`CgOf`), where `_handle_switch` takes that of each
  event (`noise_free_makespan.py:277`).  In QueueCapture: a
  container that is created or removed while its packets are queued.
- The time that passes inside a hook, and losses of events, are Tracer's subject;
  SchedCapture and QueueCapture let every event arrive.
- A root or idle task leaves no switch event, so a foreign slice before it is
  charged until the next container runs.  That is still waiting, which
  `ChargedIsWaiting` shows, but not behind a container:
  `docs/claims-experiments-contract.md:131` says that time of root tasks is kept as
  the function's own cost, the comment at `noise_free_makespan.py:296` that one
  slice may be too much.
- In Harness: the checks of prerequisites, the test file, the copies of traces,
  cgroup directories, and the variants `NET_NOISE` and `NET_BURSTY`, which start
  another stressor.  Writes to `/sys` and `tc` are taken to succeed (the script
  ignores a refusal), and the victim, the stressor and docker's root directory to
  be on one disk (`setup_io_scheduler` configures the last).
- The other experiment scripts: the same sequence with other stressors, or
  measurements of the tracer's cost.
- The choice of targets by number of events, the results' formatting.
- The analyzer's copy under `experiments/`, which differs in no handler.
- `analyze_trace.py`, whose statistics nothing else reads and which matches by the
  same keys as the analyzer; plots, functions, the bootstrap demo, the generated
  kernel headers.
- A continuous load on the drain: the records are bounded, so it ends.

## 6. Plan

1. *Done.*  JsonWriter, Tracer, the analyzer with its composition; SchedCapture,
   QueueCapture and Harness; the proofs above.
2. **LatencyTrace**: `analyze_trace.py` on the events the tracer really emits.
