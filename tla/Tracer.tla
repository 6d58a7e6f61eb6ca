-------------------------------- MODULE Tracer ---------------------------------
(***************************************************************************)
(* From a tracepoint to the verdict on a trace: the BPF programs of        *)
(* src/puretime.bpf.c as producers of ring-buffer records, the loader of   *)
(* src/puretime.c as their consumer, the JSON writer it writes lines with, *)
(* and the analyzer's decision to accept or to reject the file.            *)
(*                                                                         *)
(* What a record carries is left out: a record is its rank in the order in *)
(* which the programs asked the ring buffer for room.  A line is two       *)
(* fragments, everything up to the closing brace and the brace with its    *)
(* newline, so a flush may cut a line in two, and so may a write to the    *)
(* file that fails.                                                        *)
(***************************************************************************)
EXTENDS Integers, FiniteSets, SequencesExt

CONSTANTS
  Cpus,          \* the contexts BPF programs run in, one at a time each
  RingSlots,     \* records the ring buffer has room for
  BufferSize,    \* fragments the JSON writer buffers: 4 MiB of them, so that
                 \* none is as large as the buffer
  MaxEvents,     \* bound: no program starts once this many records were wanted
  MaxMisreads,   \* bound: failed readings of the drop counters
  MaxFaults      \* bound: writes to the file that fail

ASSUME CapacityAssumption == RingSlots \in Nat \ {0} /\ BufferSize \in Nat \ {0, 1}
ASSUME EventsAssumption ==
  MaxEvents \in Nat /\ MaxMisreads \in Nat /\ MaxFaults \in Nat /\ IsFiniteSet(Cpus)

(* The programs that started before the bound was met may each want one    *)
(* record more, and the last that starts two.                              *)
MaxRecords == MaxEvents + Cardinality(Cpus)

SummaryLine == 0      \* lines 1, 2, ... are those of the records
Fragment == [line : 0 .. MaxRecords, part : {"open", "close"}]

EINTR == 4

VARIABLES
  attempts,      \* attempts[i]: what became of the i-th record wanted:
                 \* "busy" (reserved), "ready" (submitted) or "lost"
  hook,          \* the program running on each CPU
  dropped,       \* the per-CPU dropped_events counters
  attached,      \* whether tracepoints start programs
  consumed,      \* consumer position: the last record handed to handle_event
  pc,            \* where main is
  err,           \* main's err
  exiting,       \* set by sig_handler
  elapsed,       \* whether the requested duration is over
  summary,       \* the count in the trailer, -1 before it is read
  history,       \* submitted: the records submitted when the loop was left;
                 \* uncounted: those lost but not yet counted when the trailer's
                 \* count was read; misreads: how many readings of the counters
                 \* failed; blind: whether the trailer's did
  buffer, disk, writer, faults, written    \* the JSON writer

loaderVars == <<consumed, pc, err, summary, history>>
writerVars == <<buffer, disk, writer, faults, written>>
hookVars == <<attempts, hook, dropped>>
signalVars == <<exiting, elapsed>>
vars == <<hookVars, loaderVars, writerVars, signalVars, attached>>

(* The writer, with all its failures.  Only fragments past the buffer make *)
(* stdio hold anything back behind a call of the writer, and the loader    *)
(* writes none.                                                            *)
JW == INSTANCE JsonWriter WITH
  Byte <- Fragment, Data <- {<<f>> : f \in Fragment},
  MaxBytes <- 2 * (MaxRecords + 1), held <- 0, state <- writer

Idle == [step |-> "idle", owed |-> 0, at |-> 0]

Init ==
  /\ attempts = <<>>
  /\ hook = [c \in Cpus |-> Idle]
  /\ dropped = [c \in Cpus |-> 0]
  /\ attached = FALSE
  /\ consumed = 0
  /\ pc = "create"
  /\ err = 0
  /\ exiting = FALSE
  /\ elapsed = FALSE
  /\ summary = -1
  /\ history = [submitted |-> {}, uncounted |-> {}, misreads |-> 0, blind |-> FALSE]
  /\ buffer = <<>>
  /\ disk = <<>>
  /\ writer = "open"
  /\ faults = 0
  /\ written = <<>>

-------------------------------------------------------------------------------
(* The BPF programs.                                                       *)

(* The records the ring buffer holds: reserved or submitted, and not yet   *)
(* released by the consumer.                                               *)
InRing == {i \in consumed + 1 .. Len(attempts) : attempts[i] # "lost"}

(* A program that still owes k records asks for room for the next one.  If *)
(* there is none it returns, and with the first record of a sched_switch   *)
(* the second is lost too.                                                 *)
Reserve(c, k) ==
  LET at == Len(attempts) + 1
  IN  \/ /\ Cardinality(InRing) < RingSlots
         /\ attempts' = Append(attempts, "busy")
         /\ hook' = [hook EXCEPT ![c] = [step |-> "fill", owed |-> k, at |-> at]]
      \/ /\ Cardinality(InRing) >= RingSlots
         /\ attempts' = attempts \o [i \in 1 .. k |-> "lost"]
         /\ hook' = [hook EXCEPT ![c] = [step |-> "failed", owed |-> k, at |-> at]]

(* A tracepoint fires: every program wants one record, except a            *)
(* sched_switch away from a running task, which wants two.                 *)
Fire(c) ==
  /\ attached
  /\ hook[c] = Idle
  /\ Len(attempts) < MaxEvents
  /\ \E k \in 1 .. 2 : Reserve(c, k)
  /\ UNCHANGED dropped

(* bpf_ringbuf_submit, after the fields of the record were filled.         *)
Submit(c) ==
  /\ hook[c].step = "fill"
  /\ attempts' = [attempts EXCEPT ![hook[c].at] = "ready"]
  /\ hook' = [hook EXCEPT ![c] =
                IF hook[c].owed = 1 THEN Idle
                ELSE [step |-> "second", owed |-> hook[c].owed - 1, at |-> hook[c].at]]
  /\ UNCHANGED dropped

SecondReserve(c) ==
  /\ hook[c].step = "second"
  /\ Reserve(c, hook[c].owed)
  /\ UNCHANGED dropped

(* Mutant of CountDrop: the program returns without counting.              *)
ReturnWithoutCount(c) ==
  /\ hook[c].step = "failed"
  /\ hook' = [hook EXCEPT ![c] = Idle]
  /\ UNCHANGED <<attempts, dropped>>

(* count_drop: one for each failed reservation.                            *)
CountDrop(c) ==
  /\ hook[c].step = "failed"
  /\ dropped' = [dropped EXCEPT ![c] = @ + 1]
  /\ hook' = [hook EXCEPT ![c] = Idle]
  /\ UNCHANGED attempts

(* A program that has started runs to its end, whatever the loader does.   *)
Finish(c) ==
  /\ Submit(c) \/ SecondReserve(c) \/ CountDrop(c)
  /\ UNCHANGED <<loaderVars, writerVars, signalVars, attached>>

Start(c) ==
  /\ Fire(c)
  /\ UNCHANGED <<loaderVars, writerVars, signalVars, attached>>

-------------------------------------------------------------------------------
(* The loader.                                                             *)

Write(f) == JW!JwWrite(<<f>>)

Goto(from, to) == pc = from /\ pc' = to

(* The sum over the CPUs is the number of all drops, each the n-th of its  *)
(* CPU.                                                                    *)
Drops == UNION {{c} \X (1 .. dropped[c]) : c \in Cpus}

(* Mutant of read_dropped_events: the sum leaves out a CPU.                *)
SumWithoutFirst == Cardinality({d \in Drops : d[1] # CHOOSE c \in Cpus : TRUE})

read_dropped_events == Cardinality(Drops)

(* It returns 0 if it gets no memory to read the counters into, and if the *)
(* map cannot be read; which makes a difference if there were drops.       *)
CanMisread == read_dropped_events > 0 /\ history.misreads < MaxMisreads

(* json_writer_create opens the file; without it main returns.             *)
CreateWriter ==
  /\ Goto("create", "load") \/ Goto("create", "nofile")
  /\ UNCHANGED <<writerVars, consumed, err, summary, history, attached>>

(* Opening and loading the skeleton; a failed open leaves err at 1.        *)
LoadPrograms ==
  /\ \/ Goto("load", "attach") /\ UNCHANGED err
     \/ Goto("load", "cleanup") /\ err' \in {1, -1}
  /\ UNCHANGED <<writerVars, consumed, summary, history, attached>>

(* A failed attach may have attached some of the programs.                 *)
AttachPrograms ==
  /\ \/ Goto("attach", "ring") /\ attached' = TRUE /\ UNCHANGED err
     \/ Goto("attach", "cleanup") /\ attached' \in BOOLEAN /\ err' = -1
  /\ UNCHANGED <<writerVars, consumed, summary, history>>

OpenRing ==
  /\ \/ Goto("ring", "loop") /\ UNCHANGED err
     \/ Goto("ring", "cleanup") /\ err' = -1
  /\ UNCHANGED <<writerVars, consumed, summary, history, attached>>

(* main leaves its loop.                                                   *)
LeaveOr(next, leave) ==
  /\ pc' = IF leave THEN "summary" ELSE next
  /\ history' = IF leave
               THEN [history EXCEPT !.submitted = {i \in 1 .. Len(attempts) : attempts[i] = "ready"}]
               ELSE history

(* while (!exiting)                                                        *)
TestExiting ==
  /\ pc = "loop"
  /\ LeaveOr("poll", exiting)
  /\ UNCHANGED <<writerVars, consumed, err, summary, attached>>

(* Mutant of Poll: the wake-up for records already in the ring is lost.    *)
PollMissesRecords ==
  /\ Goto("poll", "check") /\ err' = 0
  /\ UNCHANGED <<writerVars, consumed, summary, history, attached>>

(* ring_buffer__poll: with records in the ring, even reserved ones, it     *)
(* goes through them at once; otherwise it waits, until the timeout or an  *)
(* error.  (A signal that ends the wait is the action Signal.)             *)
Poll ==
  /\ \/ InRing # {} /\ Goto("poll", "drain") /\ err' = 0
     \/ InRing = {} /\ Goto("poll", "check") /\ err' \in {0, -1}
  /\ UNCHANGED <<writerVars, consumed, summary, history, attached>>

(* Mutant of NextRecord: reserved records are passed over.                 *)
NextSubmitted ==
  LET ready == {i \in InRing : attempts[i] = "ready"}
  IN  Min(IF ready = {} THEN InRing ELSE ready)

NextRecord == Min(InRing)
RecordReady == InRing # {} /\ attempts[NextRecord] = "ready"

(* The consumer stops at the first record not yet submitted, even if later *)
(* ones are.                                                               *)
DrainDone ==
  /\ Goto("drain", "check")
  /\ ~RecordReady
  /\ UNCHANGED <<writerVars, consumed, err, summary, history, attached>>

(* handle_event, and the release of the record once it returns.            *)
HandleEventOpen ==
  /\ Goto("drain", "close")
  /\ RecordReady
  /\ Write([line |-> NextRecord, part |-> "open"])
  /\ UNCHANGED <<consumed, err, summary, history, attached>>

(* Mutant of HandleEventClose: the consumer position moves one too far.    *)
ReleaseOneMore ==
  /\ Goto("close", "drain")
  /\ Write([line |-> NextRecord, part |-> "close"])
  /\ consumed' = NextRecord + 1
  /\ UNCHANGED <<err, summary, history, attached>>

HandleEventClose ==
  /\ Goto("close", "drain")
  /\ Write([line |-> NextRecord, part |-> "close"])
  /\ consumed' = NextRecord
  /\ UNCHANGED <<err, summary, history, attached>>

(* Mutant of CheckStop: dropped events do not end the loop.                *)
CheckStopIgnoringDrops ==
  /\ pc = "check"
  /\ LeaveOr("loop", elapsed \/ err < 0)
  /\ err' = IF ~elapsed /\ err = -EINTR THEN 0 ELSE err
  /\ UNCHANGED <<writerVars, consumed, summary, attached>>

(* The end of an iteration: duration, interruption, error, dropped events. *)
CheckStop ==
  /\ pc = "check"
  /\ \/ LeaveOr("loop", elapsed \/ err < 0 \/ read_dropped_events > 0)
     \/ /\ ~elapsed /\ err >= 0 /\ CanMisread
        /\ pc' = "loop"
        /\ history' = [history EXCEPT !.misreads = @ + 1]
  /\ err' = IF ~elapsed /\ err = -EINTR THEN 0 ELSE err
  /\ UNCHANGED <<writerVars, consumed, summary, attached>>

(* The records a failed reservation lost and count_drop does not show yet. *)
Uncounted == UNION {hook[c].at .. hook[c].at + hook[c].owed - 1 :
                      c \in {d \in Cpus : hook[d].step = "failed"}}

(* The trailer reports what the counters say when it is begun.             *)
WriteSummaryOpen ==
  /\ Goto("summary", "sumclose")
  /\ \E failed \in BOOLEAN :
       /\ failed => CanMisread
       /\ summary' = IF failed THEN 0 ELSE read_dropped_events
       /\ history' = [history EXCEPT !.uncounted = Uncounted, !.blind = failed]
  /\ Write([line |-> SummaryLine, part |-> "open"])
  /\ UNCHANGED <<consumed, err, attached>>

WriteSummaryClose ==
  /\ Goto("sumclose", "cleanup")
  /\ Write([line |-> SummaryLine, part |-> "close"])
  /\ UNCHANGED <<consumed, err, summary, history, attached>>

(* The cleanup hands the rest of the buffer to the file.  What             *)
(* json_writer_flush returns is not looked at.                             *)
FlushWriter ==
  /\ Goto("cleanup", "destroy")
  /\ JW!Flush
  /\ UNCHANGED <<consumed, err, summary, history, attached>>

(* json_writer_destroy flushes again, which does something only when the   *)
(* first flush fell short, and closes the file.                            *)
CloseWriter ==
  /\ Goto("destroy", "detach")
  /\ JW!Destroy
  /\ UNCHANGED <<consumed, err, summary, history, attached>>

(* Then the ring is freed, and the programs with the skeleton.             *)
Detach ==
  /\ Goto("detach", "exited")
  /\ attached' = FALSE
  /\ UNCHANGED <<writerVars, consumed, err, summary, history>>

(* One step of main.  None is modelled after a fragment was copied past    *)
(* the end of the writer's buffer: what the process does then is undefined.*)
Loader ==
  /\ writer # "overrun"
  /\ \/ CreateWriter \/ LoadPrograms \/ AttachPrograms \/ OpenRing
     \/ TestExiting \/ Poll \/ DrainDone \/ HandleEventOpen \/ HandleEventClose
     \/ CheckStop \/ WriteSummaryOpen \/ WriteSummaryClose
     \/ FlushWriter \/ CloseWriter \/ Detach
  /\ UNCHANGED <<hookVars, signalVars>>

-------------------------------------------------------------------------------
(* What happens to the loader.                                             *)

Running == pc \notin {"create", "nofile", "exited", "killed"}
InLoop == pc \in {"loop", "poll", "drain", "close", "check"}
Ended == pc \in {"nofile", "exited", "killed"}

(* SIGINT or SIGTERM: the handler sets exiting, and a wait for records it  *)
(* meets ends with EINTR.                                                  *)
Signal ==
  /\ Running /\ ~exiting
  /\ exiting' = TRUE
  /\ IF pc = "poll" /\ InRing = {}
     THEN pc' = "check" /\ err' = -EINTR
     ELSE UNCHANGED <<pc, err>>
  /\ UNCHANGED <<hookVars, writerVars, consumed, summary, history, elapsed, attached>>

(* The duration given on the command line is over.                         *)
Elapse ==
  /\ InLoop /\ ~elapsed
  /\ elapsed' = TRUE
  /\ UNCHANGED <<hookVars, writerVars, loaderVars, exiting, attached>>

(* SIGKILL, or a crash.  The kernel detaches the programs.                 *)
Killed ==
  /\ Running
  /\ JW!Kill
  /\ pc' = "killed"
  /\ attached' = FALSE
  /\ UNCHANGED <<hookVars, signalVars, consumed, err, summary, history>>

Next ==
  \/ \E c \in Cpus : Start(c)
  \/ \E c \in Cpus : Finish(c)
  \/ Loader
  \/ Signal
  \/ Elapse
  \/ Killed

(* The loader is scheduled (ring_buffer__poll waits 100 ms at most), and a *)
(* BPF program that has started finishes.  Nothing makes tracepoints fire, *)
(* signals arrive or the duration end.                                     *)
Spec ==
  /\ Init /\ [][Next]_vars
  /\ WF_vars(Loader)
  /\ \A c \in Cpus : WF_vars(Finish(c))

-------------------------------------------------------------------------------
(* The analyzer's view of the file.                                        *)

(* The positions of the brace of each whole line; the analyzer skips the   *)
(* others, which are not JSON.  A line is whole if nothing but everything  *)
(* up to its brace stands between a newline and a brace; whose brace it is *)
(* makes no difference.  (After a failed write these may be any: the first *)
(* part of one line closed by the brace of another, or the first parts of  *)
(* two in a row.  A write that ends inside a fragment garbles the line.)   *)
WholeLines ==
  {i \in 2 .. Len(disk) : /\ disk[i].part = "close" /\ disk[i - 1].part = "open"
                          /\ i > 2 => disk[i - 2].part = "close"}

LineAt(i) == disk[i - 1].line
Recorded == {LineAt(i) : i \in WholeLines} \ {SummaryLine}
HasSummary == \E i \in WholeLines : LineAt(i) = SummaryLine

(* analyze_file raises unless the trailers it finds count no drop; no      *)
(* trailer is no drop.                                                     *)
Accepted == HasSummary => summary = 0
-------------------------------------------------------------------------------
(* Properties.                                                             *)

TypeOK ==
  /\ attempts \in Seq({"busy", "ready", "lost"}) /\ Len(attempts) <= MaxRecords
  /\ hook \in [Cpus -> [step : {"idle", "fill", "second", "failed"},
                        owed : 0 .. 2, at : 0 .. MaxRecords]]
  /\ dropped \in [Cpus -> Nat]
  /\ attached \in BOOLEAN
  /\ consumed \in 0 .. Len(attempts)
  /\ pc \in {"create", "load", "attach", "ring", "loop", "poll", "drain", "close",
             "check", "summary", "sumclose", "cleanup", "destroy", "detach",
             "nofile", "exited", "killed"}
  /\ err \in {0, 1, -1, -EINTR}
  /\ exiting \in BOOLEAN
  /\ elapsed \in BOOLEAN
  /\ summary \in Nat \cup {-1}
  /\ history \in [submitted : SUBSET (1 .. MaxRecords), uncounted : SUBSET (1 .. MaxRecords),
                  misreads : 0 .. MaxMisreads, blind : BOOLEAN]
  /\ buffer \in Seq(Fragment)
  /\ disk \in Seq(Fragment)
  /\ writer \in {"open", "closed", "dead", "overrun"}
  /\ faults \in 0 .. MaxFaults
  /\ written \in Seq(Fragment)

(* At every moment, a crash included, and as long as the file takes what   *)
(* it is given, the whole lines of the file are the records of the ring in *)
(* the order they were reserved, each once, with no submitted record       *)
(* skipped, and the trailer, if there is one, after all of them: neither a *)
(* program that fills its record slowly, nor a flush in the middle of a    *)
(* line, nor the death of the loader reorders or repeats a record or       *)
(* leaves one out.  A failed write does: behind it the loader writes on,   *)
(* and part of its buffer a second time.                                   *)
TraceIsRingPrefix ==
  faults = 0 =>
    /\ \A i, j \in WholeLines :
         i < j => \/ LineAt(j) = SummaryLine /\ LineAt(i) # SummaryLine
                  \/ LineAt(i) # SummaryLine /\ LineAt(i) < LineAt(j)
    /\ \A e \in Recorded : \A k \in 1 .. e : k \in Recorded \/ attempts[k] = "lost"
    /\ \A e \in Recorded : attempts[e] = "ready"

(* A trace with a trailer that the analyzer accepts has no hole: between   *)
(* two of its records no record was lost for want of room, except one      *)
(* whose program had not reached count_drop when the trailer's count was   *)
(* read; unless that very reading failed.  One that fails in the loop does *)
(* no harm, and neither does a failed write, whatever it leaves of the     *)
(* lines.  This is what dropped_events, the early stop and the rejection   *)
(* are for together; they are the work of three programs.                  *)
AcceptedTraceHasNoHole ==
  pc = "exited" /\ HasSummary /\ Accepted /\ ~history.blind =>
    \A e \in Recorded : \A k \in 1 .. e :
      attempts[k] # "lost" \/ k \in history.uncounted

(* An exit that is not a crash, of a loader all of whose writes succeeded, *)
(* leaves every record handed to handle_event in the file, and a trailer   *)
(* unless the setup failed: nothing stays behind in the 4 MiB buffer.  If  *)
(* a write failed, the last flush included, the loader exits the same way  *)
(* and says nothing.                                                       *)
OrderlyExitKeepsEverything ==
  pc = "exited" /\ faults = 0 =>
    /\ Recorded = {i \in 1 .. consumed : attempts[i] # "lost"}
    /\ HasSummary <=> summary >= 0
    /\ Len(disk) = 2 * Cardinality(WholeLines)

(* The trailer's number is that of failed reservations, of whatever CPUs:  *)
(* each stands for at least one lost record and at most two, so the number *)
(* never shows a loss that did not happen and, once the programs have      *)
(* counted, understates the loss by half at most.                          *)
CountTracksLoss ==
  LET lost == {i \in 1 .. Len(attempts) : attempts[i] = "lost"} \ Uncounted
  IN  read_dropped_events <= Cardinality(lost) /\ Cardinality(lost) <= 2 * read_dropped_events

(* A signal, the end of the duration or a dropped event ends the loader,   *)
(* whatever the programs do meanwhile (they cannot fire for ever here: see *)
(* MaxEvents) and whatever the file refuses, unless the buffer overran.    *)
StopRequested == exiting \/ (InLoop /\ (elapsed \/ read_dropped_events > 0))
StopsWhenAsked == StopRequested ~> Ended \/ writer = "overrun"

(* A submitted record does not wait for ever: a loader that stays in its   *)
(* loop hands it to handle_event, even when an earlier record was reserved *)
(* first and submitted last, and whenever the poll's wait began.           *)
SubmittedIsHandled ==
  \A i \in 1 .. MaxRecords :
    (i <= Len(attempts) /\ attempts[i] = "ready") ~>
      (consumed >= i \/ ~InLoop \/ writer = "overrun")

(* What the comments at the dropped_events map and at the trailer say, and *)
(* docs/claims-experiments-contract.md with them: an incomplete trace is   *)
(* rejected.  A record submitted before the loader left its loop is then   *)
(* in the file of an accepted trace.                                       *)
IncompleteTraceRejected ==
  pc = "exited" /\ HasSummary /\ Accepted => history.submitted \subseteq Recorded

(* The same documents, of the trace a killed loader leaves: with records   *)
(* to measure and a dropped event counted, it is rejected.                 *)
DropRejected ==
  pc = "killed" /\ Recorded # {} /\ read_dropped_events > 0 => ~Accepted

===============================================================================
