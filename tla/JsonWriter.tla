------------------------------ MODULE JsonWriter -------------------------------
(***************************************************************************)
(* The buffered writer of src/json_writer.c.  The loader calls it for each *)
(* fragment of a JSON line; fragments gather in a fixed buffer that is     *)
(* handed to the file when the next one would not fit, when the loader     *)
(* asks for it and when the writer is destroyed.                           *)
(*                                                                         *)
(* A byte is any value.  The formatting of fields (strings, integers, the  *)
(* escapes) only decides which bytes a call to jw_write passes, so the     *)
(* callers are the members of Data.  Two faults are modelled: a write to   *)
(* the file that fails, at whatever call of stdio (at most MaxFaults of    *)
(* them), and the death of the process.  The writer looks at one result    *)
(* only, the fwrite of a flush; those of fflush, of the fwrite that goes   *)
(* past the buffer and of fclose are ignored, and so is what               *)
(* json_writer_flush returns.                                              *)
(***************************************************************************)
EXTENDS Integers, SequencesExt

CONSTANTS
  Byte,          \* the bytes of a line
  Data,          \* the byte sequences passed to jw_write
  BufferSize,    \* buffer_size, 4 MiB in the loader
  MaxFaults,     \* bound: writes to the file that fail
  MaxBytes       \* bound: bytes passed to jw_write in a run

ASSUME DataAssumption == \A data \in Data : data \in Seq(Byte) /\ data # <<>>
ASSUME SizeAssumption == BufferSize \in Nat \ {0}
ASSUME BoundAssumption == MaxFaults \in Nat /\ MaxBytes \in Nat

VARIABLES
  buffer,        \* buffer[0 .. buffer_pos)
  disk,          \* what fwrite has accepted, less what later failed
  held,          \* how many bytes at the end of disk stdio holds back:
                 \* a kill loses them
  state,         \* "open", "closed", "dead" (killed) or "overrun"
  faults,        \* failed writes so far
  written        \* history: every byte passed to jw_write, in order

vars == <<buffer, disk, held, state, faults, written>>

Init ==
  /\ buffer = <<>>
  /\ disk = <<>>
  /\ held = 0
  /\ state = "open"
  /\ faults = 0
  /\ written = <<>>

-------------------------------------------------------------------------------

(* What a failing write of bytes can leave of a file d of which stdio      *)
(* holds back the last h: the rest of d, and a part of what follows, which *)
(* is not all.  Nothing is held back any more.                             *)
Partly(d, h, bytes) ==
  {SubSeq(d \o bytes, 1, n) : n \in Len(d) - h .. Len(d) + Len(bytes) - 1}

Unflushed == [buffer |-> buffer, disk |-> disk, held |-> held, faults |-> faults]
Flushed == [buffer |-> <<>>, disk |-> disk \o buffer, held |-> 0, faults |-> faults]

(* Mutants of FlushOutcomes: one byte too many goes to the file; the       *)
(* buffer is not reset; it is reset before it is written; after a short    *)
(* write the buffer keeps what is behind the bytes written, but for its    *)
(* first byte.                                                             *)
FlushReadsPastEnd == {[Flushed EXCEPT !.disk = disk \o buffer \o <<0>>]}

FlushKeepsBuffer == {[Flushed EXCEPT !.buffer = buffer]}

FlushResetsFirst == {[Flushed EXCEPT !.disk = disk]}

FlushDropsOneMore ==
  {Flushed} \cup
  {[buffer |-> SubSeq(buffer, n + 2, Len(buffer)), disk |-> disk \o SubSeq(buffer, 1, n),
    held |-> 0, faults |-> faults + 1] :
     n \in {k \in 0 .. Len(buffer) - 1 : faults < MaxFaults}}

(* json_writer_flush: with an empty buffer it does nothing.  It resets     *)
(* buffer_pos only when fwrite took everything; after a short write the    *)
(* bytes it took are in the file and the buffer still holds them.  When    *)
(* fwrite did take everything, but could not hand on all of it by the end  *)
(* of the fflush, the buffer is reset and the rest is lost.                *)
FlushOutcomes ==
  IF buffer = <<>> THEN {Unflushed}
  ELSE {Flushed} \cup
       {[buffer |-> b, disk |-> d, held |-> 0, faults |-> faults + 1] :
          b \in {buffer, <<>>},
          d \in {p \in Partly(disk, held, buffer) : faults < MaxFaults}}

(* Mutant of RoomOutcomes: the size of data is left out of the test.       *)
RoomOnlyWhenFull(data) ==
  IF Len(buffer) >= BufferSize THEN FlushOutcomes ELSE {Unflushed}

(* The outcomes of the flush jw_write starts with when data would not fit. *)
RoomOutcomes(data) ==
  IF Len(buffer) + Len(data) >= BufferSize THEN FlushOutcomes ELSE {Unflushed}

(* Behind that flush, data smaller than the buffer is copied behind what   *)
(* the buffer holds, whether or not the flush made room.  Past the end of  *)
(* the buffer the program's behaviour is no longer defined and the model   *)
(* stops in state "overrun".                                               *)
Copy(data, r) ==
  /\ Len(data) < BufferSize
  /\ buffer' = r.buffer \o data
  /\ disk' = r.disk
  /\ held' = r.held
  /\ faults' = r.faults
  /\ state' = IF Len(r.buffer) + Len(data) > BufferSize THEN "overrun" ELSE state

(* Larger data goes straight to the file, past a buffer that could not be  *)
(* flushed.  Nobody asks whether fwrite took all of it, and no fflush      *)
(* follows, so that stdio may hold back any part.                          *)
Direct(data, r) ==
  /\ Len(data) >= BufferSize
  /\ buffer' = r.buffer
  /\ state' = state
  /\ \/ /\ disk' = r.disk \o data
        /\ held' \in 0 .. r.held + Len(data)
        /\ faults' = r.faults
     \/ /\ r.faults < MaxFaults
        /\ disk' \in Partly(r.disk, r.held, data)
        /\ held' = 0
        /\ faults' = r.faults + 1

(* jw_write, with the outcome r of its flush.                              *)
WriteAfter(data, r) ==
  /\ state = "open"
  /\ Len(written) + Len(data) <= MaxBytes
  /\ Copy(data, r) \/ Direct(data, r)
  /\ written' = written \o data

JwWrite(data) == \E r \in RoomOutcomes(data) : WriteAfter(data, r)

FlushTo(r) ==
  /\ state = "open"
  /\ buffer' = r.buffer
  /\ disk' = r.disk
  /\ held' = r.held
  /\ faults' = r.faults
  /\ UNCHANGED <<state, written>>

Flush == \E r \in FlushOutcomes : FlushTo(r)

(* json_writer_destroy: flush, fclose, free.  What a failed flush left in  *)
(* the buffer is gone, and so is what fclose cannot hand on.               *)
Destroy ==
  /\ state = "open"
  /\ \E r \in FlushOutcomes :
       \/ disk' = r.disk /\ faults' = r.faults
       \/ /\ r.faults < MaxFaults
          /\ disk' \in Partly(r.disk, r.held, <<>>)
          /\ faults' = r.faults + 1
  /\ buffer' = <<>>
  /\ held' = 0
  /\ state' = "closed"
  /\ UNCHANGED written

(* The process dies, perhaps inside an fwrite: what stdio held back and    *)
(* what the buffer held may have reached the file, up to some byte.        *)
Kill ==
  /\ state = "open"
  /\ \E n \in Len(disk) - held .. Len(disk) + Len(buffer) :
       disk' = SubSeq(disk \o buffer, 1, n)
  /\ buffer' = <<>>
  /\ held' = 0
  /\ state' = "dead"
  /\ UNCHANGED <<faults, written>>

Next ==
  \/ \E data \in Data : JwWrite(data)
  \/ Flush
  \/ Destroy
  \/ Kill

Spec == Init /\ [][Next]_vars

-------------------------------------------------------------------------------

TypeOK ==
  /\ buffer \in Seq(Byte)
  /\ disk \in Seq(Byte)
  /\ held \in 0 .. Len(disk)
  /\ state \in {"open", "closed", "dead", "overrun"}
  /\ faults \in 0 .. MaxFaults
  /\ written \in Seq(Byte)

(* As long as no write to the file fails, the copy of a fragment           *)
(* stays inside the buffer, one byte short of its end at most: the flush   *)
(* at the top of jw_write always makes enough room.                        *)
CopyStaysInBuffer ==
  faults = 0 => state # "overrun" /\ Len(buffer) < BufferSize

(* The file, followed by the buffer while the writer is open, is a log     *)
(* whose only losses are at its end and only when the process dies, until  *)
(* a write to the file fails.  All of the file is safe from a kill but     *)
(* what stdio holds back of it.                                            *)
LogOf == INSTANCE AppendLog WITH
  log <- IF faults = 0 THEN disk \o buffer ELSE <<>>,
  durable <- IF faults = 0 THEN Len(disk) - held ELSE 0,
  open <- (state = "open" /\ faults = 0)

ImplementsLog == LogOf!Spec
===============================================================================
