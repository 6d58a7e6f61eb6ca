------------------------------- MODULE AppendLog -------------------------------
(***************************************************************************)
(* What an output file promises to the process that writes it: a log that  *)
(* only grows while the process runs, of which some prefix is already in   *)
(* the file.  A crash keeps exactly that prefix, and an orderly close puts *)
(* the whole log in the file.  A disk that refuses a write ends the        *)
(* promise.  JsonWriter implements this specification.                     *)
(***************************************************************************)
EXTENDS Integers, Sequences

CONSTANT Data    \* the byte sequences a caller may append

VARIABLES
  log,           \* everything appended so far, in order
  durable,       \* how many bytes of it are in the file
  open           \* whether the process may still append

vars == <<log, durable, open>>

Init ==
  /\ log = <<>>
  /\ durable = 0
  /\ open = TRUE

Append_(data) ==
  /\ open
  /\ log' = log \o data
  /\ durable' \in durable .. Len(log')
  /\ UNCHANGED open

Sync ==
  /\ open
  /\ durable' \in durable .. Len(log)
  /\ UNCHANGED <<log, open>>

Close ==
  /\ open
  /\ durable' = Len(log)
  /\ open' = FALSE
  /\ UNCHANGED log

Crash ==
  /\ open
  /\ durable' \in durable .. Len(log)
  /\ log' = SubSeq(log, 1, durable')
  /\ open' = FALSE

(* The disk did not take all it was given: nothing is promised any more.   *)
Fail ==
  /\ open
  /\ open' = FALSE
  /\ log' = <<>>
  /\ durable' = 0

Next ==
  \/ \E data \in Data : Append_(data)
  \/ Sync
  \/ Close
  \/ Crash
  \/ Fail

Spec == Init /\ [][Next]_vars
===============================================================================
