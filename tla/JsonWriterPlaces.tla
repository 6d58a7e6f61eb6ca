--------------------------- MODULE JsonWriterPlaces ----------------------------
(***************************************************************************)
(* JsonWriter with a history of where its bytes went.  After a short write *)
(* the buffer is written again as a whole, so that the file holds bytes    *)
(* twice; which of them is the byte that was passed to jw_write is known   *)
(* only from the steps: a byte in the file stays where it is as long as    *)
(* the file holds that much, and a byte in a buffer that a flush did not   *)
(* reset moves on with the buffer.                                         *)
(***************************************************************************)
EXTENDS JsonWriter

VARIABLES
  places,        \* history: the place of each byte written, in the file
                 \* followed by the buffer, or Lost
  mishaps        \* history: "past", a fragment went past the buffer;
                 \* "unnoticed", a write failed and the writer did not keep
                 \* in its buffer what may be missing

historyVars == <<places, mishaps>>

Stream == disk \o buffer
Lost == 0

PlacesInit == Init /\ places = <<>> /\ mishaps = {}

(* A place behind a step that makes the file d the file e, with the buffer *)
(* behind it kept or gone.                                                 *)
Moved(place, d, kept, e) ==
  IF place > Len(d) /\ kept THEN place + Len(e) - Len(d)
  ELSE IF place <= Len(e) THEN place ELSE Lost

(* A place behind a flush with outcome r and a write past the buffer (or   *)
(* none: the file is then the same behind it).                             *)
MovedBy(place, r) ==
  Moved(Moved(place, disk, r.buffer # <<>>, r.disk), r.disk, TRUE, disk')

(* The place of the k-th byte of data: behind the buffer, or behind the    *)
(* file as far as the file was extended.                                   *)
PlaceOf(data, k, r) ==
  IF Len(data) < BufferSize THEN Len(r.disk) + Len(r.buffer) + k
  ELSE IF Len(r.disk) + k <= Len(disk') THEN Len(r.disk) + k ELSE Lost

Placed(data, r) ==
  places' = [i \in 1 .. Len(written) + Len(data) |->
               IF i <= Len(written) THEN MovedBy(places[i], r)
               ELSE PlaceOf(data, i - Len(written), r)]

(* A failing fflush, or a short flush that tore off what stdio held back   *)
(* of an earlier fragment.                                                 *)
FlushUnnoticed(r) == r.faults > faults /\ (r.buffer = <<>> \/ held > 0)

Noted(data, r) ==
  mishaps' = mishaps
    \cup {m \in {"past"} : Len(data) >= BufferSize}
    \cup {m \in {"unnoticed"} : FlushUnnoticed(r) \/ faults' > r.faults}

PlacesNext ==
  \/ \E data \in Data : \E r \in RoomOutcomes(data) :
       WriteAfter(data, r) /\ Placed(data, r) /\ Noted(data, r)
  \/ \E r \in FlushOutcomes : FlushTo(r) /\ Placed(<<>>, r) /\ Noted(<<>>, r)
  \/ Destroy /\ UNCHANGED historyVars
  \/ Kill /\ UNCHANGED historyVars

PlacesSpec == PlacesInit /\ [][PlacesNext]_<<vars, historyVars>>

-------------------------------------------------------------------------------

(* What a failing write does to the bytes of an open writer: those it      *)
(* loses are gone, and no other is mixed up with another or loses its      *)
(* place, however often a buffer is written again.  Each byte that is not  *)
(* lost has a place of its own in the file followed by the buffer; they    *)
(* stand there in the order in which they were written, unless a fragment  *)
(* went past the buffer and overtook what could not be flushed; and no     *)
(* byte is lost to a short write of a flush, the one failure the writer    *)
(* looks at: only to an fflush that fails, to a fragment that goes past    *)
(* the buffer and is cut short, and to a short write that finds bytes of   *)
(* such a fragment still held back by stdio.                               *)
OnlyUnnoticedLoses ==
  state = "open" =>
    /\ DOMAIN places = DOMAIN written
    /\ "unnoticed" \notin mishaps => \A i \in DOMAIN written : places[i] # Lost
    /\ \A i \in DOMAIN written : places[i] # Lost =>
         places[i] \in DOMAIN Stream /\ Stream[places[i]] = written[i]
    /\ \A i, j \in DOMAIN written : i < j /\ Lost \notin {places[i], places[j]} =>
         /\ places[i] # places[j]
         /\ "past" \notin mishaps => places[i] < places[j]
===============================================================================
