---------------------------- MODULE MCJsonWriter -----------------------------
(* JsonWriter with a four-byte buffer.  The fragments are one to three     *)
(* bytes long, so that one can arrive with the buffer exactly full, one    *)
(* short of full or empty; the last one is as large as the buffer and      *)
(* shares no byte with the others.                                         *)
EXTENDS JsonWriterPlaces

ByteValues == 1 .. 5
Fragments == {<<1>>, <<2, 3>>, <<4, 3, 1>>, <<5, 5, 5, 5>>}
===============================================================================
