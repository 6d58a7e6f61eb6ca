--------------------------- MODULE JsonWriterProofs ----------------------------
(***************************************************************************)
(* Proofs about JsonWriter, for every buffer size, every set of fragments  *)
(* and any number of failing writes: the writer is type correct, a         *)
(* fragment never leaves the buffer while no write fails, the writer       *)
(* implements AppendLog, and what a failing write loses is lost only where *)
(* the writer does not look at a result (JsonWriterPlaces).                *)
(***************************************************************************)
EXTENDS JsonWriterPlaces, SequenceTheorems, TLAPS

(* Sequences of bytes.                                                     *)

LEMMA ConcatAt ==
  ASSUME NEW s \in Seq(Byte), NEW t \in Seq(Byte)
  PROVE  /\ s \o t \in Seq(Byte)
         /\ Len(s) \in Nat /\ Len(t) \in Nat
         /\ Len(s \o t) = Len(s) + Len(t)
         /\ DOMAIN (s \o t) = 1 .. Len(s) + Len(t)
         /\ \A i \in 1 .. Len(s) : (s \o t)[i] = s[i]
         /\ \A i \in 1 .. Len(t) : (s \o t)[Len(s) + i] = t[i]
<1>1. Len(s) \in Nat /\ Len(t) \in Nat
  BY LenProperties
<1>2. /\ s \o t \in Seq(Byte)
      /\ Len(s \o t) = Len(s) + Len(t)
      /\ \A i \in 1 .. Len(s) + Len(t) :
           (s \o t)[i] = IF i <= Len(s) THEN s[i] ELSE t[i - Len(s)]
  BY ConcatProperties
<1>3. DOMAIN (s \o t) = 1 .. Len(s \o t)
  BY <1>2, LenProperties
<1>4. \A i \in 1 .. Len(t) : (s \o t)[Len(s) + i] = t[i]
  <2> TAKE i \in 1 .. Len(t)
  <2>1. Len(s) + i \in 1 .. Len(s) + Len(t) /\ ~(Len(s) + i <= Len(s)) /\ (Len(s) + i) - Len(s) = i
    BY <1>1
  <2> QED BY <1>2, <2>1
<1>5. \A i \in 1 .. Len(s) : (s \o t)[i] = s[i]
  BY <1>1, <1>2
<1> QED BY <1>1, <1>2, <1>3, <1>4, <1>5

LEMMA PrefixFacts ==
  ASSUME NEW s \in Seq(Byte), NEW n \in 0 .. Len(s)
  PROVE  /\ SubSeq(s, 1, n) \in Seq(Byte)
         /\ Len(SubSeq(s, 1, n)) = n
         /\ \A i \in 1 .. n : SubSeq(s, 1, n)[i] = s[i]
<1>1. Len(s) \in Nat /\ \A i \in 1 .. n : s[i] \in Byte
  BY LenProperties, ElementOfSeq
<1> QED BY <1>1, SubSeqProperties

(* What a failing write leaves is a prefix of what it was to make.         *)
LEMMA PartlyFacts ==
  ASSUME NEW d \in Seq(Byte), NEW b \in Seq(Byte), NEW h \in 0 .. Len(d), NEW e \in Partly(d, h, b)
  PROVE  /\ e \in Seq(Byte)
         /\ Len(e) \in Len(d) - h .. Len(d) + Len(b) - 1
         /\ \A i \in 1 .. Len(e) : e[i] = (d \o b)[i]
<1>1. PICK n \in Len(d) - h .. Len(d) + Len(b) - 1 : e = SubSeq(d \o b, 1, n)
  BY DEF Partly
<1>2. d \o b \in Seq(Byte) /\ Len(d \o b) = Len(d) + Len(b) /\ Len(d) \in Nat /\ Len(b) \in Nat
  BY ConcatAt
<1>3. n \in 0 .. Len(d \o b)
  BY <1>1, <1>2
<1> QED BY <1>1, <1>2, <1>3, PrefixFacts

LEMMA RangeOfConcat ==
  ASSUME NEW s \in Seq(Byte), NEW t \in Seq(Byte)
  PROVE  Range(s \o t) = Range(s) \cup Range(t)
<1> DEFINE u == s \o t
<1>1. /\ Len(s) \in Nat /\ Len(t) \in Nat
      /\ DOMAIN s = 1 .. Len(s) /\ DOMAIN t = 1 .. Len(t)
      /\ DOMAIN u = 1 .. Len(s) + Len(t)
      /\ \A i \in 1 .. Len(s) : u[i] = s[i]
      /\ \A i \in 1 .. Len(t) : u[Len(s) + i] = t[i]
  BY ConcatAt, LenProperties
<1> HIDE DEF u
<1>2. \A x : x \in Range(u) <=> \E i \in DOMAIN u : u[i] = x
  BY DEF Range
<1>3. \A x : x \in Range(s) <=> \E i \in 1 .. Len(s) : s[i] = x
  BY <1>1 DEF Range
<1>4. \A x : x \in Range(t) <=> \E i \in 1 .. Len(t) : t[i] = x
  BY <1>1 DEF Range
<1>5. ASSUME NEW i \in 1 .. Len(s) + Len(t) PROVE i \in 1 .. Len(s) \/ \E j \in 1 .. Len(t) : i = Len(s) + j
  <2>1. i > Len(s) => i - Len(s) \in 1 .. Len(t) /\ i = Len(s) + (i - Len(s))
    BY <1>1
  <2>2. ~(i > Len(s)) => i \in 1 .. Len(s)
    BY <1>1
  <2> QED BY <2>1, <2>2
<1>6. /\ \A i \in 1 .. Len(s) : i \in DOMAIN u
      /\ \A i \in 1 .. Len(t) : Len(s) + i \in DOMAIN u
  BY <1>1
<1>7. ASSUME NEW x \in Range(u) PROVE x \in Range(s) \cup Range(t)
  <2>1. PICK i \in 1 .. Len(s) + Len(t) : u[i] = x
    BY <1>1, <1>2
  <2> QED BY <1>1, <1>3, <1>4, <1>5, <2>1
<1>8. ASSUME NEW x \in Range(s) \cup Range(t) PROVE x \in Range(u)
  BY <1>1, <1>2, <1>3, <1>4, <1>6, <1>8
<1>9. Range(u) = Range(s) \cup Range(t)
  BY <1>7, <1>8
<1> QED BY <1>9 DEF u

LEMMA RangeOfPrefix ==
  ASSUME NEW e \in Seq(Byte), NEW s \in Seq(Byte), Len(e) <= Len(s),
         \A i \in 1 .. Len(e) : e[i] = s[i]
  PROVE  Range(e) \subseteq Range(s)
<1>1. /\ DOMAIN e = 1 .. Len(e) /\ DOMAIN s = 1 .. Len(s)
      /\ Len(e) \in Nat /\ Len(s) \in Nat
  BY LenProperties
<1>2. DOMAIN e \subseteq DOMAIN s
  BY <1>1
<1> QED BY <1>1, <1>2 DEF Range

-------------------------------------------------------------------------------
(* Outcomes of a flush.                                                    *)

(* A flush leaves the writer's variables in their types, and one that met  *)
(* no fault hands everything over; what it leaves of the file is a prefix  *)
(* of the file followed by the buffer, and the buffer is kept or reset.    *)
LEMMA FlushFacts ==
  ASSUME TypeOK, NEW r \in FlushOutcomes
  PROVE  /\ r.buffer \in Seq(Byte) /\ r.disk \in Seq(Byte) /\ r.held \in 0 .. Len(r.disk)
         /\ r.faults \in 0 .. MaxFaults /\ r.faults \in {faults, faults + 1}
         /\ r.faults = faults =>
              r.buffer = <<>> /\ r.disk = disk \o buffer /\ r.held \in {0, held}
         /\ r.buffer \in {buffer, <<>>}
         /\ Len(r.disk) >= Len(disk) - held /\ Len(r.disk) <= Len(disk) + Len(buffer)
         /\ \A i \in 1 .. Len(r.disk) : r.disk[i] = (disk \o buffer)[i]
<1>1. /\ disk \in Seq(Byte) /\ buffer \in Seq(Byte) /\ held \in 0 .. Len(disk)
      /\ faults \in 0 .. MaxFaults /\ MaxFaults \in Nat
      /\ disk \o buffer \in Seq(Byte)
      /\ Len(disk) \in Nat /\ Len(buffer) \in Nat /\ Len(disk \o buffer) = Len(disk) + Len(buffer)
      /\ <<>> \in Seq(Byte) /\ Len(<<>>) = 0
  BY ConcatAt, EmptySeq, BoundAssumption DEF TypeOK
<1>2. CASE buffer = <<>> /\ r = Unflushed
  <2>1. r.buffer = buffer /\ r.disk = disk /\ r.held = held /\ r.faults = faults
    BY <1>2 DEF Unflushed
  <2>2. disk \o buffer = disk
    BY <1>1, <1>2, ConcatEmptySeq
  <2> QED BY <1>1, <1>2, <2>1, <2>2
<1>3. CASE r = Flushed
  <2>1. r.buffer = <<>> /\ r.disk = disk \o buffer /\ r.held = 0 /\ r.faults = faults
    BY <1>3 DEF Flushed
  <2> QED BY <1>1, <2>1
<1>4. CASE \E b \in {buffer, <<>>}, d \in {p \in Partly(disk, held, buffer) : faults < MaxFaults} :
             r = [buffer |-> b, disk |-> d, held |-> 0, faults |-> faults + 1]
  <2>1. PICK b \in {buffer, <<>>}, d \in {p \in Partly(disk, held, buffer) : faults < MaxFaults} :
          r = [buffer |-> b, disk |-> d, held |-> 0, faults |-> faults + 1]
    BY <1>4
  <2>2. r.buffer = b /\ r.disk = d /\ r.held = 0 /\ r.faults = faults + 1 /\ faults < MaxFaults
    BY <2>1
  <2>3. /\ d \in Seq(Byte)
        /\ Len(d) \in Len(disk) - held .. Len(disk) + Len(buffer) - 1
        /\ \A i \in 1 .. Len(d) : d[i] = (disk \o buffer)[i]
    BY <1>1, <2>1, PartlyFacts
  <2>4. /\ Len(d) \in Nat /\ 0 \in 0 .. Len(d)
        /\ Len(d) >= Len(disk) - held /\ Len(d) <= Len(disk) + Len(buffer)
    BY <1>1, <2>3, LenProperties
  <2>5. /\ faults + 1 \in 0 .. MaxFaults /\ faults + 1 \in {faults, faults + 1}
        /\ faults + 1 # faults
    BY <1>1, <2>2
  <2>6. b \in Seq(Byte)
    BY <1>1, <2>1
  <2> QED BY <2>1, <2>2, <2>3, <2>4, <2>5, <2>6
<1> QED BY <1>2, <1>3, <1>4 DEF FlushOutcomes

LEMMA RoomFacts ==
  ASSUME TypeOK, NEW data \in Seq(Byte), NEW r \in RoomOutcomes(data)
  PROVE  /\ r.buffer \in Seq(Byte) /\ r.disk \in Seq(Byte) /\ r.held \in 0 .. Len(r.disk)
         /\ r.faults \in 0 .. MaxFaults /\ r.faults \in {faults, faults + 1}
         /\ r.faults = faults =>
              \/ r.buffer = <<>> /\ r.disk = disk \o buffer /\ r.held \in {0, held}
              \/ /\ r.buffer = buffer /\ r.disk = disk /\ r.held = held
                 /\ Len(buffer) + Len(data) < BufferSize
         /\ r.buffer \in {buffer, <<>>}
         /\ Len(r.disk) >= Len(disk) - held /\ Len(r.disk) <= Len(disk) + Len(buffer)
         /\ \A i \in 1 .. Len(r.disk) : r.disk[i] = (disk \o buffer)[i]
<1>1. CASE r \in FlushOutcomes
  BY <1>1, FlushFacts
<1>2. CASE ~(Len(buffer) + Len(data) >= BufferSize) /\ r = Unflushed
  <2>1. r.buffer = buffer /\ r.disk = disk /\ r.held = held /\ r.faults = faults
    BY <1>2 DEF Unflushed
  <2>2. /\ disk \in Seq(Byte) /\ buffer \in Seq(Byte) /\ held \in 0 .. Len(disk)
        /\ faults \in 0 .. MaxFaults
        /\ Len(disk) \in Nat /\ Len(buffer) \in Nat /\ Len(data) \in Nat
        /\ \A i \in 1 .. Len(disk) : (disk \o buffer)[i] = disk[i]
    BY ConcatAt DEF TypeOK
  <2> QED BY <1>2, <2>1, <2>2, SizeAssumption
<1> QED BY <1>1, <1>2 DEF RoomOutcomes

(* What a write past the buffer leaves of the file.                        *)
LEMMA DirectFacts ==
  ASSUME NEW data \in Seq(Byte), NEW r, r.disk \in Seq(Byte), r.held \in 0 .. Len(r.disk),
         r.faults \in 0 .. MaxFaults, Direct(data, r)
  PROVE  /\ disk' \in Seq(Byte) /\ held' \in 0 .. Len(disk')
         /\ faults' \in 0 .. MaxFaults /\ faults' \in {r.faults, r.faults + 1}
         /\ Len(disk') >= Len(r.disk) - r.held /\ Len(disk') <= Len(r.disk) + Len(data)
         /\ \A i \in 1 .. Len(disk') : disk'[i] = (r.disk \o data)[i]
         /\ faults' = r.faults => disk' = r.disk \o data /\ held' <= r.held + Len(data)
<1>1. /\ r.disk \o data \in Seq(Byte) /\ Len(r.disk \o data) = Len(r.disk) + Len(data)
      /\ Len(r.disk) \in Nat /\ Len(data) \in Nat /\ MaxFaults \in Nat
  BY ConcatAt, BoundAssumption
<1>2. CASE disk' = r.disk \o data /\ held' \in 0 .. r.held + Len(data) /\ faults' = r.faults
  BY <1>1, <1>2
<1>3. CASE r.faults < MaxFaults /\ disk' \in Partly(r.disk, r.held, data) /\ held' = 0 /\ faults' = r.faults + 1
  <2>1. /\ disk' \in Seq(Byte)
        /\ Len(disk') \in Len(r.disk) - r.held .. Len(r.disk) + Len(data) - 1
        /\ \A i \in 1 .. Len(disk') : disk'[i] = (r.disk \o data)[i]
    BY <1>3, PartlyFacts
  <2>2. /\ 0 \in 0 .. Len(disk')
        /\ Len(disk') >= Len(r.disk) - r.held /\ Len(disk') <= Len(r.disk) + Len(data)
    BY <1>1, <2>1, LenProperties
  <2>3. r.faults + 1 \in 0 .. MaxFaults /\ r.faults + 1 # r.faults
    BY <1>1, <1>3
  <2> QED BY <1>3, <2>1, <2>2, <2>3
<1> QED BY <1>2, <1>3 DEF Direct

-------------------------------------------------------------------------------
(* Type correctness.                                                       *)

LEMMA WriteType ==
  ASSUME TypeOK, NEW data \in Data, NEW r \in RoomOutcomes(data), WriteAfter(data, r)
  PROVE  TypeOK'
<1>1. data \in Seq(Byte)
  BY DataAssumption
<1>2. /\ r.buffer \in Seq(Byte) /\ r.disk \in Seq(Byte) /\ r.held \in 0 .. Len(r.disk)
      /\ r.faults \in 0 .. MaxFaults
  BY <1>1, RoomFacts
<1>3. written' \in Seq(Byte) /\ r.buffer \o data \in Seq(Byte)
  BY <1>1, <1>2, ConcatProperties DEF WriteAfter, TypeOK
<1>4. CASE Copy(data, r)
  BY <1>2, <1>3, <1>4 DEF Copy, TypeOK
<1>5. CASE Direct(data, r)
  <2>1. disk' \in Seq(Byte) /\ held' \in 0 .. Len(disk') /\ faults' \in 0 .. MaxFaults
    BY <1>1, <1>2, <1>5, DirectFacts
  <2> QED BY <1>2, <1>3, <1>5, <2>1 DEF Direct, TypeOK
<1> QED BY <1>4, <1>5 DEF WriteAfter

(* What fclose leaves of the file.                                         *)
LEMMA DestroyFacts ==
  ASSUME TypeOK, Destroy
  PROVE  /\ disk' \in Seq(Byte) /\ Len(disk') <= Len(disk) + Len(buffer)
         /\ \A i \in 1 .. Len(disk') : disk'[i] = (disk \o buffer)[i]
         /\ faults' \in 0 .. MaxFaults /\ faults' \in faults .. faults + 2
         /\ faults' = faults => disk' = disk \o buffer
<1>1. PICK r \in FlushOutcomes :
        \/ disk' = r.disk /\ faults' = r.faults
        \/ /\ r.faults < MaxFaults
           /\ disk' \in Partly(r.disk, r.held, <<>>)
           /\ faults' = r.faults + 1
  BY DEF Destroy
<1>2. /\ r.disk \in Seq(Byte) /\ r.held \in 0 .. Len(r.disk)
      /\ r.faults \in 0 .. MaxFaults /\ r.faults \in {faults, faults + 1}
      /\ r.faults = faults => r.disk = disk \o buffer
      /\ Len(r.disk) <= Len(disk) + Len(buffer)
      /\ \A i \in 1 .. Len(r.disk) : r.disk[i] = (disk \o buffer)[i]
  BY FlushFacts
<1>3. faults \in Nat /\ MaxFaults \in Nat
  BY BoundAssumption DEF TypeOK
<1>4. CASE disk' = r.disk /\ faults' = r.faults
  BY <1>2, <1>3, <1>4
<1>5. CASE r.faults < MaxFaults /\ disk' \in Partly(r.disk, r.held, <<>>) /\ faults' = r.faults + 1
  <2>1. <<>> \in Seq(Byte) /\ Len(<<>>) = 0 /\ r.disk \o <<>> = r.disk /\ Len(r.disk) \in Nat
    BY <1>2, EmptySeq, ConcatEmptySeq, LenProperties
  <2>2. /\ disk' \in Seq(Byte)
        /\ Len(disk') \in Len(r.disk) - r.held .. Len(r.disk) + Len(<<>>) - 1
        /\ \A i \in 1 .. Len(disk') : disk'[i] = (r.disk \o <<>>)[i]
    BY <1>2, <1>5, <2>1, PartlyFacts
  <2>3. Len(disk') <= Len(r.disk) /\ Len(disk') \in Nat
    BY <2>1, <2>2, LenProperties
  <2>4. \A i \in 1 .. Len(disk') : i \in 1 .. Len(r.disk) /\ disk'[i] = (disk \o buffer)[i]
    BY <1>2, <2>1, <2>2, <2>3
  <2>5. Len(disk') <= Len(disk) + Len(buffer)
    <3>1. Len(disk) \in Nat /\ Len(buffer) \in Nat
      BY LenProperties DEF TypeOK
    <3> QED BY <1>2, <2>1, <2>3, <3>1
  <2>6. r.faults + 1 \in 0 .. MaxFaults /\ r.faults + 1 \in faults .. faults + 2 /\ r.faults + 1 # faults
    BY <1>2, <1>3, <1>5
  <2> QED BY <1>5, <2>2, <2>4, <2>5, <2>6
<1> QED BY <1>1, <1>4, <1>5

(* What a kill leaves of the file.                                         *)
LEMMA KillFacts ==
  ASSUME TypeOK, Kill
  PROVE  \E n \in Len(disk) - held .. Len(disk) + Len(buffer) :
           /\ n \in 0 .. Len(disk \o buffer) /\ disk' = SubSeq(disk \o buffer, 1, n)
           /\ disk' \in Seq(Byte) /\ Len(disk') = n
           /\ \A i \in 1 .. n : disk'[i] = (disk \o buffer)[i]
<1>1. PICK n \in Len(disk) - held .. Len(disk) + Len(buffer) : disk' = SubSeq(disk \o buffer, 1, n)
  BY DEF Kill
<1>2. /\ disk \o buffer \in Seq(Byte) /\ Len(disk \o buffer) = Len(disk) + Len(buffer)
      /\ held \in 0 .. Len(disk) /\ Len(disk) \in Nat /\ Len(buffer) \in Nat
  BY ConcatAt DEF TypeOK
<1>3. n \in 0 .. Len(disk \o buffer)
  BY <1>1, <1>2
<1> QED BY <1>1, <1>2, <1>3, PrefixFacts

LEMMA TypeStep == TypeOK /\ [Next]_vars => TypeOK'
<1> SUFFICES ASSUME TypeOK, [Next]_vars PROVE TypeOK'
  OBVIOUS
<1>0. <<>> \in Seq(Byte) /\ \A s \in Seq(Byte) : 0 \in 0 .. Len(s)
  BY EmptySeq, LenProperties
<1>1. ASSUME NEW data \in Data, JwWrite(data) PROVE TypeOK'
  BY <1>1, WriteType DEF JwWrite
<1>2. CASE Flush
  <2>1. PICK r \in FlushOutcomes : FlushTo(r)
    BY <1>2 DEF Flush
  <2> QED BY <2>1, FlushFacts DEF FlushTo, TypeOK
<1>3. CASE Destroy
  <2>1. disk' \in Seq(Byte) /\ faults' \in 0 .. MaxFaults
    BY <1>3, DestroyFacts
  <2> QED BY <1>0, <1>3, <2>1 DEF Destroy, TypeOK
<1>4. CASE Kill
  <2>1. disk' \in Seq(Byte)
    BY <1>4, KillFacts
  <2> QED BY <1>0, <1>4, <2>1 DEF Kill, TypeOK
<1>5. CASE UNCHANGED vars
  BY <1>5 DEF vars, TypeOK
<1> QED BY <1>1, <1>2, <1>3, <1>4, <1>5 DEF Next

LEMMA TypeInit == Init => TypeOK
  BY EmptySeq, BoundAssumption DEF Init, TypeOK

(* Every state the writer reaches is well typed, failing writes and a kill *)
(* in the middle of a flush included.                                      *)
THEOREM TypeCorrect == Spec => []TypeOK
  BY TypeInit, TypeStep, PTL DEF Spec

-------------------------------------------------------------------------------
(* The copy of a fragment.                                                 *)

LEMMA CopyStep == TypeOK /\ CopyStaysInBuffer /\ [Next]_vars => CopyStaysInBuffer'
<1> SUFFICES ASSUME TypeOK, CopyStaysInBuffer, [Next]_vars, faults' = 0
             PROVE  state' # "overrun" /\ Len(buffer') < BufferSize
  BY DEF CopyStaysInBuffer
<1>0. faults \in Nat /\ Len(<<>>) = 0 /\ Len(buffer) \in Nat
  BY LenProperties, EmptySeq DEF TypeOK
<1>1. ASSUME NEW data \in Data, JwWrite(data) PROVE state' # "overrun" /\ Len(buffer') < BufferSize
  <2>1. PICK r \in RoomOutcomes(data) : WriteAfter(data, r)
    BY <1>1 DEF JwWrite
  <2>2. data \in Seq(Byte) /\ Len(data) \in Nat
    BY DataAssumption, LenProperties
  <2>3. /\ r.buffer \in Seq(Byte) /\ r.faults \in {faults, faults + 1}
        /\ r.disk \in Seq(Byte) /\ r.held \in 0 .. Len(r.disk) /\ r.faults \in 0 .. MaxFaults
    BY <2>2, RoomFacts
  <2>4. faults' \in {r.faults, r.faults + 1}
    BY <2>1, <2>2, <2>3, DirectFacts DEF WriteAfter, Copy
  <2>5. r.faults = faults /\ faults = 0
    BY <2>3, <2>4, <1>0
  <2>6. r.buffer = <<>> \/ (r.buffer = buffer /\ Len(buffer) + Len(data) < BufferSize)
    BY <2>2, <2>5, RoomFacts
  <2>7. state = "open" /\ Len(buffer) < BufferSize
    BY <2>1, <2>5 DEF CopyStaysInBuffer, WriteAfter
  <2>8. Len(r.buffer \o data) = Len(r.buffer) + Len(data)
    BY <2>2, <2>3, ConcatProperties
  <2>9. CASE Copy(data, r)
    BY <2>2, <2>6, <2>7, <2>8, <2>9, <1>0, SizeAssumption DEF Copy
  <2>10. CASE Direct(data, r)
    BY <2>6, <2>7, <2>10, <1>0, SizeAssumption DEF Direct
  <2> QED BY <2>1, <2>9, <2>10 DEF WriteAfter
<1>2. CASE Flush
  <2>1. PICK r \in FlushOutcomes : FlushTo(r)
    BY <1>2 DEF Flush
  <2>2. r.faults = faults /\ faults = 0
    BY <2>1, <1>0, FlushFacts DEF FlushTo
  <2> QED BY <2>1, <2>2, <1>0, FlushFacts, SizeAssumption DEF FlushTo
<1>3. CASE Destroy
  BY <1>3, <1>0, SizeAssumption DEF Destroy
<1>4. CASE Kill
  BY <1>4, <1>0, SizeAssumption DEF Kill
<1>5. CASE UNCHANGED vars
  BY <1>5 DEF vars, CopyStaysInBuffer
<1> QED BY <1>1, <1>2, <1>3, <1>4, <1>5 DEF Next

(* jw_write copies inside the buffer for every buffer size and every       *)
(* length of fragment, until a first write to the file fails.              *)
THEOREM CopyIsSafe == Spec => []CopyStaysInBuffer
<1>1. Init => CopyStaysInBuffer
  BY EmptySeq, SizeAssumption DEF Init, CopyStaysInBuffer
<1>2. TypeOK /\ CopyStaysInBuffer /\ [Next]_vars => CopyStaysInBuffer'
  BY CopyStep
<1> QED BY <1>1, <1>2, TypeCorrect, PTL DEF Spec

-------------------------------------------------------------------------------
(* Until a write fails the writer is a log.                                *)

LEMMA StepFaults ==
  ASSUME TypeOK, [Next]_vars
  PROVE  faults' \in faults .. faults + 2 /\ (faults' # faults => state = "open")
<1>0. faults \in Nat
  BY DEF TypeOK
<1>1. ASSUME NEW data \in Data, JwWrite(data) PROVE faults' \in faults .. faults + 2 /\ state = "open"
  <2>1. PICK r \in RoomOutcomes(data) : WriteAfter(data, r)
    BY <1>1 DEF JwWrite
  <2>2. data \in Seq(Byte)
    BY DataAssumption
  <2>3. /\ r.faults \in {faults, faults + 1}
        /\ r.disk \in Seq(Byte) /\ r.held \in 0 .. Len(r.disk) /\ r.faults \in 0 .. MaxFaults
    BY <2>2, RoomFacts
  <2>4. faults' \in {r.faults, r.faults + 1}
    BY <2>1, <2>2, <2>3, DirectFacts DEF WriteAfter, Copy
  <2> QED BY <1>0, <2>1, <2>3, <2>4 DEF WriteAfter
<1>2. CASE Flush
  <2>1. PICK r \in FlushOutcomes : FlushTo(r)
    BY <1>2 DEF Flush
  <2>2. r.faults \in {faults, faults + 1}
    BY FlushFacts
  <2> QED BY <1>0, <2>1, <2>2 DEF FlushTo
<1>3. CASE Destroy
  BY <1>3, DestroyFacts DEF Destroy
<1>4. CASE Kill
  BY <1>0, <1>4 DEF Kill
<1>5. CASE UNCHANGED vars
  BY <1>0, <1>5 DEF vars
<1> QED BY <1>1, <1>2, <1>3, <1>4, <1>5 DEF Next

(* A call of jw_write in which no write failed adds data to the log, and   *)
(* what stdio holds back of it is of the new part.                         *)
LEMMA SoundWrite ==
  ASSUME TypeOK, NEW data \in Data, NEW r \in RoomOutcomes(data), WriteAfter(data, r), faults' = faults
  PROVE  /\ disk' \o buffer' = (disk \o buffer) \o data
         /\ Len(disk') - held' >= Len(disk) - held
         /\ Copy(data, r) => buffer' = data \/ (buffer' = buffer \o data /\ Len(buffer) + Len(data) < BufferSize)
<1>1. /\ data \in Seq(Byte) /\ Len(data) \in Nat /\ <<>> \in Seq(Byte) /\ Len(<<>>) = 0
      /\ disk \in Seq(Byte) /\ buffer \in Seq(Byte) /\ held \in 0 .. Len(disk)
      /\ Len(disk) \in Nat /\ Len(buffer) \in Nat /\ faults \in Nat
      /\ disk \o buffer \in Seq(Byte) /\ Len(disk \o buffer) = Len(disk) + Len(buffer)
  BY DataAssumption, EmptySeq, ConcatAt DEF TypeOK
<1>2. /\ r.disk \in Seq(Byte) /\ r.held \in 0 .. Len(r.disk) /\ r.faults \in 0 .. MaxFaults
      /\ r.faults \in {faults, faults + 1}
  BY <1>1, RoomFacts
<1>3. r.faults = faults
  <2>1. faults' \in {r.faults, r.faults + 1}
    BY <1>1, <1>2, DirectFacts DEF WriteAfter, Copy
  <2> QED BY <1>1, <1>2, <2>1
<1>4. CASE r.buffer = <<>> /\ r.disk = disk \o buffer /\ r.held \in {0, held}
  <2>1. CASE Copy(data, r)
    <3>1. buffer' = data /\ disk' = disk \o buffer /\ held' \in {0, held}
      BY <1>1, <1>4, <2>1, ConcatEmptySeq DEF Copy
    <3> QED BY <1>1, <3>1
  <2>2. CASE Direct(data, r)
    <3>1. buffer' = <<>> /\ disk' = (disk \o buffer) \o data /\ held' \in 0 .. r.held + Len(data)
      BY <1>1, <1>3, <1>4, <2>2 DEF Direct
    <3>2. disk' \in Seq(Byte) /\ Len(disk') = Len(disk) + Len(buffer) + Len(data)
      BY <1>1, <3>1, ConcatAt
    <3>3. disk' \o buffer' = disk'
      BY <3>1, <3>2, ConcatEmptySeq
    <3>4. Len(disk') - held' >= Len(disk) - held
      BY <1>1, <1>4, <3>1, <3>2
    <3>5. ~Copy(data, r)
      BY <1>1, <2>2, SizeAssumption DEF Copy, Direct
    <3> QED BY <3>1, <3>3, <3>4, <3>5
  <2> QED BY <2>1, <2>2 DEF WriteAfter
<1>5. CASE /\ r.buffer = buffer /\ r.disk = disk /\ r.held = held
           /\ Len(buffer) + Len(data) < BufferSize
  <2>1. Copy(data, r)
    BY <1>1, <1>5, SizeAssumption DEF WriteAfter, Direct
  <2>2. buffer' = buffer \o data /\ disk' = disk /\ held' = held
    BY <1>5, <2>1 DEF Copy
  <2>3. disk \o (buffer \o data) = (disk \o buffer) \o data
    BY ONLY <1>1, ConcatAssociative
  <2> QED BY <1>1, <1>5, <2>2, <2>3
<1> QED BY <1>1, <1>3, <1>4, <1>5, RoomFacts

(* As long as no write failed a step of the writer is one of the log.      *)
LEMMA SoundStep ==
  ASSUME TypeOK, TypeOK', [Next]_vars, faults = 0, faults' = 0
  PROVE  [LogOf!Next]_LogOf!vars
<1>0. faults = 0 /\ faults' = 0
  OBVIOUS
<1>1. /\ disk \in Seq(Byte) /\ buffer \in Seq(Byte) /\ <<>> \in Seq(Byte)
      /\ disk' \in Seq(Byte) /\ buffer' \in Seq(Byte)
      /\ held \in 0 .. Len(disk) /\ held' \in 0 .. Len(disk')
      /\ Len(disk) \in Nat /\ Len(buffer) \in Nat /\ Len(disk') \in Nat /\ Len(buffer') \in Nat
      /\ disk \o buffer \in Seq(Byte) /\ disk' \o buffer' \in Seq(Byte)
      /\ Len(disk \o buffer) = Len(disk) + Len(buffer)
      /\ Len(disk' \o buffer') = Len(disk') + Len(buffer')
      /\ (disk \o buffer) \o <<>> = disk \o buffer
  BY EmptySeq, ConcatAt, ConcatEmptySeq DEF TypeOK
<1>2. ASSUME NEW data \in Data, JwWrite(data) PROVE LogOf!Append_(data)
  <2>1. PICK r \in RoomOutcomes(data) : WriteAfter(data, r)
    BY <1>2 DEF JwWrite
  <2>2. /\ disk' \o buffer' = (disk \o buffer) \o data
        /\ Len(disk') - held' >= Len(disk) - held
        /\ Copy(data, r) => buffer' = data \/ (buffer' = buffer \o data /\ Len(buffer) + Len(data) < BufferSize)
    BY <2>1, <1>0, SoundWrite
  <2>3. /\ data \in Seq(Byte) /\ Len(data) \in Nat
        /\ r.buffer \in Seq(Byte) /\ Len(buffer \o data) = Len(buffer) + Len(data)
    BY <1>1, DataAssumption, LenProperties, ConcatAt, RoomFacts
  <2>4. Copy(data, r) => ~(Len(r.buffer) + Len(data) > BufferSize)
    <3> SUFFICES ASSUME Copy(data, r) PROVE ~(Len(r.buffer) + Len(data) > BufferSize)
      OBVIOUS
    <3>1. Len(buffer') = Len(r.buffer) + Len(data) /\ Len(data) < BufferSize
      BY <2>3, ConcatAt DEF Copy
    <3> QED BY <2>2, <2>3, <3>1, <1>1, SizeAssumption
  <2>5. state = "open" /\ state' = "open"
    BY <2>1, <2>4 DEF WriteAfter, Copy, Direct
  <2>6. Len(disk') - held' \in Len(disk) - held .. Len(disk' \o buffer')
    BY <1>1, <2>2
  <2> QED BY <2>2, <2>5, <2>6, <1>0 DEF LogOf!Append_
<1>3. ASSUME Flush PROVE LogOf!Sync
  <2>1. PICK r \in FlushOutcomes : FlushTo(r)
    BY <1>3 DEF Flush
  <2>2. /\ disk' = disk \o buffer /\ buffer' = <<>> /\ held' \in {0, held}
        /\ state = "open" /\ state' = "open"
    BY <2>1, <1>0, FlushFacts DEF FlushTo
  <2>3. disk' \o buffer' = disk \o buffer
    BY <2>2, <1>1
  <2>4. Len(disk') - held' \in Len(disk) - held .. Len(disk \o buffer)
    BY <2>2, <1>1
  <2> QED BY <2>2, <2>3, <2>4, <1>0 DEF LogOf!Sync
<1>4. ASSUME Destroy PROVE LogOf!Close
  <2>1. disk' = disk \o buffer /\ buffer' = <<>> /\ held' = 0 /\ state = "open" /\ state' = "closed"
    BY <1>4, <1>0, DestroyFacts DEF Destroy
  <2>2. disk' \o buffer' = disk \o buffer
    BY <2>1, <1>1
  <2>3. Len(disk') - held' = Len(disk \o buffer)
    BY <2>1, <1>1
  <2> QED BY <2>1, <2>2, <2>3, <1>0 DEF LogOf!Close
<1>5. ASSUME Kill PROVE LogOf!Crash
  <2>1. PICK n \in Len(disk) - held .. Len(disk) + Len(buffer) :
          disk' = SubSeq(disk \o buffer, 1, n) /\ Len(disk') = n
    BY <1>5, KillFacts
  <2>2. buffer' = <<>> /\ held' = 0 /\ state = "open" /\ state' = "dead"
    BY <1>5 DEF Kill
  <2>3. disk' \o buffer' = disk' /\ Len(disk') - held' = n
    BY <2>1, <2>2, <1>1, ConcatEmptySeq
  <2>4. n \in Len(disk) - held .. Len(disk \o buffer)
    BY <2>1, <1>1
  <2> QED BY <2>1, <2>2, <2>3, <2>4, <1>0 DEF LogOf!Crash
<1>6. UNCHANGED vars => UNCHANGED LogOf!vars
  BY DEF vars, LogOf!vars
<1> QED BY <1>2, <1>3, <1>4, <1>5, <1>6 DEF Next, LogOf!Next

(* A first failing write ends the log's promise, and later steps do not    *)
(* renew it.                                                               *)
LEMMA LogStep ==
  ASSUME TypeOK, TypeOK', [Next]_vars
  PROVE  [LogOf!Next]_LogOf!vars
<1>0. /\ faults \in Nat /\ faults' \in Nat
      /\ faults' \in faults .. faults + 2 /\ (faults' # faults => state = "open")
  BY BoundAssumption, StepFaults DEF TypeOK
<1>2. CASE faults # 0
  BY <1>0, <1>2 DEF LogOf!vars
<1>3. CASE faults = 0 /\ faults' # 0
  <2>1. LogOf!Fail
    BY <1>0, <1>3 DEF LogOf!Fail
  <2> QED BY <2>1 DEF LogOf!Next
<1>4. CASE faults = 0 /\ faults' = 0
  BY <1>4, SoundStep
<1> QED BY <1>2, <1>3, <1>4

(* As long as no write to the file fails, the file and the buffer          *)
(* together are a log that loses nothing but its end, and that only to a   *)
(* kill.                                                                   *)
THEOREM WriterIsALog == Spec => ImplementsLog
<1>1. Init => LogOf!Init
  <2>1. <<>> \o <<>> = <<>> /\ Len(<<>>) = 0
    BY EmptySeq, ConcatEmptySeq
  <2> QED BY <2>1 DEF Init, LogOf!Init
<1>2. TypeOK /\ TypeOK' /\ [Next]_vars => [LogOf!Next]_LogOf!vars
  BY LogStep
<1> QED BY <1>1, <1>2, TypeCorrect, PTL DEF Spec, ImplementsLog, LogOf!Spec

-------------------------------------------------------------------------------
(* What the file holds of what was written.                                *)

(* Nothing is in the file that was not written, and until a write fails    *)
(* the file with the buffer behind it is all that was written, or a        *)
(* beginning of it if the process was killed.                              *)
HoldsWritten ==
  /\ Range(disk \o buffer) \subseteq Range(written)
  /\ faults = 0 =>
       /\ state # "dead" => disk \o buffer = written
       /\ state = "dead" => \E n \in 0 .. Len(written) : disk \o buffer = SubSeq(written, 1, n)
       /\ state \in {"closed", "dead"} => buffer = <<>>

LEMMA WriteRange ==
  ASSUME TypeOK, NEW data \in Data, NEW r \in RoomOutcomes(data), WriteAfter(data, r)
  PROVE  Range(disk' \o buffer') \subseteq Range(disk \o buffer) \cup Range(data)
<1>1. /\ data \in Seq(Byte) /\ disk \in Seq(Byte) /\ buffer \in Seq(Byte) /\ <<>> \in Seq(Byte)
      /\ Len(disk) \in Nat /\ Len(buffer) \in Nat
      /\ disk \o buffer \in Seq(Byte) /\ Len(disk \o buffer) = Len(disk) + Len(buffer)
  BY DataAssumption, EmptySeq, ConcatAt DEF TypeOK
<1>2. /\ r.buffer \in Seq(Byte) /\ r.disk \in Seq(Byte) /\ r.held \in 0 .. Len(r.disk)
      /\ r.faults \in 0 .. MaxFaults /\ r.buffer \in {buffer, <<>>}
      /\ Len(r.disk) <= Len(disk) + Len(buffer)
      /\ \A i \in 1 .. Len(r.disk) : r.disk[i] = (disk \o buffer)[i]
  BY <1>1, RoomFacts
<1>3. Range(<<>>) = {}
  BY DEF Range
<1>4. Range(r.disk) \subseteq Range(disk \o buffer)
  BY <1>1, <1>2, RangeOfPrefix
<1>5. Range(r.buffer) \subseteq Range(disk \o buffer)
  BY <1>1, <1>2, <1>3, RangeOfConcat
<1>6. CASE Copy(data, r)
  <2>1. r.buffer \o data \in Seq(Byte)
    BY <1>1, <1>2, ConcatAt
  <2>2. Range(r.buffer \o data) = Range(r.buffer) \cup Range(data)
    BY ONLY <1>1, <1>2, RangeOfConcat
  <2>4. Range(r.disk \o (r.buffer \o data)) = Range(r.disk) \cup Range(r.buffer \o data)
    BY ONLY <1>2, <2>1, RangeOfConcat
  <2>3. disk' = r.disk /\ buffer' = r.buffer \o data
    BY <1>6 DEF Copy
  <2> QED BY <1>4, <1>5, <2>2, <2>3, <2>4
<1>7. CASE Direct(data, r)
  <2>1. /\ disk' \in Seq(Byte) /\ Len(disk') <= Len(r.disk) + Len(data)
        /\ \A i \in 1 .. Len(disk') : disk'[i] = (r.disk \o data)[i]
    BY <1>1, <1>2, <1>7, DirectFacts
  <2>2. r.disk \o data \in Seq(Byte) /\ Len(r.disk \o data) = Len(r.disk) + Len(data)
    BY <1>1, <1>2, ConcatAt
  <2>3. Range(disk') \subseteq Range(r.disk) \cup Range(data)
    <3>1. Range(r.disk \o data) = Range(r.disk) \cup Range(data)
      BY ONLY <1>1, <1>2, RangeOfConcat
    <3>2. Range(disk') \subseteq Range(r.disk \o data)
      BY ONLY <2>1, <2>2, RangeOfPrefix
    <3> QED BY <3>1, <3>2
  <2>4. buffer' = r.buffer
    BY <1>7 DEF Direct
  <2>5. Range(disk' \o buffer') = Range(disk') \cup Range(r.buffer)
    BY <1>2, <2>1, <2>4, RangeOfConcat
  <2> QED BY <1>4, <1>5, <2>3, <2>5
<1> QED BY <1>6, <1>7 DEF WriteAfter

(* A step that leaves a prefix of the file and the buffer, and no more.    *)
LEMMA ShrinkRange ==
  ASSUME TypeOK, Range(disk \o buffer) \subseteq Range(written), written' = written,
         disk' \in Seq(Byte), buffer' \in {buffer, <<>>}, Len(disk') <= Len(disk) + Len(buffer),
         \A i \in 1 .. Len(disk') : disk'[i] = (disk \o buffer)[i]
  PROVE  Range(disk' \o buffer') \subseteq Range(written')
<1>1. /\ disk \in Seq(Byte) /\ buffer \in Seq(Byte) /\ <<>> \in Seq(Byte)
      /\ disk \o buffer \in Seq(Byte) /\ Len(disk \o buffer) = Len(disk) + Len(buffer)
      /\ buffer' \in Seq(Byte)
  BY EmptySeq, ConcatAt DEF TypeOK
<1>2. Range(disk') \subseteq Range(disk \o buffer)
  BY <1>1, RangeOfPrefix
<1>3. Range(buffer') \subseteq Range(disk \o buffer)
  <2>1. Range(<<>>) = {}
    BY DEF Range
  <2>2. Range(buffer) \subseteq Range(disk \o buffer)
    BY <1>1, RangeOfConcat
  <2> QED BY <2>1, <2>2
<1>4. Range(disk' \o buffer') = Range(disk') \cup Range(buffer')
  BY <1>1, RangeOfConcat
<1> QED BY <1>2, <1>3, <1>4

LEMMA HoldsStep == TypeOK /\ HoldsWritten /\ [Next]_vars => HoldsWritten'
<1> SUFFICES ASSUME TypeOK, HoldsWritten, [Next]_vars PROVE HoldsWritten'
  OBVIOUS
<1>0. /\ disk \in Seq(Byte) /\ buffer \in Seq(Byte) /\ written \in Seq(Byte) /\ <<>> \in Seq(Byte)
      /\ disk \o buffer \in Seq(Byte) /\ (disk \o buffer) \o <<>> = disk \o buffer
      /\ Len(disk) \in Nat /\ Len(buffer) \in Nat /\ Len(disk \o buffer) = Len(disk) + Len(buffer)
      /\ faults \in Nat
      /\ faults' \in faults .. faults + 2
  BY EmptySeq, ConcatAt, ConcatEmptySeq, StepFaults DEF TypeOK
<1>1. faults' = 0 => faults = 0 /\ faults' = faults
  BY <1>0
<1>2. ASSUME NEW data \in Data, JwWrite(data) PROVE HoldsWritten'
  <2>1. PICK r \in RoomOutcomes(data) : WriteAfter(data, r)
    BY <1>2 DEF JwWrite
  <2>2. data \in Seq(Byte) /\ written' = written \o data /\ state = "open"
    BY <2>1, DataAssumption DEF WriteAfter
  <2>3. Range(disk' \o buffer') \subseteq Range(disk \o buffer) \cup Range(data)
    BY <2>1, WriteRange
  <2>4. Range(written') = Range(written) \cup Range(data)
    BY <1>0, <2>2, RangeOfConcat
  <2>5. faults' = 0 => disk' \o buffer' = written'
    BY <1>1, <2>1, <2>2, SoundWrite DEF HoldsWritten
  <2>6. state' \in {"open", "overrun"}
    BY <2>1, <2>2 DEF WriteAfter, Copy, Direct
  <2> QED BY <2>3, <2>4, <2>5, <2>6 DEF HoldsWritten
<1>3. CASE Flush
  <2>1. PICK r \in FlushOutcomes : FlushTo(r)
    BY <1>3 DEF Flush
  <2>2. /\ written' = written /\ state = "open" /\ state' = "open"
        /\ disk' \in Seq(Byte) /\ buffer' \in {buffer, <<>>}
        /\ Len(disk') <= Len(disk) + Len(buffer)
        /\ \A i \in 1 .. Len(disk') : disk'[i] = (disk \o buffer)[i]
        /\ faults' = faults => disk' = disk \o buffer /\ buffer' = <<>>
    BY <2>1, FlushFacts DEF FlushTo
  <2>3. Range(disk' \o buffer') \subseteq Range(written')
    BY <2>2, ShrinkRange DEF HoldsWritten
  <2>4. faults' = 0 => disk' \o buffer' = written'
    BY <1>0, <1>1, <2>2 DEF HoldsWritten
  <2> QED BY <2>2, <2>3, <2>4 DEF HoldsWritten
<1>4. CASE Destroy
  <2>1. /\ disk' \in Seq(Byte) /\ Len(disk') <= Len(disk) + Len(buffer)
        /\ \A i \in 1 .. Len(disk') : disk'[i] = (disk \o buffer)[i]
        /\ faults' = faults => disk' = disk \o buffer
    BY <1>4, DestroyFacts
  <2>2. buffer' = <<>> /\ written' = written /\ state = "open" /\ state' = "closed"
    BY <1>4 DEF Destroy
  <2>3. Range(disk' \o buffer') \subseteq Range(written')
    BY <2>1, <2>2, ShrinkRange DEF HoldsWritten
  <2>4. faults' = 0 => disk' \o buffer' = written'
    BY <1>0, <1>1, <2>1, <2>2 DEF HoldsWritten
  <2> QED BY <2>2, <2>3, <2>4 DEF HoldsWritten
<1>5. CASE Kill
  <2>1. PICK n \in 0 .. Len(disk \o buffer) :
          /\ disk' = SubSeq(disk \o buffer, 1, n) /\ disk' \in Seq(Byte) /\ Len(disk') = n
          /\ \A i \in 1 .. n : disk'[i] = (disk \o buffer)[i]
    BY <1>5, KillFacts
  <2>2. buffer' = <<>> /\ written' = written /\ state = "open" /\ state' = "dead" /\ faults' = faults
    BY <1>5 DEF Kill
  <2>3. Range(disk' \o buffer') \subseteq Range(written')
    BY <1>0, <2>1, <2>2, ShrinkRange DEF HoldsWritten
  <2>4. disk' \o buffer' = disk'
    BY <2>1, <2>2, ConcatEmptySeq
  <2>5. faults' = 0 => \E m \in 0 .. Len(written') : disk' \o buffer' = SubSeq(written', 1, m)
    BY <2>1, <2>2, <2>4 DEF HoldsWritten
  <2> QED BY <2>2, <2>3, <2>5 DEF HoldsWritten
<1>6. CASE UNCHANGED vars
  BY <1>6 DEF vars, HoldsWritten
<1> QED BY <1>2, <1>3, <1>4, <1>5, <1>6 DEF Next

LEMMA HoldsInit == Init => HoldsWritten
<1> SUFFICES ASSUME Init PROVE HoldsWritten
  OBVIOUS
<1>1. disk = <<>> /\ buffer = <<>> /\ written = <<>> /\ state = "open"
  BY DEF Init
<1>2. <<>> \o <<>> = <<>>
  BY EmptySeq, ConcatEmptySeq
<1> QED BY <1>1, <1>2 DEF HoldsWritten

-------------------------------------------------------------------------------
(* Where the bytes go.                                                     *)

(* The file e agrees with the file d as far as both go, and without the    *)
(* buffer b behind d being kept, with that too.                            *)
Agrees(d, b, kept, e) ==
  /\ \A i \in 1 .. Len(e) : i <= Len(d) => e[i] = d[i]
  /\ ~kept => \A i \in 1 .. Len(e) : i <= Len(d) + Len(b) => e[i] = (d \o b)[i]

(* How places move when d followed by b becomes e followed by t.           *)
MovesWell(d, b, kept, e, t) ==
  /\ \A p \in 0 .. Len(d) + Len(b) :
       /\ Moved(p, d, kept, e) \in 0 .. Len(e) + Len(t)
       /\ p = 0 => Moved(p, d, kept, e) = 0
       /\ Moved(p, d, kept, e) # 0 => (e \o t)[Moved(p, d, kept, e)] = (d \o b)[p]
       /\ kept => Moved(p, d, kept, e) <= Len(d) \/ Moved(p, d, kept, e) > Len(e)
       /\ /\ p # 0 /\ Len(e) >= Len(d)
          /\ kept \/ Len(e) >= Len(d) + Len(b)
          => Moved(p, d, kept, e) # 0
  /\ \A p, q \in 0 .. Len(d) + Len(b) :
       p < q /\ Moved(p, d, kept, e) # 0 /\ Moved(q, d, kept, e) # 0 =>
         Moved(p, d, kept, e) < Moved(q, d, kept, e)

(* One move, with the buffer kept or gone.                                 *)
LEMMA MoveFacts ==
  ASSUME NEW d \in Seq(Byte), NEW b \in Seq(Byte), NEW e \in Seq(Byte), NEW t \in Seq(Byte),
         NEW kept \in BOOLEAN,
         t = IF kept THEN b ELSE <<>>,
         Agrees(d, b, kept, e)
  PROVE  MovesWell(d, b, kept, e, t)
<1>1. /\ Len(d) \in Nat /\ Len(b) \in Nat /\ Len(e) \in Nat /\ Len(t) \in Nat
      /\ Len(<<>>) = 0
      /\ \A i \in 1 .. Len(d) : (d \o b)[i] = d[i]
      /\ \A i \in 1 .. Len(b) : (d \o b)[Len(d) + i] = b[i]
      /\ \A i \in 1 .. Len(e) : (e \o t)[i] = e[i]
      /\ \A i \in 1 .. Len(t) : (e \o t)[Len(e) + i] = t[i]
      /\ \A i \in 1 .. Len(e) : i <= Len(d) => e[i] = d[i]
      /\ ~kept => \A i \in 1 .. Len(e) : i <= Len(d) + Len(b) => e[i] = (d \o b)[i]
  BY ConcatAt, EmptySeq DEF Agrees
<1>2. ASSUME NEW p \in 0 .. Len(d) + Len(b)
      PROVE  \/ /\ kept /\ p > Len(d) /\ Moved(p, d, kept, e) = p + Len(e) - Len(d)
                /\ Moved(p, d, kept, e) \in Len(e) + 1 .. Len(e) + Len(t)
                /\ (e \o t)[Moved(p, d, kept, e)] = (d \o b)[p]
             \/ /\ ~(kept /\ p > Len(d)) /\ p <= Len(e) /\ Moved(p, d, kept, e) = p
                /\ p # 0 => (e \o t)[p] = (d \o b)[p]
             \/ ~(kept /\ p > Len(d)) /\ ~(p <= Len(e)) /\ Moved(p, d, kept, e) = 0
  <2>1. CASE kept /\ p > Len(d)
    <3>1. Moved(p, d, kept, e) = p + Len(e) - Len(d)
      BY <2>1 DEF Moved
    <3>2. /\ p - Len(d) \in 1 .. Len(b) /\ t = b
          /\ p = Len(d) + (p - Len(d)) /\ p + Len(e) - Len(d) = Len(e) + (p - Len(d))
          /\ p + Len(e) - Len(d) \in Len(e) + 1 .. Len(e) + Len(t)
      BY <1>1, <2>1
    <3>3. (e \o t)[Len(e) + (p - Len(d))] = (d \o b)[Len(d) + (p - Len(d))]
      BY <1>1, <3>2
    <3> QED BY <2>1, <3>1, <3>2, <3>3
  <2>2. CASE ~(kept /\ p > Len(d)) /\ p <= Len(e)
    <3>1. Moved(p, d, kept, e) = p
      BY <2>2 DEF Moved
    <3>2. p # 0 /\ p <= Len(d) => (e \o t)[p] = (d \o b)[p]
      <4> SUFFICES ASSUME p # 0, p <= Len(d) PROVE (e \o t)[p] = (d \o b)[p]
        OBVIOUS
      <4>1. p \in 1 .. Len(e) /\ p \in 1 .. Len(d)
        BY <1>1, <2>2
      <4> QED BY <1>1, <4>1
    <3>3. p # 0 /\ ~kept => (e \o t)[p] = (d \o b)[p]
      BY <1>1, <2>2
    <3> QED BY <1>1, <2>2, <3>1, <3>2, <3>3
  <2>3. CASE ~(kept /\ p > Len(d)) /\ ~(p <= Len(e))
    BY <2>3 DEF Moved, Lost
  <2> QED BY <2>1, <2>2, <2>3
<1>3. ASSUME NEW p \in 0 .. Len(d) + Len(b)
      PROVE  /\ Moved(p, d, kept, e) \in 0 .. Len(e) + Len(t)
             /\ p = 0 => Moved(p, d, kept, e) = 0
             /\ Moved(p, d, kept, e) # 0 => (e \o t)[Moved(p, d, kept, e)] = (d \o b)[p]
             /\ kept => Moved(p, d, kept, e) <= Len(d) \/ Moved(p, d, kept, e) > Len(e)
             /\ /\ p # 0 /\ Len(e) >= Len(d)
                /\ kept \/ Len(e) >= Len(d) + Len(b)
                => Moved(p, d, kept, e) # 0
  BY <1>1, <1>2
<1>4. ASSUME NEW p \in 0 .. Len(d) + Len(b), NEW q \in 0 .. Len(d) + Len(b),
             p < q, Moved(p, d, kept, e) # 0, Moved(q, d, kept, e) # 0
      PROVE  Moved(p, d, kept, e) < Moved(q, d, kept, e)
  <2>1. \/ kept /\ p > Len(d) /\ Moved(p, d, kept, e) = p + Len(e) - Len(d)
        \/ ~(kept /\ p > Len(d)) /\ p <= Len(e) /\ Moved(p, d, kept, e) = p
    BY <1>2, <1>4
  <2>2. \/ /\ kept /\ q > Len(d) /\ Moved(q, d, kept, e) = q + Len(e) - Len(d)
           /\ Moved(q, d, kept, e) \in Len(e) + 1 .. Len(e) + Len(t)
        \/ ~(kept /\ q > Len(d)) /\ q <= Len(e) /\ Moved(q, d, kept, e) = q
    BY <1>2, <1>4
  <2> QED BY <1>1, <1>4, <2>1, <2>2
<1> QED BY <1>3, <1>4 DEF MovesWell

(* A flush makes the file d followed by the buffer b into e followed by t, *)
(* and a write past the buffer makes e into f.                             *)
TwoSteps(d, b, e, t, f) ==
  /\ t = b \/ t = <<>>
  /\ Len(e) <= Len(d) + Len(b)
  /\ \A i \in 1 .. Len(e) : e[i] = (d \o b)[i]
  /\ \A i \in 1 .. Len(f) : i <= Len(e) => f[i] = e[i]

(* How the places m move behind both.                                      *)
MovesTwice(d, b, e, t, f, m) ==
  /\ \A p \in 0 .. Len(d) + Len(b) :
       /\ m[p] \in 0 .. Len(f) + Len(t)
       /\ p = 0 => m[p] = 0
       /\ m[p] # 0 => (f \o t)[m[p]] = (d \o b)[p]
       /\ m[p] <= Len(e) \/ m[p] > Len(f)
       /\ /\ p # 0 /\ Len(e) >= Len(d) /\ Len(f) >= Len(e)
          /\ t # <<>> \/ Len(e) >= Len(d) + Len(b)
          => m[p] # 0
  /\ \A p, q \in 0 .. Len(d) + Len(b) :
       p < q /\ m[p] # 0 /\ m[q] # 0 => m[p] < m[q]

LEMMA TwoMoves ==
  ASSUME NEW d \in Seq(Byte), NEW b \in Seq(Byte), NEW e \in Seq(Byte), NEW t \in Seq(Byte),
         NEW f \in Seq(Byte), TwoSteps(d, b, e, t, f),
         NEW m, m = [p \in 0 .. Len(d) + Len(b) |->
                      Moved(Moved(p, d, t # <<>>, e), e, TRUE, f)]
  PROVE  MovesTwice(d, b, e, t, f, m)
<1> DEFINE kept == t # <<>>
           one(p) == Moved(p, d, kept, e)
           two(p) == Moved(p, e, TRUE, f)
<1>1. /\ Len(d) \in Nat /\ Len(b) \in Nat /\ Len(e) \in Nat /\ Len(t) \in Nat /\ Len(f) \in Nat
      /\ kept \in BOOLEAN
      /\ t = IF kept THEN b ELSE <<>>
      /\ Len(e) <= Len(d) + Len(b)
      /\ \A i \in 1 .. Len(e) : e[i] = (d \o b)[i]
      /\ \A i \in 1 .. Len(f) : i <= Len(e) => f[i] = e[i]
  BY LenProperties DEF TwoSteps
<1>2. Agrees(d, b, kept, e) /\ Agrees(e, t, TRUE, f)
  <2>1. \A i \in 1 .. Len(d) : (d \o b)[i] = d[i]
    BY ConcatAt
  <2> QED BY <1>1, <2>1 DEF Agrees
<1> HIDE DEF kept
<1>3. /\ \A p \in 0 .. Len(d) + Len(b) :
           /\ one(p) \in 0 .. Len(e) + Len(t)
           /\ p = 0 => one(p) = 0
           /\ one(p) # 0 => (e \o t)[one(p)] = (d \o b)[p]
           /\ p # 0 /\ Len(e) >= Len(d) /\ (kept \/ Len(e) >= Len(d) + Len(b)) => one(p) # 0
      /\ \A p, q \in 0 .. Len(d) + Len(b) : p < q /\ one(p) # 0 /\ one(q) # 0 => one(p) < one(q)
  <2>1. MovesWell(d, b, kept, e, t)
    BY <1>1, <1>2, MoveFacts
  <2> QED BY <2>1 DEF MovesWell
<1>4. /\ \A p \in 0 .. Len(e) + Len(t) :
           /\ two(p) \in 0 .. Len(f) + Len(t)
           /\ p = 0 => two(p) = 0
           /\ two(p) # 0 => (f \o t)[two(p)] = (e \o t)[p]
           /\ two(p) <= Len(e) \/ two(p) > Len(f)
           /\ p # 0 /\ Len(f) >= Len(e) => two(p) # 0
      /\ \A p, q \in 0 .. Len(e) + Len(t) : p < q /\ two(p) # 0 /\ two(q) # 0 => two(p) < two(q)
  <2>1. TRUE \in BOOLEAN /\ t = IF TRUE THEN t ELSE <<>>
    OBVIOUS
  <2>2. MovesWell(e, t, TRUE, f, t)
    BY <1>2, <2>1, MoveFacts
  <2> QED BY <2>2 DEF MovesWell
<1>5. \A p \in 0 .. Len(d) + Len(b) : m[p] = two(one(p))
  BY DEF kept
<1> HIDE DEF one, two
<1>6. \A p \in 0 .. Len(d) + Len(b) : m[p] # 0 => one(p) # 0
  BY <1>3, <1>4, <1>5
<1>7. ASSUME NEW p \in 0 .. Len(d) + Len(b)
      PROVE  /\ m[p] \in 0 .. Len(f) + Len(t)
             /\ p = 0 => m[p] = 0
             /\ m[p] # 0 => (f \o t)[m[p]] = (d \o b)[p]
             /\ m[p] <= Len(e) \/ m[p] > Len(f)
             /\ /\ p # 0 /\ Len(e) >= Len(d) /\ Len(f) >= Len(e)
                /\ t # <<>> \/ Len(e) >= Len(d) + Len(b)
                => m[p] # 0
  <2>1. one(p) \in 0 .. Len(e) + Len(t) /\ m[p] = two(one(p)) /\ (m[p] # 0 => one(p) # 0)
    BY <1>3, <1>5, <1>6
  <2>2. /\ two(one(p)) \in 0 .. Len(f) + Len(t)
        /\ one(p) = 0 => two(one(p)) = 0
        /\ two(one(p)) # 0 => (f \o t)[two(one(p))] = (e \o t)[one(p)]
        /\ two(one(p)) <= Len(e) \/ two(one(p)) > Len(f)
        /\ one(p) # 0 /\ Len(f) >= Len(e) => two(one(p)) # 0
    BY ONLY <1>4, <2>1
  <2> QED BY <1>3, <2>1, <2>2 DEF kept
<1>8. ASSUME NEW p \in 0 .. Len(d) + Len(b), NEW q \in 0 .. Len(d) + Len(b),
             p < q, m[p] # 0, m[q] # 0
      PROVE  m[p] < m[q]
  <2>1. one(p) < one(q) /\ one(p) \in 0 .. Len(e) + Len(t) /\ one(q) \in 0 .. Len(e) + Len(t)
    BY <1>3, <1>6, <1>8
  <2>2. m[p] = two(one(p)) /\ m[q] = two(one(q))
    BY <1>5
  <2> QED BY ONLY <1>4, <1>8, <2>1, <2>2
<1> QED BY <1>7, <1>8 DEF MovesTwice

(* Where a step with outcome r of its flush leaves the bytes that had a    *)
(* place, and where it puts those of data.                                 *)
LEMMA StepMoves ==
  ASSUME TypeOK, NEW data \in Seq(Byte), NEW r,
         r.buffer \in Seq(Byte), r.disk \in Seq(Byte),
         r.faults \in {faults, faults + 1},
         r.faults = faults =>
           \/ r.buffer = <<>> /\ r.disk = disk \o buffer
           \/ r.buffer = buffer /\ r.disk = disk,
         r.buffer \in {buffer, <<>>},
         Len(r.disk) >= Len(disk) - held, Len(r.disk) <= Len(disk) + Len(buffer),
         \A i \in 1 .. Len(r.disk) : r.disk[i] = (disk \o buffer)[i],
         \/ /\ Len(data) < BufferSize /\ disk' = r.disk /\ buffer' = r.buffer \o data
            /\ faults' = r.faults
         \/ /\ Len(data) >= BufferSize /\ buffer' = r.buffer /\ disk' \in Seq(Byte)
            /\ Len(disk') <= Len(r.disk) + Len(data)
            /\ \A i \in 1 .. Len(disk') : disk'[i] = (r.disk \o data)[i]
            /\ faults' \in {r.faults, r.faults + 1}
            /\ faults' = r.faults => disk' = r.disk \o data
  PROVE  /\ \A p \in DOMAIN Stream \cup {0} :
              /\ MovedBy(p, r) \in DOMAIN Stream' \cup {0}
              /\ p = 0 => MovedBy(p, r) = 0
              /\ MovedBy(p, r) # 0 => Stream'[MovedBy(p, r)] = Stream[p]
              /\ p # 0 /\ ~FlushUnnoticed(r) /\ ~(faults' > r.faults) => MovedBy(p, r) # 0
         /\ \A p, q \in DOMAIN Stream \cup {0} :
              p < q /\ MovedBy(p, r) # 0 /\ MovedBy(q, r) # 0 => MovedBy(p, r) < MovedBy(q, r)
         /\ \A k \in 1 .. Len(data) :
              /\ PlaceOf(data, k, r) \in DOMAIN Stream' \cup {0}
              /\ PlaceOf(data, k, r) # 0 => Stream'[PlaceOf(data, k, r)] = data[k]
              /\ ~(faults' > r.faults) => PlaceOf(data, k, r) # 0
         /\ \A h, k \in 1 .. Len(data) :
              h < k /\ PlaceOf(data, h, r) # 0 /\ PlaceOf(data, k, r) # 0 =>
                PlaceOf(data, h, r) < PlaceOf(data, k, r)
         /\ \A p \in DOMAIN Stream \cup {0}, k \in 1 .. Len(data) :
              MovedBy(p, r) # 0 /\ PlaceOf(data, k, r) # 0 =>
                /\ MovedBy(p, r) # PlaceOf(data, k, r)
                /\ Len(data) < BufferSize => MovedBy(p, r) < PlaceOf(data, k, r)
<1> DEFINE d == disk
           b == buffer
           e == r.disk
           t == r.buffer
           f == disk'
           l == Len(data)
           N == 0 .. Len(d) + Len(b)
           m == [p \in N |-> Moved(Moved(p, d, t # <<>>, e), e, TRUE, f)]
<1>1. /\ d \in Seq(Byte) /\ b \in Seq(Byte) /\ e \in Seq(Byte) /\ t \in Seq(Byte)
      /\ d \o b \in Seq(Byte) /\ Len(d \o b) = Len(d) + Len(b)
      /\ e \o data \in Seq(Byte) /\ Len(e \o data) = Len(e) + l
      /\ Len(d) \in Nat /\ Len(b) \in Nat /\ Len(e) \in Nat /\ Len(t) \in Nat /\ l \in Nat
      /\ \A i \in 1 .. Len(e) : (e \o data)[i] = e[i]
      /\ \A i \in 1 .. l : (e \o data)[Len(e) + i] = data[i]
      /\ Len(<<>>) = 0
      /\ faults \in Nat
  BY ConcatAt, EmptySeq DEF TypeOK
<1>2. f \in Seq(Byte) /\ Len(f) \in Nat
  BY LenProperties
<1>3. \A i \in 1 .. Len(f) : i <= Len(e) => f[i] = e[i]
  <2>1. ASSUME NEW i \in 1 .. Len(f), i <= Len(e) PROVE i \in 1 .. Len(e)
    BY <1>1, <1>2, <2>1
  <2> QED BY <1>1, <2>1
<1>4. /\ t = b \/ t = <<>>
      /\ Len(e) <= Len(d) + Len(b)
      /\ \A i \in 1 .. Len(e) : e[i] = (d \o b)[i]
  OBVIOUS
<1>5. DOMAIN Stream \cup {0} = N
  <2>1. DOMAIN Stream = 1 .. Len(d) + Len(b)
    BY <1>1, ConcatAt DEF Stream
  <2> QED BY <1>1, <2>1
<1>6. \A p \in N : MovedBy(p, r) = m[p]
  BY DEF MovedBy
<1> HIDE DEF m
<1>7. /\ \A p \in N :
           /\ m[p] \in 0 .. Len(f) + Len(t)
           /\ p = 0 => m[p] = 0
           /\ m[p] # 0 => (f \o t)[m[p]] = (d \o b)[p]
           /\ m[p] <= Len(e) \/ m[p] > Len(f)
           /\ /\ p # 0 /\ Len(e) >= Len(d) /\ Len(f) >= Len(e)
              /\ t # <<>> \/ Len(e) >= Len(d) + Len(b)
              => m[p] # 0
      /\ \A p, q \in N : p < q /\ m[p] # 0 /\ m[q] # 0 => m[p] < m[q]
  <2>1. m = [p \in 0 .. Len(d) + Len(b) |-> Moved(Moved(p, d, t # <<>>, e), e, TRUE, f)]
    BY DEF m
  <2>2. TwoSteps(d, b, e, t, f)
    BY <1>3, <1>4 DEF TwoSteps
  <2> HIDE DEF d, b, e, t, f
  <2>3. MovesTwice(d, b, e, t, f, m)
    BY ONLY <1>1, <1>2, <2>1, <2>2, TwoMoves
  <2> QED BY <2>3 DEF MovesTwice
<1>8. ASSUME ~FlushUnnoticed(r), ~(faults' > r.faults)
      PROVE  /\ Len(e) >= Len(d) /\ Len(f) >= Len(e)
             /\ t # <<>> \/ Len(e) >= Len(d) + Len(b)
             /\ l >= BufferSize => Len(f) = Len(e) + l
  <2>1. /\ Len(f) >= Len(e)
        /\ l >= BufferSize => Len(f) = Len(e) + l
    BY <1>1, <1>8, SizeAssumption
  <2>2. CASE r.faults = faults
    BY <1>1, <2>1, <2>2
  <2>3. CASE r.faults = faults + 1
    BY <1>1, <1>8, <2>1, <2>3 DEF FlushUnnoticed, TypeOK
  <2> QED BY <2>2, <2>3
<1>9. CASE l < BufferSize
  <2>1. f = e /\ buffer' = t \o data /\ faults' = r.faults
    BY <1>1, <1>9, SizeAssumption
  <2>2. /\ t \o data \in Seq(Byte) /\ Len(t \o data) = Len(t) + l
        /\ \A i \in 1 .. Len(t) : (t \o data)[i] = t[i]
        /\ \A i \in 1 .. l : (t \o data)[Len(t) + i] = data[i]
    BY <1>1, ConcatAt
  <2>3. /\ DOMAIN Stream' = 1 .. Len(f) + (Len(t) + l)
        /\ \A i \in 1 .. Len(f) : Stream'[i] = f[i] /\ (f \o t)[i] = f[i]
        /\ \A i \in 1 .. Len(t) : (f \o t)[Len(f) + i] = t[i]
        /\ \A i \in 1 .. Len(t) + l : Stream'[Len(f) + i] = (t \o data)[i]
    <3>1. Stream' = f \o (t \o data)
      BY <2>1 DEF Stream
    <3>2. /\ \A i \in 1 .. Len(f) : (f \o t)[i] = f[i]
          /\ \A i \in 1 .. Len(t) : (f \o t)[Len(f) + i] = t[i]
      BY <1>1, <1>2, ConcatAt
    <3>3. /\ DOMAIN (f \o (t \o data)) = 1 .. Len(f) + Len(t \o data)
          /\ \A i \in 1 .. Len(f) : (f \o (t \o data))[i] = f[i]
          /\ \A i \in 1 .. Len(t \o data) : (f \o (t \o data))[Len(f) + i] = (t \o data)[i]
      BY <1>2, <2>2, ConcatAt
    <3> QED BY <2>2, <3>1, <3>2, <3>3
  <2>4. ASSUME NEW i \in 1 .. Len(f) + Len(t)
        PROVE  i \in DOMAIN Stream' /\ Stream'[i] = (f \o t)[i]
    <3>1. CASE i <= Len(f)
      BY <1>1, <1>2, <2>3, <3>1
    <3>2. CASE i > Len(f)
      <4>1. i - Len(f) \in 1 .. Len(t) /\ i - Len(f) \in 1 .. Len(t) + l /\ i = Len(f) + (i - Len(f))
        BY <1>1, <1>2, <3>2
      <4>2. Stream'[Len(f) + (i - Len(f))] = (f \o t)[Len(f) + (i - Len(f))]
        BY <2>2, <2>3, <4>1
      <4>3. i \in DOMAIN Stream'
        BY <1>1, <1>2, <2>3
      <4> QED BY <4>1, <4>2, <4>3
    <3> QED BY <1>1, <1>2, <3>1, <3>2
  <2>5. ASSUME NEW k \in 1 .. l
        PROVE  /\ PlaceOf(data, k, r) = Len(f) + Len(t) + k
               /\ PlaceOf(data, k, r) \in DOMAIN Stream'
               /\ Stream'[PlaceOf(data, k, r)] = data[k]
    <3>1. PlaceOf(data, k, r) = Len(f) + Len(t) + k
      BY <1>9, <2>1 DEF PlaceOf
    <3>2. Len(t) + k \in 1 .. Len(t) + l /\ Len(f) + Len(t) + k = Len(f) + (Len(t) + k)
      BY <1>1, <1>2
    <3>3. Stream'[Len(f) + (Len(t) + k)] = data[k]
      BY <2>2, <2>3, <3>2
    <3>4. Len(f) + (Len(t) + k) \in DOMAIN Stream'
      BY <1>1, <1>2, <2>3
    <3> QED BY <3>1, <3>2, <3>3, <3>4
  <2> DEFINE P(k) == PlaceOf(data, k, r)
             S == Stream
             T == Stream'
  <2>6. /\ \A p \in N : m[p] # 0 => m[p] \in DOMAIN T /\ T[m[p]] = S[p]
    <3> SUFFICES ASSUME NEW p \in N, m[p] # 0 PROVE m[p] \in DOMAIN T /\ T[m[p]] = S[p]
      OBVIOUS
    <3>1. m[p] \in 1 .. Len(f) + Len(t)
      BY <1>1, <1>2, <1>7
    <3>2. (f \o t)[m[p]] = (d \o b)[p]
      BY <1>7
    <3> QED BY <2>4, <3>1, <3>2 DEF Stream
  <2>7. \A k \in 1 .. l : P(k) = Len(f) + Len(t) + k /\ P(k) \in DOMAIN T /\ T[P(k)] = data[k]
    BY <2>5
  <2>8. \A p \in N, k \in 1 .. l : m[p] # 0 => m[p] # P(k) /\ m[p] < P(k)
    <3> SUFFICES ASSUME NEW p \in N, NEW k \in 1 .. l, m[p] # 0 PROVE m[p] # P(k) /\ m[p] < P(k)
      OBVIOUS
    <3>1. m[p] \in 0 .. Len(f) + Len(t)
      BY <1>7
    <3>2. P(k) = Len(f) + Len(t) + k
      BY <2>7
    <3>3. k \in Nat /\ k >= 1 /\ Len(f) \in Nat /\ Len(t) \in Nat
      BY <1>1, <1>2
    <3> HIDE DEF P
    <3> QED BY ONLY <3>1, <3>2, <3>3
  <2>9. \A p \in N : p # 0 /\ ~FlushUnnoticed(r) /\ ~(faults' > r.faults) => m[p] # 0
    BY <1>7, <1>8
  <2>10. \A h, k \in 1 .. l : h < k => P(h) < P(k)
    BY <1>1, <1>2, <2>7
  <2>11. \A k \in 1 .. l : P(k) # 0
    BY <1>1, <1>2, <2>7
  <2> HIDE DEF P, S, T, N
  <2>12. /\ \A p \in N :
              /\ MovedBy(p, r) \in DOMAIN T \cup {0}
              /\ p = 0 => MovedBy(p, r) = 0
              /\ MovedBy(p, r) # 0 => T[MovedBy(p, r)] = S[p]
              /\ p # 0 /\ ~FlushUnnoticed(r) /\ ~(faults' > r.faults) => MovedBy(p, r) # 0
         /\ \A p, q \in N : p < q /\ MovedBy(p, r) # 0 /\ MovedBy(q, r) # 0 => MovedBy(p, r) < MovedBy(q, r)
         /\ \A p \in N, k \in 1 .. l :
              MovedBy(p, r) # 0 /\ P(k) # 0 =>
                MovedBy(p, r) # P(k) /\ (l < BufferSize => MovedBy(p, r) < P(k))
    BY ONLY <1>6, <1>7, <2>6, <2>8, <2>9
  <2>13. /\ \A k \in 1 .. l :
              /\ P(k) \in DOMAIN T \cup {0}
              /\ P(k) # 0 => T[P(k)] = data[k]
              /\ ~(faults' > r.faults) => P(k) # 0
         /\ \A h, k \in 1 .. l : h < k /\ P(h) # 0 /\ P(k) # 0 => P(h) < P(k)
    BY ONLY <2>7, <2>10, <2>11
  <2> QED BY <1>5, <2>12, <2>13 DEF P, S, T
<1>10. CASE l >= BufferSize
  <2>0. ~(Len(data) < BufferSize)
    BY <1>1, <1>10, SizeAssumption
  <2>1. /\ buffer' = t /\ faults' \in {r.faults, r.faults + 1}
        /\ Len(f) <= Len(e) + l
        /\ \A i \in 1 .. Len(f) : f[i] = (e \o data)[i]
    BY <2>0, Zenon
  <2>2. /\ Stream' = f \o t
        /\ DOMAIN Stream' = 1 .. Len(f) + Len(t)
        /\ \A i \in 1 .. Len(f) : Stream'[i] = f[i]
    BY <1>1, <1>2, <2>1, ConcatAt DEF Stream
  <2> DEFINE P(k) == PlaceOf(data, k, r)
             S == Stream
             T == Stream'
  <2>3. \A k \in 1 .. l : P(k) = IF Len(e) + k <= Len(f) THEN Len(e) + k ELSE 0
    BY <2>0, Zenon DEF PlaceOf, Lost
  <2>4. ASSUME NEW k \in 1 .. l, P(k) # 0
        PROVE  /\ P(k) = Len(e) + k /\ P(k) \in 1 .. Len(f)
               /\ P(k) \in DOMAIN T /\ T[P(k)] = data[k]
    <3>1. P(k) = Len(e) + k /\ Len(e) + k <= Len(f)
      BY <2>3, <2>4
    <3>2. Len(e) + k \in 1 .. Len(f) /\ Len(e) + k \in 1 .. Len(f) + Len(t)
      BY <1>1, <1>2, <3>1
    <3>3. T[Len(e) + k] = data[k]
      BY <1>1, <2>1, <2>2, <3>2
    <3> QED BY <2>2, <3>1, <3>2, <3>3
  <2>5. \A p \in N : m[p] # 0 => m[p] \in DOMAIN T /\ T[m[p]] = S[p]
    <3> SUFFICES ASSUME NEW p \in N, m[p] # 0 PROVE m[p] \in DOMAIN T /\ T[m[p]] = S[p]
      OBVIOUS
    <3>1. m[p] \in 1 .. Len(f) + Len(t)
      BY <1>1, <1>2, <1>7
    <3>2. (f \o t)[m[p]] = (d \o b)[p]
      BY <1>7
    <3> QED BY <2>2, <3>1, <3>2 DEF Stream
  <2>6. \A p \in N, k \in 1 .. l : P(k) # 0 => m[p] # P(k)
    <3> SUFFICES ASSUME NEW p \in N, NEW k \in 1 .. l, P(k) # 0 PROVE m[p] # P(k)
      OBVIOUS
    <3>1. P(k) = Len(e) + k /\ P(k) \in 1 .. Len(f)
      BY <2>4
    <3>2. m[p] <= Len(e) \/ m[p] > Len(f)
      BY <1>7
    <3> HIDE DEF P
    <3> QED BY <1>1, <1>2, <3>1, <3>2
  <2>7. \A p \in N : p # 0 /\ ~FlushUnnoticed(r) /\ ~(faults' > r.faults) => m[p] # 0
    BY <1>7, <1>8
  <2>8. \A h, k \in 1 .. l : h < k /\ P(h) # 0 /\ P(k) # 0 => P(h) < P(k)
    BY <1>1, <1>2, <2>3
  <2>9. ~(faults' > r.faults) => \A k \in 1 .. l : P(k) # 0
    <3> SUFFICES ASSUME ~(faults' > r.faults), NEW k \in 1 .. l PROVE P(k) # 0
      OBVIOUS
    <3>1. faults' = r.faults
      BY <1>1, <2>1
    <3>2. f = e \o data
      BY <1>1, <1>10, <3>1, SizeAssumption
    <3> QED BY <1>1, <2>3, <3>2
  <2>10. ~(l < BufferSize)
    BY <1>1, <1>10, SizeAssumption
  <2> HIDE DEF P, S, T, N
  <2>11. /\ \A p \in N :
              /\ MovedBy(p, r) \in DOMAIN T \cup {0}
              /\ p = 0 => MovedBy(p, r) = 0
              /\ MovedBy(p, r) # 0 => T[MovedBy(p, r)] = S[p]
              /\ p # 0 /\ ~FlushUnnoticed(r) /\ ~(faults' > r.faults) => MovedBy(p, r) # 0
         /\ \A p, q \in N : p < q /\ MovedBy(p, r) # 0 /\ MovedBy(q, r) # 0 => MovedBy(p, r) < MovedBy(q, r)
         /\ \A p \in N, k \in 1 .. l :
              MovedBy(p, r) # 0 /\ P(k) # 0 =>
                MovedBy(p, r) # P(k) /\ (l < BufferSize => MovedBy(p, r) < P(k))
    BY ONLY <1>6, <1>7, <2>5, <2>6, <2>7, <2>10
  <2>12. /\ \A k \in 1 .. l :
              /\ P(k) \in DOMAIN T \cup {0}
              /\ P(k) # 0 => T[P(k)] = data[k]
              /\ ~(faults' > r.faults) => P(k) # 0
         /\ \A h, k \in 1 .. l : h < k /\ P(h) # 0 /\ P(k) # 0 => P(h) < P(k)
    BY ONLY <2>4, <2>8, <2>9
  <2> QED BY <1>5, <2>11, <2>12 DEF P, S, T
<1> QED BY <1>1, <1>9, <1>10, SizeAssumption

(* OnlyUnnoticedLoses survives a step that adds data or flushes, by the    *)
(* moves of the bytes that had a place and the places of the new ones.     *)
LEMMA PlacedStep ==
  ASSUME TypeOK, state = "open", OnlyUnnoticedLoses,
         NEW data \in Seq(Byte), NEW r,
         r.buffer \in Seq(Byte), r.disk \in Seq(Byte),
         r.faults \in {faults, faults + 1},
         r.faults = faults =>
           \/ r.buffer = <<>> /\ r.disk = disk \o buffer
           \/ r.buffer = buffer /\ r.disk = disk,
         r.buffer \in {buffer, <<>>},
         Len(r.disk) >= Len(disk) - held, Len(r.disk) <= Len(disk) + Len(buffer),
         \A i \in 1 .. Len(r.disk) : r.disk[i] = (disk \o buffer)[i],
         \/ /\ Len(data) < BufferSize /\ disk' = r.disk /\ buffer' = r.buffer \o data
            /\ faults' = r.faults
         \/ /\ Len(data) >= BufferSize /\ buffer' = r.buffer /\ disk' \in Seq(Byte)
            /\ Len(disk') <= Len(r.disk) + Len(data)
            /\ \A i \in 1 .. Len(disk') : disk'[i] = (r.disk \o data)[i]
            /\ faults' \in {r.faults, r.faults + 1}
            /\ faults' = r.faults => disk' = r.disk \o data,
         written' = written \o data,
         Placed(data, r), Noted(data, r)
  PROVE  OnlyUnnoticedLoses'
<1> DEFINE w == Len(written)
           l == Len(data)
           S == Stream
           T == Stream'
           M(p) == MovedBy(p, r)
           P(k) == PlaceOf(data, k, r)
           D == DOMAIN Stream \cup {0}
<1>1. /\ written \in Seq(Byte) /\ l \in Nat /\ w \in Nat
      /\ DOMAIN written = 1 .. w /\ BufferSize \in Nat
  BY LenProperties, SizeAssumption DEF TypeOK
<1>2. /\ DOMAIN written' = 1 .. w + l
      /\ \A i \in 1 .. w : written'[i] = written[i]
      /\ \A k \in 1 .. l : written'[w + k] = data[k]
  BY <1>1, ConcatAt
<1>3. /\ \A i \in 1 .. w : places[i] \in D /\ (places[i] # 0 => S[places[i]] = written[i])
      /\ "unnoticed" \notin mishaps => \A i \in 1 .. w : places[i] # 0
      /\ \A i, j \in 1 .. w : i < j /\ places[i] # 0 /\ places[j] # 0 =>
           /\ places[i] # places[j]
           /\ "past" \notin mishaps => places[i] < places[j]
  BY <1>1 DEF OnlyUnnoticedLoses, Lost
<1>4. D \subseteq Nat /\ DOMAIN T \subseteq Nat /\ 0 \notin DOMAIN T
  <2>1. disk \in Seq(Byte) /\ buffer \in Seq(Byte) /\ disk' \in Seq(Byte) /\ buffer' \in Seq(Byte)
    <3>1. r.buffer \o data \in Seq(Byte)
      BY ConcatAt
    <3>2. disk' \in Seq(Byte) /\ buffer' \in Seq(Byte)
      BY <3>1, Zenon
    <3> QED BY <3>2 DEF TypeOK
  <2>2. DOMAIN S = 1 .. Len(disk) + Len(buffer) /\ DOMAIN T = 1 .. Len(disk') + Len(buffer')
    BY <2>1, ConcatAt DEF Stream
  <2> QED BY <2>2
<1>5. /\ \A p \in D :
           /\ M(p) \in DOMAIN T \cup {0}
           /\ p = 0 => M(p) = 0
           /\ M(p) # 0 => T[M(p)] = S[p]
           /\ p # 0 /\ ~FlushUnnoticed(r) /\ ~(faults' > r.faults) => M(p) # 0
      /\ \A p, q \in D : p < q /\ M(p) # 0 /\ M(q) # 0 => M(p) < M(q)
      /\ \A k \in 1 .. l :
           /\ P(k) \in DOMAIN T \cup {0}
           /\ P(k) # 0 => T[P(k)] = data[k]
           /\ ~(faults' > r.faults) => P(k) # 0
      /\ \A h, k \in 1 .. l : h < k /\ P(h) # 0 /\ P(k) # 0 => P(h) < P(k)
      /\ \A p \in D, k \in 1 .. l :
           M(p) # 0 /\ P(k) # 0 =>
             M(p) # P(k) /\ (l < BufferSize => M(p) < P(k))
  BY StepMoves
<1>6. /\ DOMAIN places' = 1 .. w + l
      /\ \A i \in 1 .. w : places'[i] = M(places[i])
      /\ \A k \in 1 .. l : places'[w + k] = P(k)
  <2>1. \A i \in 1 .. w + l :
          places'[i] = IF i <= w THEN M(places[i]) ELSE P(i - w)
    BY DEF Placed
  <2>2. \A k \in 1 .. l : w + k \in 1 .. w + l /\ ~(w + k <= w) /\ (w + k) - w = k
    BY <1>1
  <2>3. \A i \in 1 .. w : i \in 1 .. w + l /\ i <= w
    BY <1>1
  <2>4. DOMAIN places' = 1 .. w + l
    BY DEF Placed
  <2> HIDE DEF w, l, M, P
  <2> QED BY <2>1, <2>2, <2>3, <2>4
<1>7. /\ "past" \notin mishaps' => "past" \notin mishaps /\ l < BufferSize
      /\ "unnoticed" \notin mishaps' =>
           "unnoticed" \notin mishaps /\ ~FlushUnnoticed(r) /\ ~(faults' > r.faults)
  <2>1. "past" \notin mishaps' => "past" \notin mishaps /\ ~(l >= BufferSize)
    BY DEF Noted
  <2>2. "unnoticed" \notin mishaps' =>
          "unnoticed" \notin mishaps /\ ~(FlushUnnoticed(r) \/ faults' > r.faults)
    BY DEF Noted
  <2> QED BY <1>1, <2>1, <2>2
<1>8. \A i \in 1 .. w + l : i \in 1 .. w \/ \E k \in 1 .. l : i = w + k
  <2> TAKE i \in 1 .. w + l
  <2>1. i > w => i - w \in 1 .. l /\ i = w + (i - w)
    BY <1>1
  <2>2. ~(i > w) => i \in 1 .. w
    BY <1>1
  <2> QED BY <2>1, <2>2
<1> HIDE DEF S, T, M, P, D, w, l
<1>9. ASSUME NEW i \in 1 .. w + l
      PROVE  /\ places'[i] # 0 => places'[i] \in DOMAIN T /\ T[places'[i]] = written'[i]
             /\ "unnoticed" \notin mishaps' => places'[i] # 0
  <2>1. CASE i \in 1 .. w
    <3>1. places'[i] = M(places[i]) /\ written'[i] = written[i] /\ places[i] \in D
      BY <2>1, <1>2, <1>3, <1>6
    <3>2. M(places[i]) # 0 => places[i] # 0 /\ M(places[i]) \in DOMAIN T /\ T[M(places[i])] = S[places[i]]
      BY <3>1, <1>5
    <3>3. "unnoticed" \notin mishaps' => M(places[i]) # 0
      BY <2>1, <3>1, <1>3, <1>5, <1>7
    <3>4. places[i] # 0 => S[places[i]] = written[i]
      BY <2>1, <1>3
    <3> QED BY <3>1, <3>2, <3>3, <3>4
  <2>2. CASE \E k \in 1 .. l : i = w + k
    <3>1. PICK k \in 1 .. l : i = w + k
      BY <2>2
    <3>2. places'[i] = P(k) /\ written'[i] = data[k]
      BY <3>1, <1>2, <1>6
    <3> QED BY <3>2, <1>5, <1>7
  <2> QED BY <1>8, <2>1, <2>2
<1>10. ASSUME NEW i \in 1 .. w + l, NEW j \in 1 .. w + l, i < j, places'[i] # 0, places'[j] # 0
       PROVE  /\ places'[i] # places'[j]
              /\ "past" \notin mishaps' => places'[i] < places'[j]
  <2>1. CASE i \in 1 .. w /\ j \in 1 .. w
    <3> DEFINE p == places[i]
               q == places[j]
    <3>1. /\ p \in D /\ q \in D
          /\ places'[i] = M(p) /\ places'[j] = M(q) /\ M(p) # 0 /\ M(q) # 0
      BY <2>1, <1>3, <1>6, <1>10
    <3>2. p # 0 /\ q # 0
      BY <3>1, <1>5
    <3>3. p # q /\ ("past" \notin mishaps => p < q)
      BY <2>1, <3>2, <1>3, <1>10
    <3> HIDE DEF p, q
    <3>4. /\ p < q => M(p) < M(q)
          /\ q < p => M(q) < M(p)
      BY <3>1, <1>5
    <3>5. p \in Nat /\ q \in Nat /\ M(p) \in Nat /\ M(q) \in Nat
      BY <3>1, <1>4, <1>5
    <3>6. p < q \/ q < p
      BY <3>3, <3>5
    <3>7. M(p) # M(q)
      BY <3>4, <3>5, <3>6
    <3> QED BY <1>7, <3>1, <3>3, <3>4, <3>7
  <2>2. CASE i \in 1 .. w /\ \E k \in 1 .. l : j = w + k
    <3> DEFINE p == places[i]
    <3>1. PICK k \in 1 .. l : j = w + k
      BY <2>2
    <3>2. p \in D /\ places'[i] = M(p) /\ places'[j] = P(k)
      BY <2>2, <3>1, <1>3, <1>6
    <3> HIDE DEF p
    <3>3. M(p) # P(k) /\ (l < BufferSize => M(p) < P(k))
      BY <3>2, <1>5, <1>10
    <3> QED BY <3>2, <3>3, <1>7
  <2>3. CASE (\E k \in 1 .. l : i = w + k) /\ (\E k \in 1 .. l : j = w + k)
    <3>1. PICK h \in 1 .. l, k \in 1 .. l : i = w + h /\ j = w + k
      BY <2>3
    <3>2. places'[i] = P(h) /\ places'[j] = P(k) /\ h < k
      BY <3>1, <1>1, <1>6, <1>10
    <3>3. P(h) < P(k)
      BY <3>2, <1>5, <1>10
    <3>4. P(h) \in Nat /\ P(k) \in Nat
      BY <1>4, <1>5
    <3>5. P(h) # P(k)
      BY <3>3, <3>4
    <3> QED BY <3>2, <3>3, <3>5
  <2>4. CASE (\E k \in 1 .. l : i = w + k) /\ j \in 1 .. w
    BY <2>4, <1>1, <1>10
  <2> QED BY <1>8, <2>1, <2>2, <2>3, <2>4
<1>11. DOMAIN places' = DOMAIN written'
  BY <1>2, <1>6
<1> QED BY <1>2, <1>9, <1>10, <1>11 DEF OnlyUnnoticedLoses, Lost, T

LEMMA PlacesStep ==
  TypeOK /\ OnlyUnnoticedLoses /\ [PlacesNext]_<<vars, historyVars>> => OnlyUnnoticedLoses'
<1> SUFFICES ASSUME TypeOK, OnlyUnnoticedLoses, [PlacesNext]_<<vars, historyVars>>
             PROVE  OnlyUnnoticedLoses'
  OBVIOUS
<1>1. ASSUME NEW data \in Data, NEW r \in RoomOutcomes(data),
             WriteAfter(data, r), Placed(data, r), Noted(data, r)
      PROVE  OnlyUnnoticedLoses'
  <2>0. data \in Seq(Byte)
    BY DataAssumption
  <2>1. /\ r.buffer \in Seq(Byte) /\ r.disk \in Seq(Byte) /\ r.held \in 0 .. Len(r.disk)
        /\ r.faults \in 0 .. MaxFaults /\ r.faults \in {faults, faults + 1}
        /\ r.faults = faults =>
             \/ r.buffer = <<>> /\ r.disk = disk \o buffer
             \/ r.buffer = buffer /\ r.disk = disk
        /\ r.buffer \in {buffer, <<>>}
        /\ Len(r.disk) >= Len(disk) - held /\ Len(r.disk) <= Len(disk) + Len(buffer)
        /\ \A i \in 1 .. Len(r.disk) : r.disk[i] = (disk \o buffer)[i]
    BY <2>0, RoomFacts
  <2>2. \/ /\ Len(data) < BufferSize /\ disk' = r.disk /\ buffer' = r.buffer \o data
           /\ faults' = r.faults
        \/ /\ Len(data) >= BufferSize /\ buffer' = r.buffer /\ disk' \in Seq(Byte)
           /\ Len(disk') <= Len(r.disk) + Len(data)
           /\ \A i \in 1 .. Len(disk') : disk'[i] = (r.disk \o data)[i]
           /\ faults' \in {r.faults, r.faults + 1}
           /\ faults' = r.faults => disk' = r.disk \o data
    <3>1. CASE Copy(data, r)
      BY <3>1 DEF Copy
    <3>2. CASE Direct(data, r)
      <4>1. Len(data) >= BufferSize /\ buffer' = r.buffer
        BY <3>2 DEF Direct
      <4> QED BY <2>0, <2>1, <3>2, <4>1, DirectFacts
    <3> QED BY <1>1, <3>1, <3>2 DEF WriteAfter
  <2>3. state = "open" /\ written' = written \o data
    BY <1>1 DEF WriteAfter
  <2> QED BY <1>1, <2>0, <2>1, <2>2, <2>3, PlacedStep
<1>2. ASSUME NEW r \in FlushOutcomes, FlushTo(r), Placed(<<>>, r), Noted(<<>>, r)
      PROVE  OnlyUnnoticedLoses'
  <2>1. /\ r.buffer \in Seq(Byte) /\ r.disk \in Seq(Byte)
        /\ r.faults \in 0 .. MaxFaults /\ r.faults \in {faults, faults + 1}
        /\ r.faults = faults => r.buffer = <<>> /\ r.disk = disk \o buffer
        /\ r.buffer \in {buffer, <<>>}
        /\ Len(r.disk) >= Len(disk) - held /\ Len(r.disk) <= Len(disk) + Len(buffer)
        /\ \A i \in 1 .. Len(r.disk) : r.disk[i] = (disk \o buffer)[i]
    BY FlushFacts
  <2>2. /\ <<>> \in Seq(Byte) /\ Len(<<>>) < BufferSize
        /\ disk' = r.disk /\ buffer' = r.buffer \o <<>> /\ faults' = r.faults
    BY <1>2, <2>1, EmptySeq, ConcatEmptySeq, SizeAssumption DEF FlushTo
  <2>3. state = "open" /\ written' = written \o <<>>
    BY <1>2, ConcatEmptySeq DEF FlushTo, TypeOK
  <2> QED BY <1>2, <2>1, <2>2, <2>3, PlacedStep
<1>3. CASE Destroy
  BY <1>3 DEF Destroy, OnlyUnnoticedLoses
<1>4. CASE Kill
  BY <1>4 DEF Kill, OnlyUnnoticedLoses
<1>5. CASE UNCHANGED <<vars, historyVars>>
  BY <1>5 DEF vars, historyVars, OnlyUnnoticedLoses, Stream, Lost
<1> QED BY <1>1, <1>2, <1>3, <1>4, <1>5 DEF PlacesNext

(* The history adds no behaviour to the writer: what is proved of Spec     *)
(* holds with it.                                                          *)
THEOREM PlacesAreHistory == PlacesSpec => Spec
<1>1. PlacesInit => Init
  BY DEF PlacesInit
<1>2. [PlacesNext]_<<vars, historyVars>> => [Next]_vars
  BY DEF PlacesNext, Next, JwWrite, Flush
<1> QED BY <1>1, <1>2, PTL DEF PlacesSpec, Spec

(* Whatever writes to the file fail, and however often the buffer is       *)
(* written again after one, an open writer has each byte that was passed   *)
(* to jw_write in the file or in the buffer, at a place no other byte has  *)
(* and in the order of the calls unless a fragment overtook it past the    *)
(* buffer; or it lost the byte to a failure whose result the writer does   *)
(* not look at, or, behind a fragment that went past the buffer, to a      *)
(* short write.                                                            *)
THEOREM LossIsUnnoticed == PlacesSpec => []OnlyUnnoticedLoses
<1>1. PlacesInit => OnlyUnnoticedLoses
  <2> SUFFICES ASSUME PlacesInit PROVE OnlyUnnoticedLoses
    OBVIOUS
  <2>1. written = <<>> /\ places = <<>>
    BY DEF PlacesInit, Init
  <2>2. DOMAIN written = {} /\ DOMAIN places = {}
    BY <2>1
  <2> QED BY <2>2 DEF OnlyUnnoticedLoses
<1>2. PlacesSpec => []TypeOK
  BY PlacesAreHistory, TypeCorrect
<1> QED BY <1>1, <1>2, PlacesStep, PTL DEF PlacesSpec
===============================================================================
