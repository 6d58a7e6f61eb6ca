----------------------------- MODULE TracerProofs ------------------------------
(***************************************************************************)
(* Proofs about Tracer, for any number of CPUs, any size of the ring and   *)
(* of the writer's buffer and any number of records and of failing writes: *)
(* an accepted trace has no hole and the drop counters count, and while no *)
(* write fails the file is a prefix of the ring and an orderly exit keeps  *)
(* everything.  What is shown of the lines is shown of what the loader has *)
(* passed to the writer; what of it is in the file is shown in             *)
(* JsonWriterProofs.                                                       *)
(***************************************************************************)
EXTENDS Tracer, SequenceTheorems, FiniteSetTheorems, WellFoundedInduction, TLAPS

(* The proofs about the writer, without its history of places.             *)
WP == INSTANCE JsonWriterProofs WITH
  Byte <- Fragment, Data <- {<<f>> : f \in Fragment},
  MaxBytes <- 2 * (MaxRecords + 1), held <- 0, state <- writer,
  places <- <<>>, mishaps <- {}

(* What the writer was given so far.                                       *)
File == written

(* The positions of the closing braces.                                    *)
Closes(f) == {i \in 1 .. Len(f) : f[i].part = "close"}

Open(line) == [line |-> line, part |-> "open"]
Close(line) == [line |-> line, part |-> "close"]

(* A file of whole lines, but for the last: a brace closes the line opened *)
(* just before, and a line is opened only when the last one is closed.     *)
LinesInv(f) ==
  \A i \in 1 .. Len(f) :
    \/ f[i].part = "close" /\ i > 1 /\ f[i - 1] = Open(f[i].line)
    \/ f[i].part = "open" /\ (i > 1 => f[i - 1].part = "close")

(* The records in the order of the ring, and the trailer after them.       *)
OrderInv(f) ==
  \A i, j \in Closes(f) :
    i < j => f[i].line # SummaryLine /\ (f[j].line = SummaryLine \/ f[i].line < f[j].line)

(* Up to the record of each line no submitted record is missing.           *)
CompleteInv(f, ring) ==
  \A j \in Closes(f) : f[j].line # SummaryLine =>
    /\ f[j].line \in 1 .. Len(ring)
    /\ ring[f[j].line] = "ready"
    /\ \A k \in 1 .. f[j].line :
         ring[k] = "lost" \/ \E i \in Closes(f) : i <= j /\ f[i].line = k

FileInv(f, ring) == LinesInv(f) /\ OrderInv(f) /\ CompleteInv(f, ring)

(* The programs: what each knows of the records it asked for, and that no  *)
(* two have asked for the same.                                            *)
Claim(c) == hook[c].at .. hook[c].at + hook[c].owed - 1

HookInv ==
  /\ \A c \in Cpus :
       \/ hook[c] = Idle
       \/ /\ hook[c].step = "fill" /\ hook[c].owed \in 1 .. 2
          /\ hook[c].at \in 1 .. Len(attempts) /\ attempts[hook[c].at] = "busy"
       \/ hook[c].step = "second" /\ hook[c].owed = 1
       \/ /\ hook[c].step = "failed" /\ hook[c].owed \in 1 .. 2
          /\ hook[c].at \in 1 .. Len(attempts)
          /\ \A k \in Claim(c) : k <= Len(attempts) /\ attempts[k] = "lost"
  /\ \A c, d \in Cpus : c # d /\ hook[c].step = "failed" /\ hook[d].step = "failed" =>
       Claim(c) \cap Claim(d) = {}
  /\ \A c, d \in Cpus : c # d /\ hook[c].step = "fill" /\ hook[d].step = "fill" =>
       hook[c].at # hook[d].at

(* The programs that will still want a second record.                      *)
Owing == {c \in Cpus : hook[c].step = "second" \/ (hook[c].step = "fill" /\ hook[c].owed = 2)}
BoundInv == Len(attempts) + Cardinality(Owing) <= MaxRecords

(* The loader, and how far it has come with the file.                      *)
BeforeSummary ==
  {"create", "load", "attach", "ring", "loop", "poll", "drain", "close", "check",
   "summary", "nofile"}

LoaderInv ==
  /\ pc \notin {"detach", "exited", "killed"} => writer \in {"open", "overrun"}
  /\ pc \in {"detach", "exited"} => writer = "closed"
  /\ pc \in BeforeSummary => summary = -1
  /\ summary = -1 => \A i \in 1 .. Len(File) : File[i].line # SummaryLine
  /\ pc # "killed" /\ summary # -1 => \E i \in 1 .. Len(File) : File[i].line = SummaryLine
  /\ pc \notin {"close", "sumclose", "killed"} /\ File # <<>> => File[Len(File)].part = "close"
  /\ pc = "close" =>
       /\ File # <<>> /\ RecordReady
       /\ File[Len(File)] = Open(NextRecord)
  /\ pc = "sumclose" =>
       /\ File # <<>> /\ File[Len(File)] = Open(SummaryLine)
       /\ \A i \in Closes(File) : File[i].line # SummaryLine
  /\ pc # "killed" => Len(File) = 2 * Cardinality(Closes(File))
                                    + (IF pc \in {"close", "sumclose"} THEN 1 ELSE 0)

(* What was consumed is in the file, and nothing else.                     *)
ConsumedInv ==
  /\ \A i \in Closes(File) : File[i].line <= consumed
  /\ \A k \in 1 .. consumed :
       \/ attempts[k] = "lost"
       \/ attempts[k] = "ready" /\ (pc # "killed" => \E i \in Closes(File) : File[i].line = k)

(* The records lost of which count_drop has told.                          *)
Counted == {i \in 1 .. Len(attempts) : attempts[i] = "lost"} \ Uncounted

DropInv == IsFiniteSet(Drops) /\ CountTracksLoss

(* A trailer that counts no drop knows of all losses before the last       *)
(* record consumed.                                                        *)
TrailerInv ==
  summary = 0 /\ ~history.blind =>
    \A k \in 1 .. consumed : attempts[k] = "lost" => k \in history.uncounted

(* The writer, by its own proofs.                                          *)
WriterInv == WP!TypeOK /\ WP!HoldsWritten

Inv ==
  /\ WriterInv
  /\ TypeOK /\ HookInv /\ BoundInv /\ DropInv
  /\ FileInv(File, attempts) /\ LoaderInv /\ ConsumedInv /\ TrailerInv

-------------------------------------------------------------------------------
(* Records and fragments.                                                  *)

Fate == {"busy", "ready", "lost"}

LEMMA RecordsAreNats == MaxRecords \in Nat /\ Cardinality(Cpus) \in Nat
  BY EventsAssumption, FS_CardinalityType DEF MaxRecords

LEMMA FragmentFacts ==
  ASSUME NEW line \in 0 .. MaxRecords
  PROVE  Open(line) \in Fragment /\ Close(line) \in Fragment /\ Open(line) # Close(line)
  BY DEF Open, Close, Fragment

LEMMA MinOfNats ==
  ASSUME NEW T, T \subseteq Nat, T # {}
  PROVE  Min(T) \in T /\ \A y \in T : Min(T) <= y
<1>1. PICK x \in T : \A y \in T : ~(<<y, x>> \in OpToRel(<, Nat))
  BY NatLessThanWellFounded, WFMin
<1>2. \A y \in T : ~(y < x)
  BY <1>1 DEF OpToRel
<1>3. \A y \in T : x <= y
  BY <1>2
<1> QED BY <1>3 DEF Min

(* The next record is the first one held in the ring after the last that   *)
(* was consumed.                                                           *)
LEMMA FirstRecord ==
  ASSUME NEW ring \in Seq(Fate), NEW last \in Nat
  PROVE  LET held == {i \in last + 1 .. Len(ring) : ring[i] # "lost"}
         IN  /\ held # {} =>
                  /\ Min(held) \in last + 1 .. Len(ring)
                  /\ ring[Min(held)] # "lost"
                  /\ \A k \in last + 1 .. Min(held) - 1 : ring[k] = "lost"
             /\ \A n \in last + 1 .. Len(ring) :
                  /\ ring[n] # "lost"
                  /\ \A k \in last + 1 .. n - 1 : ring[k] = "lost"
                  => held # {} /\ Min(held) = n
<1> DEFINE held == {i \in last + 1 .. Len(ring) : ring[i] # "lost"}
           next == Min(held)
<1>1. Len(ring) \in Nat
  BY LenProperties
<1>2. \A i : i \in held <=> i \in last + 1 .. Len(ring) /\ ring[i] # "lost"
  OBVIOUS
<1>3. held \subseteq Nat
  BY <1>1
<1> HIDE DEF held
<1>4. held # {} => next \in held /\ \A k \in held : next <= k
  BY <1>3, MinOfNats
<1> HIDE DEF next
<1>5. ASSUME held # {}
      PROVE  /\ next \in last + 1 .. Len(ring) /\ ring[next] # "lost"
             /\ \A k \in last + 1 .. next - 1 : ring[k] = "lost"
  BY <1>1, <1>2, <1>4, <1>5
<1>6. ASSUME NEW n \in last + 1 .. Len(ring), ring[n] # "lost",
             \A k \in last + 1 .. n - 1 : ring[k] = "lost"
      PROVE  held # {} /\ next = n
  BY <1>1, <1>2, <1>4, <1>6
<1> QED BY <1>5, <1>6 DEF held, next

-------------------------------------------------------------------------------
(* Files.                                                                  *)

LEMMA AppendFacts ==
  ASSUME NEW f \in Seq(Fragment), NEW x \in Fragment
  PROVE  /\ Append(f, x) \in Seq(Fragment)
         /\ Append(f, x) # <<>>
         /\ Len(f) \in Nat /\ Len(Append(f, x)) = Len(f) + 1
         /\ \A i \in 1 .. Len(f) : Append(f, x)[i] = f[i]
         /\ Append(f, x)[Len(f) + 1] = x
         /\ Closes(Append(f, x)) = Closes(f) \cup (IF x.part = "close" THEN {Len(f) + 1} ELSE {})
<1> DEFINE g == Append(f, x)
<1>1. /\ g \in Seq(Fragment) /\ g # <<>>
      /\ Len(f) \in Nat /\ Len(g) = Len(f) + 1
      /\ \A i \in 1 .. Len(f) : g[i] = f[i]
      /\ g[Len(f) + 1] = x
  BY AppendProperties, LenProperties
<1> HIDE DEF g
<1>2. Closes(g) = Closes(f) \cup (IF x.part = "close" THEN {Len(f) + 1} ELSE {})
  BY <1>1 DEF Closes
<1> QED BY <1>1, <1>2 DEF g

(* A crash in the middle of a flush keeps a prefix.                        *)
LEMMA FilePrefix ==
  ASSUME NEW f \in Seq(Fragment), NEW g \in Seq(Fragment), NEW ring,
         Len(g) <= Len(f), \A i \in 1 .. Len(g) : g[i] = f[i], FileInv(f, ring)
  PROVE  FileInv(g, ring) /\ Closes(g) \subseteq Closes(f)
<1>1. Len(f) \in Nat /\ Len(g) \in Nat
  BY LenProperties
<1>2. Closes(g) = {i \in Closes(f) : i <= Len(g)} /\ Closes(f) \subseteq 1 .. Len(f)
  BY <1>1 DEF Closes
<1>3. LinesInv(g)
  <2>1. ASSUME NEW i \in 1 .. Len(g)
        PROVE  \/ g[i].part = "close" /\ i > 1 /\ g[i - 1] = Open(g[i].line)
               \/ g[i].part = "open" /\ (i > 1 => g[i - 1].part = "close")
    <3>1. i \in 1 .. Len(f) /\ g[i] = f[i] /\ (i > 1 => g[i - 1] = f[i - 1])
      BY <1>1
    <3> QED BY <3>1 DEF FileInv, LinesInv
  <2> QED BY <2>1 DEF LinesInv
<1>4. \A i \in Closes(g) : i \in Closes(f) /\ g[i] = f[i] /\ i \in 1 .. Len(g)
  BY <1>1, <1>2
<1>5. OrderInv(g)
  BY <1>4 DEF FileInv, OrderInv
<1>6. CompleteInv(g, ring)
  <2>1. SUFFICES ASSUME NEW j \in Closes(g), g[j].line # SummaryLine
                 PROVE  /\ g[j].line \in 1 .. Len(ring)
                        /\ ring[g[j].line] = "ready"
                        /\ \A k \in 1 .. g[j].line :
                             ring[k] = "lost" \/ \E i \in Closes(g) : i <= j /\ g[i].line = k
    BY DEF CompleteInv
  <2>2. /\ f[j].line \in 1 .. Len(ring)
        /\ ring[f[j].line] = "ready"
        /\ \A k \in 1 .. f[j].line :
             ring[k] = "lost" \/ \E i \in Closes(f) : i <= j /\ f[i].line = k
    BY <1>4, <2>1 DEF FileInv, CompleteInv
  <2>3. \A i \in Closes(f) : i <= j => i \in Closes(g) /\ g[i] = f[i]
    BY <1>1, <1>2, <1>4
  <2> QED BY <1>4, <2>2, <2>3
<1> QED BY <1>2, <1>3, <1>5, <1>6 DEF FileInv

(* What the programs do to the ring: records are added at its end, and     *)
(* reserved ones are submitted.                                            *)
Grows(ring, next) ==
  /\ next \in Seq(Fate) /\ Len(next) >= Len(ring)
  /\ \A k \in 1 .. Len(ring) :
       next[k] = ring[k] \/ (ring[k] = "busy" /\ next[k] = "ready")

LEMMA FileOfGrown ==
  ASSUME NEW f, NEW ring \in Seq(Fate), NEW next, Grows(ring, next), FileInv(f, ring)
  PROVE  FileInv(f, next)
<1>1. Len(ring) \in Nat /\ Len(next) \in Nat
  BY LenProperties DEF Grows
<1>2. CompleteInv(f, next)
  <2>1. SUFFICES ASSUME NEW j \in Closes(f), f[j].line # SummaryLine
                 PROVE  /\ f[j].line \in 1 .. Len(next)
                        /\ next[f[j].line] = "ready"
                        /\ \A k \in 1 .. f[j].line :
                             next[k] = "lost" \/ \E i \in Closes(f) : i <= j /\ f[i].line = k
    BY DEF CompleteInv
  <2>2. /\ f[j].line \in 1 .. Len(ring)
        /\ ring[f[j].line] = "ready"
        /\ \A k \in 1 .. f[j].line :
             ring[k] = "lost" \/ \E i \in Closes(f) : i <= j /\ f[i].line = k
    BY <2>1 DEF FileInv, CompleteInv
  <2> QED BY <1>1, <2>2 DEF Grows
<1> QED BY <1>2 DEF FileInv

(* A line is begun when the last one is closed.                            *)
LEMMA FileOpen ==
  ASSUME NEW f \in Seq(Fragment), NEW ring, FileInv(f, ring), NEW line \in 0 .. MaxRecords,
         f # <<>> => f[Len(f)].part = "close"
  PROVE  FileInv(Append(f, Open(line)), ring)
<1> DEFINE g == Append(f, Open(line))
<1>1. /\ g \in Seq(Fragment) /\ Len(f) \in Nat /\ Len(g) = Len(f) + 1
      /\ \A i \in 1 .. Len(f) : g[i] = f[i]
      /\ g[Len(f) + 1] = Open(line) /\ Open(line).part = "open"
      /\ Closes(g) = Closes(f)
  <2>1. Open(line) \in Fragment /\ Open(line).part = "open"
    BY FragmentFacts DEF Open
  <2>2. Closes(g) = Closes(f) \cup {}
    BY <2>1, AppendFacts
  <2>3. Closes(f) \cup {} = Closes(f)
    OBVIOUS
  <2> QED BY <2>1, <2>2, <2>3, AppendFacts
<1>2. Len(f) > 0 => f # <<>>
  BY EmptySeq
<1>3. \A i \in Closes(f) : i \in 1 .. Len(f) /\ g[i] = f[i]
  BY <1>1 DEF Closes
<1> HIDE DEF g
<1>4. LinesInv(g)
  <2> SUFFICES ASSUME NEW i \in 1 .. Len(g)
               PROVE  \/ g[i].part = "close" /\ i > 1 /\ g[i - 1] = Open(g[i].line)
                      \/ g[i].part = "open" /\ (i > 1 => g[i - 1].part = "close")
    BY DEF LinesInv
  <2>1. CASE i \in 1 .. Len(f)
    <3>1. g[i] = f[i] /\ (i > 1 => g[i - 1] = f[i - 1])
      BY <1>1, <2>1
    <3> QED BY <2>1, <3>1 DEF FileInv, LinesInv
  <2>2. CASE i = Len(f) + 1
    BY <1>1, <1>2, <2>2
  <2> QED BY <1>1, <2>1, <2>2
<1>5. OrderInv(g) /\ CompleteInv(g, ring)
  BY <1>1, <1>3 DEF FileInv, OrderInv, CompleteInv
<1> QED BY <1>4, <1>5 DEF FileInv, g

(* And closed: that of a record when all before it are in the file, the    *)
(* trailer at the end.                                                     *)
LEMMA FileClose ==
  ASSUME NEW f \in Seq(Fragment), NEW ring, FileInv(f, ring), NEW line \in 0 .. MaxRecords,
         f # <<>>, f[Len(f)] = Open(line),
         \A i \in Closes(f) : f[i].line # SummaryLine /\ (line = SummaryLine \/ f[i].line < line),
         line # SummaryLine =>
           /\ line \in 1 .. Len(ring) /\ ring[line] = "ready"
           /\ \A k \in 1 .. line - 1 : ring[k] = "lost" \/ \E i \in Closes(f) : f[i].line = k
  PROVE  FileInv(Append(f, Close(line)), ring)
<1> DEFINE g == Append(f, Close(line))
           n == Len(f) + 1
<1>1. /\ g \in Seq(Fragment) /\ Len(f) \in Nat /\ Len(g) = n
      /\ \A i \in 1 .. Len(f) : g[i] = f[i]
      /\ g[n] = Close(line) /\ Close(line).part = "close" /\ Close(line).line = line
      /\ Closes(g) = Closes(f) \cup {n}
  <2>1. Close(line) \in Fragment /\ Close(line).part = "close" /\ Close(line).line = line
    BY FragmentFacts DEF Close
  <2> QED BY <2>1, AppendFacts
<1>2. Len(f) > 0
  BY EmptySeq
<1>3. \A i \in Closes(f) : i \in 1 .. Len(f) /\ g[i] = f[i]
  BY <1>1 DEF Closes
<1> HIDE DEF g
<1>4. LinesInv(g)
  BY <1>1, <1>2 DEF FileInv, LinesInv
<1>5. OrderInv(g)
  BY <1>1, <1>3 DEF FileInv, OrderInv
<1>6. CompleteInv(g, ring)
  <2>1. SUFFICES ASSUME NEW j \in Closes(g), g[j].line # SummaryLine
                 PROVE  /\ g[j].line \in 1 .. Len(ring)
                        /\ ring[g[j].line] = "ready"
                        /\ \A k \in 1 .. g[j].line :
                             ring[k] = "lost" \/ \E i \in Closes(g) : i <= j /\ g[i].line = k
    BY DEF CompleteInv
  <2>2. CASE j \in Closes(f)
    <3>1. g[j] = f[j] /\ f[j].line # SummaryLine
      BY <1>3, <2>1, <2>2
    <3>2. /\ f[j].line \in 1 .. Len(ring) /\ ring[f[j].line] = "ready"
          /\ \A k \in 1 .. f[j].line :
               ring[k] = "lost" \/ \E i \in Closes(f) : i <= j /\ f[i].line = k
      BY <2>2, <3>1 DEF FileInv, CompleteInv
    <3>3. \A k : (\E i \in Closes(f) : i <= j /\ f[i].line = k) =>
                  \E i \in Closes(g) : i <= j /\ g[i].line = k
      BY <1>1, <1>3
    <3> QED BY <3>1, <3>2, <3>3
  <2>3. CASE j = n
    <3>1. ASSUME NEW k \in 1 .. line
          PROVE  ring[k] = "lost" \/ \E i \in Closes(g) : i <= n /\ g[i].line = k
      <4>1. CASE k = line
        BY <1>1, <4>1
      <4>2. CASE k # line
        <5>1. k \in 1 .. line - 1
          BY <4>2
        <5> QED BY <1>1, <1>3, <2>1, <2>3, <5>1
      <4> QED BY <4>1, <4>2
    <3> QED BY <1>1, <2>1, <2>3, <3>1
  <2> QED BY <1>1, <2>2, <2>3
<1> QED BY <1>4, <1>5, <1>6 DEF FileInv, g

-------------------------------------------------------------------------------
(* The programs.                                                           *)

LEMMA LostFacts ==
  ASSUME NEW k \in 1 .. 2
  PROVE  /\ [i \in 1 .. k |-> "lost"] \in Seq(Fate)
         /\ Len([i \in 1 .. k |-> "lost"]) = k
<1> DEFINE s == [i \in 1 .. k |-> "lost"]
<1>1. s \in [1 .. k -> Fate] /\ k \in Nat
  BY DEF Fate
<1>2. s \in Seq(Fate)
  BY <1>1, SeqDef
<1>3. 1 .. Len(s) = 1 .. k /\ Len(s) \in Nat
  BY <1>1, <1>2, LenProperties
<1> HIDE DEF s
<1>4. Len(s) = k
  <2>1. Len(s) >= 1
    BY <1>3
  <2>2. Len(s) \in 1 .. k /\ k \in 1 .. Len(s)
    BY <1>1, <1>3, <2>1
  <2> QED BY <1>1, <2>2
<1> QED BY <1>2, <1>4 DEF s

(* A request for room adds one reserved record, or all that are lost.      *)
LEMMA ReserveFacts ==
  ASSUME attempts \in Seq(Fate), NEW c \in Cpus, NEW k \in 1 .. 2, Reserve(c, k)
  PROVE  LET at == Len(attempts) + 1
         IN  /\ attempts' \in Seq(Fate)
             /\ Grows(attempts, attempts')
             /\ \A i \in 1 .. Len(attempts) : attempts'[i] = attempts[i]
             /\ \/ /\ hook' = [hook EXCEPT ![c] = [step |-> "fill", owed |-> k, at |-> at]]
                   /\ Len(attempts') = Len(attempts) + 1
                   /\ attempts'[at] = "busy"
                \/ /\ hook' = [hook EXCEPT ![c] = [step |-> "failed", owed |-> k, at |-> at]]
                   /\ Len(attempts') = Len(attempts) + k
                   /\ \A i \in at .. Len(attempts') : attempts'[i] = "lost"
<1> DEFINE at == Len(attempts) + 1
           s == [i \in 1 .. k |-> "lost"]
<1>1. Len(attempts) \in Nat
  BY LenProperties
<1>2. CASE /\ attempts' = Append(attempts, "busy")
           /\ hook' = [hook EXCEPT ![c] = [step |-> "fill", owed |-> k, at |-> at]]
  <2>1. "busy" \in Fate
    BY DEF Fate
  <2>2. /\ attempts' \in Seq(Fate)
        /\ Len(attempts') = Len(attempts) + 1
        /\ \A i \in 1 .. Len(attempts) : attempts'[i] = attempts[i]
        /\ attempts'[at] = "busy"
    BY <1>2, <2>1, AppendProperties
  <2> QED BY <1>1, <1>2, <2>2 DEF Grows
<1>3. CASE /\ attempts' = attempts \o s
           /\ hook' = [hook EXCEPT ![c] = [step |-> "failed", owed |-> k, at |-> at]]
  <2>1. s \in Seq(Fate) /\ Len(s) = k /\ \A i \in 1 .. k : s[i] = "lost"
    BY LostFacts
  <2> HIDE DEF s
  <2>2. /\ attempts' \in Seq(Fate)
        /\ Len(attempts') = Len(attempts) + k
        /\ \A i \in 1 .. Len(attempts) + k :
             attempts'[i] = IF i <= Len(attempts) THEN attempts[i] ELSE s[i - Len(attempts)]
    BY <1>3, <2>1, ConcatProperties
  <2>3. \A i \in at .. Len(attempts') : attempts'[i] = "lost"
    BY <1>1, <2>1, <2>2
  <2> QED BY <1>1, <1>3, <2>2, <2>3 DEF Grows
<1> QED BY <1>2, <1>3 DEF Reserve

HookType == hook \in [Cpus -> [step : {"idle", "fill", "second", "failed"},
                               owed : 0 .. 2, at : 0 .. MaxRecords]]

(* A request for room keeps what the programs know, and is within bounds.  *)
LEMMA ReserveKeeps ==
  ASSUME attempts \in Seq(Fate), HookType, HookInv, BoundInv, NEW c \in Cpus, NEW k \in 1 .. 2,
         Reserve(c, k),
         \/ hook[c] = Idle /\ Len(attempts) < MaxEvents
         \/ hook[c].step = "second" /\ k = hook[c].owed
  PROVE  HookType' /\ HookInv' /\ BoundInv' /\ Counted' = Counted
<1> DEFINE at == Len(attempts) + 1
<1>1. /\ attempts' \in Seq(Fate)
      /\ Grows(attempts, attempts')
      /\ \A i \in 1 .. Len(attempts) : attempts'[i] = attempts[i]
      /\ \/ /\ hook' = [hook EXCEPT ![c] = [step |-> "fill", owed |-> k, at |-> at]]
            /\ Len(attempts') = Len(attempts) + 1
            /\ attempts'[at] = "busy"
         \/ /\ hook' = [hook EXCEPT ![c] = [step |-> "failed", owed |-> k, at |-> at]]
            /\ Len(attempts') = Len(attempts) + k
            /\ \A i \in at .. Len(attempts') : attempts'[i] = "lost"
  BY ReserveFacts
<1>2. Len(attempts) \in Nat /\ Len(attempts') \in Nat /\ k \in Nat /\ k >= 1
  BY <1>1, LenProperties
<1>3. \A d \in Cpus : d # c => hook'[d] = hook[d]
  BY <1>1 DEF HookType
<1>4. /\ hook'[c].owed = k /\ hook'[c].at = at
      /\ \/ /\ hook'[c].step = "fill"
            /\ Len(attempts') = Len(attempts) + 1
            /\ attempts'[at] = "busy"
         \/ /\ hook'[c].step = "failed"
            /\ Len(attempts') = Len(attempts) + k
            /\ \A i \in at .. Len(attempts') : attempts'[i] = "lost"
  BY <1>1 DEF HookType
<1>5. IsFiniteSet(Owing) /\ IsFiniteSet(Owing') /\ Cardinality(Owing) \in Nat /\ Cardinality(Owing') \in Nat
  BY EventsAssumption, FS_Subset, FS_CardinalityType DEF Owing
<1>6. BoundInv'
  <2>1. CASE hook[c] = Idle /\ Len(attempts) < MaxEvents
    <3>1. c \notin Owing /\ Owing \subseteq Cpus \ {c}
      BY <2>1 DEF Owing, Idle
    <3>2. /\ IsFiniteSet(Cpus \ {c})
          /\ Cardinality(Cpus \ {c}) = Cardinality(Cpus) - 1 /\ Cardinality(Cpus) \in Nat
      BY EventsAssumption, FS_RemoveElement, FS_CardinalityType
    <3>3. Cardinality(Owing) <= Cardinality(Cpus) - 1
      BY <3>1, <3>2, FS_Subset
    <3>4. CASE hook'[c].step = "fill" /\ Len(attempts') = Len(attempts) + 1
      <4>1. Owing' \subseteq Owing \cup {c}
        BY <1>3 DEF Owing
      <4>2. /\ IsFiniteSet(Owing \cup {c})
            /\ Cardinality(Owing \cup {c}) = Cardinality(Owing) + 1
        BY <1>5, <3>1, FS_AddElement
      <4>3. Cardinality(Owing') <= Cardinality(Owing) + 1
        BY <4>1, <4>2, FS_Subset
      <4> QED BY <1>2, <1>5, <2>1, <3>2, <3>3, <3>4, <4>3, EventsAssumption DEF BoundInv, MaxRecords
    <3>5. CASE hook'[c].step = "failed" /\ Len(attempts') = Len(attempts) + k
      <4>1. Owing' \subseteq Owing
        BY <1>3, <3>5 DEF Owing
      <4>2. Cardinality(Owing') <= Cardinality(Owing)
        BY <1>5, <4>1, FS_Subset
      <4> QED BY <1>2, <1>5, <2>1, <3>2, <3>3, <3>5, <4>2, EventsAssumption DEF BoundInv, MaxRecords
    <3> QED BY <1>4, <3>4, <3>5
  <2>2. CASE hook[c].step = "second" /\ k = hook[c].owed
    <3>1. k = 1 /\ c \in Owing
      BY <2>2 DEF HookInv, Idle, Owing
    <3>2. Owing' \subseteq Owing \ {c}
      BY <1>3, <1>4, <3>1 DEF Owing
    <3>3. IsFiniteSet(Owing \ {c}) /\ Cardinality(Owing \ {c}) = Cardinality(Owing) - 1
      BY <1>5, <3>1, FS_RemoveElement
    <3>4. Cardinality(Owing') <= Cardinality(Owing) - 1
      BY <3>2, <3>3, FS_Subset
    <3>5. Len(attempts') = Len(attempts) + 1
      BY <1>4, <3>1
    <3> QED BY <1>2, <1>5, <3>4, <3>5, RecordsAreNats DEF BoundInv
  <2> QED BY <2>1, <2>2
<1>7. Len(attempts') <= MaxRecords
  BY <1>2, <1>5, <1>6, RecordsAreNats DEF BoundInv
<1>8. HookType'
  <2>1. at \in 0 .. MaxRecords /\ k \in 0 .. 2
    BY <1>1, <1>2, <1>7, RecordsAreNats
  <2> QED BY <1>1, <2>1 DEF HookType
<1>9. \A d \in Cpus : d # c /\ hook[d].step = "failed" =>
        \A i \in Claim(d) : i \in 1 .. Len(attempts) /\ attempts[i] = "lost"
  <2>1. \A d \in Cpus : hook[d].at \in Nat /\ hook[d].owed \in Nat
    BY RecordsAreNats DEF HookType
  <2> QED BY <1>2, <2>1 DEF HookInv, Claim, Idle
<1>10. HookInv'
  <2>1. ASSUME NEW d \in Cpus
        PROVE  \/ hook'[d] = Idle
               \/ /\ hook'[d].step = "fill" /\ hook'[d].owed \in 1 .. 2
                  /\ hook'[d].at \in 1 .. Len(attempts') /\ attempts'[hook'[d].at] = "busy"
               \/ hook'[d].step = "second" /\ hook'[d].owed = 1
               \/ /\ hook'[d].step = "failed" /\ hook'[d].owed \in 1 .. 2
                  /\ hook'[d].at \in 1 .. Len(attempts')
                  /\ \A i \in Claim(d)' : i <= Len(attempts') /\ attempts'[i] = "lost"
    <3>1. CASE d = c
      <4>1. Claim(c)' = at .. at + k - 1
        BY <1>4 DEF Claim
      <4> QED BY <1>2, <1>4, <3>1, <4>1
    <3>2. CASE d # c
      <4>1. hook'[d] = hook[d] /\ Claim(d)' = Claim(d) /\ Len(attempts') >= Len(attempts)
        BY <1>1, <1>2, <1>3, <3>2 DEF Claim
      <4>2. CASE hook[d].step = "failed"
        <5>1. hook[d].owed \in 1 .. 2 /\ hook[d].at \in 1 .. Len(attempts)
          BY <4>2 DEF HookInv, Idle
        <5>2. \A i \in Claim(d) : i \in 1 .. Len(attempts) /\ attempts[i] = "lost"
          BY <1>9, <3>2, <4>2
        <5>3. Len(attempts) \in Nat /\ Len(attempts') \in Nat
          BY <1>1, <1>2
        <5>4. hook[d].at \in 1 .. Len(attempts')
          BY <4>1, <5>1, <5>3
        <5>5. ASSUME NEW i \in Claim(d)' PROVE i <= Len(attempts') /\ attempts'[i] = "lost"
          <6>1. i \in 1 .. Len(attempts) /\ attempts[i] = "lost"
            BY <4>1, <5>2, <5>5, Zenon
          <6> QED BY <1>1, <1>2, <4>1, <5>3, <6>1
        <5> QED BY <4>1, <4>2, <5>1, <5>4, <5>5, Zenon
      <4>3. CASE hook[d].step # "failed"
        <5>1. \/ hook[d] = Idle
              \/ /\ hook[d].step = "fill" /\ hook[d].owed \in 1 .. 2
                 /\ hook[d].at \in 1 .. Len(attempts) /\ attempts[hook[d].at] = "busy"
              \/ hook[d].step = "second" /\ hook[d].owed = 1
          BY <4>3 DEF HookInv
        <5> QED BY <1>1, <1>2, <4>1, <5>1
      <4> QED BY <4>2, <4>3
    <3> QED BY <3>1, <3>2
  <2>2. ASSUME NEW d \in Cpus, NEW e \in Cpus, d # e, hook'[d].step = "failed", hook'[e].step = "failed"
        PROVE  Claim(d)' \cap Claim(e)' = {}
    <3>1. CASE d # c /\ e # c
      BY <1>3, <2>2, <3>1 DEF HookInv, Claim
    <3>2. ASSUME NEW b \in Cpus, b # c, hook'[b].step = "failed" PROVE Claim(c)' \cap Claim(b)' = {}
      <4>1. Claim(b)' \subseteq 1 .. Len(attempts)
        BY <1>3, <1>9, <3>2 DEF Claim
      <4>2. Claim(c)' = at .. at + k - 1
        BY <1>4 DEF Claim
      <4> QED BY <1>2, <4>1, <4>2
    <3>3. Claim(d)' \cap Claim(e)' = Claim(e)' \cap Claim(d)'
      OBVIOUS
    <3> QED BY <2>2, <3>1, <3>2, <3>3
  <2>3. ASSUME NEW d \in Cpus, NEW e \in Cpus, d # e, hook'[d].step = "fill", hook'[e].step = "fill"
        PROVE  hook'[d].at # hook'[e].at
    <3>1. ASSUME NEW b \in Cpus, b # c, hook'[b].step = "fill" PROVE hook'[b].at # at /\ hook'[b] = hook[b]
      BY <1>2, <1>3, <3>1 DEF HookInv, Idle
    <3> QED BY <1>4, <2>3, <3>1 DEF HookInv
  <2> QED BY <2>1, <2>2, <2>3 DEF HookInv
<1>11. Counted' = Counted
  <2>1. \A i : i \in Uncounted <=> \E d \in Cpus : hook[d].step = "failed" /\ i \in Claim(d)
    BY DEF Uncounted, Claim
  <2>2. \A i : i \in Uncounted' <=> \E d \in Cpus : hook'[d].step = "failed" /\ i \in Claim(d)'
    BY DEF Uncounted, Claim
  <2>3. Claim(c)' = at .. at + k - 1 /\ \A d \in Cpus : d # c => Claim(d)' = Claim(d)
    BY <1>3, <1>4 DEF Claim
  <2>4. hook[c].step # "failed"
    BY DEF Idle
  <2>5. \A i \in 1 .. Len(attempts) : i \in Uncounted' <=> i \in Uncounted
    BY <1>2, <1>3, <2>1, <2>2, <2>3, <2>4
  <2>6. \A i \in at .. Len(attempts') : attempts'[i] = "lost" => i \in Uncounted'
    BY <1>2, <1>4, <2>2, <2>3
  <2>7. \A i : i \in Counted' <=> i \in 1 .. Len(attempts') /\ attempts'[i] = "lost" /\ i \notin Uncounted'
    BY DEF Counted
  <2>8. \A i : i \in Counted <=> i \in 1 .. Len(attempts) /\ attempts[i] = "lost" /\ i \notin Uncounted
    BY DEF Counted
  <2>9. Len(attempts') >= Len(attempts)
    BY <1>2, <1>4
  <2>10. \A i \in 1 .. Len(attempts') : i \in 1 .. Len(attempts) \/ i \in at .. Len(attempts')
    BY <1>2
  <2>11. ASSUME NEW i PROVE i \in Counted' <=> i \in Counted
    <3>1. CASE i \in 1 .. Len(attempts)
      BY <1>1, <1>2, <2>5, <2>7, <2>8, <2>9, <3>1
    <3>2. CASE i \notin 1 .. Len(attempts)
      BY <2>6, <2>7, <2>8, <2>10, <3>2
    <3> QED BY <3>1, <3>2
  <2> QED BY <2>11
<1> QED BY <1>6, <1>8, <1>10, <1>11

LEMMA SubmitKeeps ==
  ASSUME attempts \in Seq(Fate), HookType, HookInv, BoundInv, NEW c \in Cpus, Submit(c)
  PROVE  /\ attempts' \in Seq(Fate) /\ Grows(attempts, attempts')
         /\ HookType' /\ HookInv' /\ BoundInv' /\ Counted' = Counted
<1> DEFINE at == hook[c].at
<1>1. at \in 1 .. Len(attempts) /\ attempts[at] = "busy" /\ hook[c].owed \in 1 .. 2
  BY DEF Submit, HookInv, Idle
<1>2. attempts' = [attempts EXCEPT ![at] = "ready"]
  BY DEF Submit
<1>3. /\ attempts' \in Seq(Fate) /\ Len(attempts) \in Nat /\ Len(attempts') = Len(attempts)
      /\ \A i \in 1 .. Len(attempts) : attempts'[i] = IF i = at THEN "ready" ELSE attempts[i]
  <2>1. "ready" \in Fate
    BY DEF Fate
  <2> HIDE DEF at
  <2> QED BY <1>1, <1>2, <2>1, ExceptSeq, LenProperties
<1>4. Grows(attempts, attempts')
  BY <1>1, <1>3 DEF Grows
<1>5. /\ \A d \in Cpus : d # c => hook'[d] = hook[d]
      /\ \/ hook'[c] = Idle
         \/ hook'[c].step = "second" /\ hook'[c].owed = 1 /\ c \in Owing
  BY <1>1 DEF Submit, HookType, Owing
<1>6. HookType'
  <2>1. Idle \in [step : {"idle", "fill", "second", "failed"}, owed : 0 .. 2, at : 0 .. MaxRecords]
    BY RecordsAreNats DEF Idle
  <2>2. [step |-> "second", owed |-> hook[c].owed - 1, at |-> hook[c].at] \in
          [step : {"idle", "fill", "second", "failed"}, owed : 0 .. 2, at : 0 .. MaxRecords]
    BY <1>1, RecordsAreNats DEF HookType
  <2> QED BY <2>1, <2>2 DEF Submit, HookType
<1>7. hook[c].step = "fill" /\ hook'[c].step # "failed" /\ hook'[c].step # "fill"
  BY <1>5 DEF Submit, Idle
<1>8. \A i \in 1 .. Len(attempts) : attempts'[i] = "lost" <=> attempts[i] = "lost"
  BY <1>1, <1>3
<1>9. \A d \in Cpus : hook'[d].step = "failed" =>
        hook[d].step = "failed" /\ hook'[d] = hook[d] /\ Claim(d)' = Claim(d)
  BY <1>5, <1>7 DEF Claim
<1>10. HookInv'
  <2>1. ASSUME NEW d \in Cpus
        PROVE  \/ hook'[d] = Idle
               \/ /\ hook'[d].step = "fill" /\ hook'[d].owed \in 1 .. 2
                  /\ hook'[d].at \in 1 .. Len(attempts') /\ attempts'[hook'[d].at] = "busy"
               \/ hook'[d].step = "second" /\ hook'[d].owed = 1
               \/ /\ hook'[d].step = "failed" /\ hook'[d].owed \in 1 .. 2
                  /\ hook'[d].at \in 1 .. Len(attempts')
                  /\ \A i \in Claim(d)' : i <= Len(attempts') /\ attempts'[i] = "lost"
    <3>1. CASE d = c
      BY <1>5, <3>1
    <3>2. CASE d # c /\ hook[d].step = "failed"
      <4>1. /\ hook[d].owed \in 1 .. 2 /\ hook[d].at \in 1 .. Len(attempts)
            /\ \A i \in Claim(d) : i <= Len(attempts) /\ attempts[i] = "lost"
        BY <3>2 DEF HookInv, Idle
      <4>2. \A i \in Claim(d) : i \in 1 .. Len(attempts)
        BY <1>3, <4>1 DEF Claim
      <4>3. hook'[d] = hook[d] /\ Claim(d)' = Claim(d)
        BY <1>5, <3>2 DEF Claim
      <4> QED BY <1>3, <1>8, <3>2, <4>1, <4>2, <4>3
    <3>3. CASE d # c /\ hook[d].step # "failed"
      <4>1. \/ hook[d] = Idle
            \/ /\ hook[d].step = "fill" /\ hook[d].owed \in 1 .. 2
               /\ hook[d].at \in 1 .. Len(attempts) /\ attempts[hook[d].at] = "busy"
               /\ hook[d].at # at
            \/ hook[d].step = "second" /\ hook[d].owed = 1
        BY <1>7, <3>3 DEF HookInv
      <4> QED BY <1>3, <1>5, <3>3, <4>1
    <3> QED BY <3>1, <3>2, <3>3
  <2>2. \A d, e \in Cpus : d # e /\ hook'[d].step = "failed" /\ hook'[e].step = "failed" =>
          Claim(d)' \cap Claim(e)' = {}
    BY <1>9 DEF HookInv
  <2>3. \A d, e \in Cpus : d # e /\ hook'[d].step = "fill" /\ hook'[e].step = "fill" =>
          hook'[d].at # hook'[e].at
    BY <1>5, <1>7 DEF HookInv
  <2> QED BY <2>1, <2>2, <2>3 DEF HookInv
<1>11. BoundInv'
  <2>1. IsFiniteSet(Owing) /\ Cardinality(Owing) \in Nat
    BY EventsAssumption, FS_Subset, FS_CardinalityType DEF Owing
  <2>2. Owing' \subseteq Owing
    BY <1>5, <1>7 DEF Owing, Idle
  <2>3. Cardinality(Owing') <= Cardinality(Owing) /\ Cardinality(Owing') \in Nat
    BY <2>1, <2>2, FS_Subset, FS_CardinalityType
  <2> QED BY <1>3, <2>1, <2>3, RecordsAreNats DEF BoundInv
<1>12. Counted' = Counted
  <2>1. Uncounted' = Uncounted
    <3>1. \A d \in Cpus : hook'[d].step = "failed" <=> hook[d].step = "failed"
      BY <1>5, <1>7
    <3>2. \A d \in Cpus : hook[d].step = "failed" => hook'[d] = hook[d]
      BY <1>5, <1>7
    <3> QED BY <3>1, <3>2 DEF Uncounted
  <2> QED BY <1>3, <1>8, <2>1 DEF Counted
<1> QED BY <1>3, <1>4, <1>6, <1>10, <1>11, <1>12

(* A failed reservation that is counted accounts for the records it lost,  *)
(* one or two, and no other accounts for them.                             *)
LEMMA CountKeeps ==
  ASSUME attempts \in Seq(Fate), HookType, HookInv, BoundInv, DropInv,
         dropped \in [Cpus -> Nat], NEW c \in Cpus, CountDrop(c)
  PROVE  HookType' /\ HookInv' /\ BoundInv' /\ DropInv'
<1> DEFINE n == dropped[c] + 1
<1>1. /\ hook[c].step = "failed" /\ hook[c].owed \in 1 .. 2 /\ hook[c].at \in 1 .. Len(attempts)
      /\ \A k \in Claim(c) : k <= Len(attempts) /\ attempts[k] = "lost"
  BY DEF CountDrop, HookInv, Idle
<1>2. /\ attempts' = attempts /\ hook'[c] = Idle
      /\ \A d \in Cpus : d # c => hook'[d] = hook[d]
  BY DEF CountDrop, HookType
<1>3. HookType'
  BY RecordsAreNats DEF CountDrop, HookType, Idle
<1>4. \A d \in Cpus : hook'[d] = Idle \/ (d # c /\ hook'[d] = hook[d])
  BY <1>2
<1>5. HookInv'
  <2>1. \A d \in Cpus : hook'[d] # Idle => Claim(d)' = Claim(d)
    BY <1>4 DEF Claim
  <2>2. ASSUME NEW d \in Cpus, hook'[d] # Idle
        PROVE  \/ /\ hook'[d].step = "fill" /\ hook'[d].owed \in 1 .. 2
                  /\ hook'[d].at \in 1 .. Len(attempts') /\ attempts'[hook'[d].at] = "busy"
               \/ hook'[d].step = "second" /\ hook'[d].owed = 1
               \/ /\ hook'[d].step = "failed" /\ hook'[d].owed \in 1 .. 2
                  /\ hook'[d].at \in 1 .. Len(attempts')
                  /\ \A i \in Claim(d)' : i <= Len(attempts') /\ attempts'[i] = "lost"
    <3>1. hook'[d] = hook[d] /\ Claim(d)' = Claim(d) /\ hook[d] # Idle
      BY <1>4, <2>1, <2>2
    <3> QED BY <1>2, <3>1 DEF HookInv
  <2>3. \A d \in Cpus : hook'[d].step \in {"fill", "failed"} => hook'[d] = hook[d] /\ Claim(d)' = Claim(d)
    BY <1>4, <2>1 DEF Idle
  <2>4. \A d, e \in Cpus : d # e /\ hook'[d].step = "failed" /\ hook'[e].step = "failed" =>
          Claim(d)' \cap Claim(e)' = {}
    BY <2>3 DEF HookInv
  <2>5. \A d, e \in Cpus : d # e /\ hook'[d].step = "fill" /\ hook'[e].step = "fill" =>
          hook'[d].at # hook'[e].at
    BY <2>3 DEF HookInv
  <2> QED BY <2>2, <2>4, <2>5 DEF HookInv
<1>6. BoundInv'
  <2>1. Owing' = Owing
    BY <1>1, <1>2 DEF Owing, Idle
  <2> QED BY <1>2, <2>1 DEF BoundInv
<1>7. Counted' = Counted \cup Claim(c) /\ Counted \cap Claim(c) = {}
  <2>1. \A i : i \in Uncounted <=> \E d \in Cpus : hook[d].step = "failed" /\ i \in Claim(d)
    BY DEF Uncounted, Claim
  <2>2. \A i : i \in Uncounted' <=> \E d \in Cpus : d # c /\ hook[d].step = "failed" /\ i \in Claim(d)
    <3>1. \A i : i \in Uncounted' <=> \E d \in Cpus : hook'[d].step = "failed" /\ i \in Claim(d)'
      BY DEF Uncounted, Claim
    <3>2. \A d \in Cpus : d # c => Claim(d)' = Claim(d)
      BY <1>2 DEF Claim
    <3> QED BY <1>2, <3>1, <3>2 DEF Idle
  <2>3. \A d \in Cpus : d # c /\ hook[d].step = "failed" => Claim(c) \cap Claim(d) = {}
    BY <1>1 DEF HookInv
  <2>4. \A k \in Claim(c) : k \in 1 .. Len(attempts)
    BY <1>1, LenProperties DEF Claim
  <2> QED BY <1>1, <1>2, <2>1, <2>2, <2>3, <2>4 DEF Counted
<1>8. IsFiniteSet(Counted) /\ Cardinality(Counted) \in Nat
  <2>1. Counted \subseteq 1 .. Len(attempts) /\ Len(attempts) \in Nat
    BY LenProperties DEF Counted
  <2>2. IsFiniteSet(1 .. Len(attempts))
    BY <2>1, FS_Interval
  <2>3. IsFiniteSet(Counted)
    BY <2>1, <2>2, FS_Subset
  <2> QED BY <2>3, FS_CardinalityType
<1>9. IsFiniteSet(Claim(c)) /\ Cardinality(Claim(c)) = hook[c].owed
  <2>1. PICK a, b : a = hook[c].at /\ b = hook[c].at + hook[c].owed - 1
    OBVIOUS
  <2>2. a \in Int /\ b \in Int /\ hook[c].owed = IF a > b THEN 0 ELSE b - a + 1
    BY <1>1, <2>1
  <2>3. IsFiniteSet(a .. b) /\ Cardinality(a .. b) = hook[c].owed
    BY <2>2, FS_Interval
  <2> QED BY <2>1, <2>3 DEF Claim
<1>10. Cardinality(Counted') = Cardinality(Counted) + hook[c].owed
  <2>1. Cardinality(Counted \cup Claim(c)) =
          Cardinality(Counted) + Cardinality(Claim(c)) - Cardinality({})
    BY <1>7, <1>8, <1>9, FS_Union
  <2> QED BY <1>1, <1>7, <1>8, <1>9, <2>1, FS_EmptySet
<1>11. Drops' = Drops \cup {<<c, n>>} /\ <<c, n>> \notin Drops
  <2>1. \A x : x \in Drops <=> \E d \in Cpus : x \in {d} \X (1 .. dropped[d])
    BY DEF Drops
  <2>2. \A x : x \in Drops' <=> \E d \in Cpus : x \in {d} \X (1 .. dropped'[d])
    BY DEF Drops
  <2>3. dropped'[c] = n /\ \A d \in Cpus : d # c => dropped'[d] = dropped[d]
    BY DEF CountDrop
  <2>4. dropped[c] \in Nat /\ 1 .. n = (1 .. dropped[c]) \cup {n} /\ n \notin 1 .. dropped[c]
    OBVIOUS
  <2>5. <<c, n>> \notin Drops
    BY <2>1, <2>4
  <2>6. {c} \X (1 .. dropped'[c]) = ({c} \X (1 .. dropped[c])) \cup {<<c, n>>}
    BY <2>3, <2>4
  <2>7. ASSUME NEW x PROVE x \in Drops' <=> x \in Drops \/ x = <<c, n>>
    <3> HIDE DEF n
    <3> QED BY <2>1, <2>2, <2>3, <2>6
  <2> HIDE DEF n
  <2> QED BY <2>5, <2>7
<1>12. IsFiniteSet(Drops') /\ Cardinality(Drops') = Cardinality(Drops) + 1
  BY <1>11, FS_AddElement DEF DropInv
<1>13. DropInv'
  <2>1. Cardinality(Drops) \in Nat
    BY FS_CardinalityType DEF DropInv
  <2>2. Cardinality(Drops) <= Cardinality(Counted) /\ Cardinality(Counted) <= 2 * Cardinality(Drops)
    BY DEF DropInv, CountTracksLoss, Counted, read_dropped_events
  <2>3. /\ Cardinality(Drops') <= Cardinality(Counted')
        /\ Cardinality(Counted') <= 2 * Cardinality(Drops')
    BY <1>1, <1>8, <1>10, <1>12, <2>1, <2>2
  <2> QED BY <1>12, <2>3 DEF DropInv, CountTracksLoss, Counted, read_dropped_events
<1> QED BY <1>3, <1>5, <1>6, <1>13

(* Whatever the programs do to the ring, what the loader relies on stays.  *)
LEMMA LoaderUnmoved ==
  ASSUME Inv, WriterInv', Grows(attempts, attempts'), Len(attempts') <= MaxRecords, HookType',
         dropped' \in [Cpus -> Nat], UNCHANGED <<loaderVars, writerVars, signalVars, attached>>
  PROVE  TypeOK' /\ FileInv(File', attempts') /\ LoaderInv' /\ ConsumedInv' /\ TrailerInv'
<1>1. UNCHANGED <<consumed, pc, err, summary, history, buffer, disk, writer, faults, written, exiting, elapsed, attached>>
  BY DEF loaderVars, writerVars, signalVars
<1>2. attempts \in Seq(Fate) /\ consumed \in 0 .. Len(attempts)
  BY DEF Inv, TypeOK, Fate
<1>3. /\ attempts' \in Seq(Fate) /\ Len(attempts) \in Nat /\ Len(attempts') \in Nat
      /\ Len(attempts') >= Len(attempts)
      /\ \A k \in 1 .. Len(attempts) :
           attempts'[k] = attempts[k] \/ (attempts[k] = "busy" /\ attempts'[k] = "ready")
  BY <1>2, LenProperties DEF Grows
<1>4. TypeOK'
  <2>1. consumed' \in 0 .. Len(attempts')
    BY <1>1, <1>2, <1>3
  <2> QED BY <1>1, <1>3, <2>1 DEF Inv, TypeOK, HookType, Fate
<1>5. File' = File
  BY <1>1 DEF File
<1>6. FileInv(File', attempts')
  BY <1>2, <1>5, FileOfGrown DEF Inv
<1>7. pc = "close" => RecordReady' /\ NextRecord' = NextRecord
  <2> SUFFICES ASSUME pc = "close" PROVE RecordReady' /\ NextRecord' = NextRecord
    OBVIOUS
  <2> DEFINE r == NextRecord
  <2>1. /\ r \in consumed + 1 .. Len(attempts) /\ attempts[r] = "ready"
        /\ \A k \in consumed + 1 .. r - 1 : attempts[k] = "lost"
    <3>1. attempts \in Seq(Fate) /\ consumed \in Nat /\ InRing # {} /\ attempts[r] = "ready"
      BY <1>2, <1>3 DEF Inv, LoaderInv, RecordReady
    <3> QED BY <3>1, FirstRecord DEF InRing, NextRecord
  <2> HIDE DEF r
  <2>2. /\ r \in consumed' + 1 .. Len(attempts') /\ attempts'[r] = "ready"
        /\ \A k \in consumed' + 1 .. r - 1 : attempts'[k] = "lost"
    BY <1>1, <1>2, <1>3, <2>1
  <2>3. InRing' # {} /\ NextRecord' = r
    <3>1. attempts' \in Seq(Fate) /\ consumed' \in Nat
      BY <1>1, <1>2, <1>3
    <3>2. attempts'[r] # "lost"
      BY <2>2
    <3> QED BY <2>2, <3>1, <3>2, FirstRecord DEF InRing, NextRecord
  <2> QED BY <2>2, <2>3 DEF RecordReady, r
<1>8. LoaderInv'
  <2>1. LoaderInv
    BY DEF Inv
  <2>2. Closes(File)' = Closes(File) /\ BeforeSummary' = BeforeSummary
    BY <1>5, Zenon DEF Closes, BeforeSummary
  <2>3. pc' = pc /\ summary' = summary /\ writer' = writer
    BY DEF loaderVars, writerVars
  <2> QED BY <1>5, <1>7, <2>1, <2>2, <2>3 DEF LoaderInv
<1>9. Closes(File)' = Closes(File)
  BY <1>5, Zenon DEF Closes
<1>10. ConsumedInv'
  BY <1>1, <1>2, <1>3, <1>5, <1>9 DEF Inv, ConsumedInv
<1>11. TrailerInv'
  BY <1>1, <1>2, <1>3, <1>5, <1>9 DEF Inv, TrailerInv
<1> QED BY <1>4, <1>6, <1>8, <1>10, <1>11

(* No two programs disturb each other or the loader.                       *)
LEMMA ProgramStep ==
  ASSUME Inv, WriterInv', NEW c \in Cpus, Start(c) \/ Finish(c)
  PROVE  Inv'
<1>1. attempts \in Seq(Fate) /\ HookType /\ HookInv /\ BoundInv /\ dropped \in [Cpus -> Nat]
  BY DEF Inv, TypeOK, HookType, Fate
<1>2. UNCHANGED <<loaderVars, writerVars, signalVars, attached>>
  BY DEF Start, Finish
<1>3. /\ HookType' /\ HookInv' /\ BoundInv' /\ DropInv' /\ Grows(attempts, attempts')
      /\ dropped' \in [Cpus -> Nat]
  <2>1. CASE Fire(c) \/ Submit(c) \/ SecondReserve(c)
    <3>1. HookType' /\ HookInv' /\ BoundInv' /\ Counted' = Counted /\ Grows(attempts, attempts')
      <4>1. CASE Fire(c)
        <5>1. PICK k \in 1 .. 2 : Reserve(c, k)
          BY <4>1 DEF Fire
        <5>2. hook[c] = Idle /\ Len(attempts) < MaxEvents
          BY <4>1 DEF Fire
        <5> QED BY <1>1, <5>1, <5>2, ReserveKeeps, ReserveFacts
      <4>2. CASE Submit(c)
        BY <1>1, <4>2, SubmitKeeps
      <4>3. CASE SecondReserve(c)
        <5>1. hook[c].step = "second" /\ hook[c].owed = 1 /\ Reserve(c, hook[c].owed)
          BY <1>1, <4>3 DEF SecondReserve, HookInv, Idle
        <5>2. hook[c].owed \in 1 .. 2
          BY <5>1
        <5> QED BY <1>1, <5>1, <5>2, ReserveKeeps, ReserveFacts
      <4> QED BY <2>1, <4>1, <4>2, <4>3
    <3>2. dropped' = dropped
      BY <2>1 DEF Fire, Submit, SecondReserve
    <3>3. Drops' = Drops
      BY <3>2 DEF Drops
    <3> QED BY <1>1, <3>1, <3>2, <3>3 DEF Inv, DropInv, CountTracksLoss, Counted, read_dropped_events
  <2>2. CASE CountDrop(c)
    <3>1. HookType' /\ HookInv' /\ BoundInv' /\ DropInv'
      BY <1>1, <2>2, CountKeeps DEF Inv
    <3>2. attempts' = attempts /\ dropped' \in [Cpus -> Nat]
      BY <1>1, <2>2 DEF CountDrop
    <3>3. Len(attempts) \in Nat
      BY <1>1, LenProperties
    <3> QED BY <1>1, <3>1, <3>2, <3>3 DEF Grows
  <2> QED BY <2>1, <2>2 DEF Start, Finish
<1>4. Len(attempts') <= MaxRecords
  <2>1. Len(attempts') \in Nat
    BY <1>3, LenProperties DEF Grows
  <2>2. Cardinality(Owing') \in Nat
    BY EventsAssumption, FS_Subset, FS_CardinalityType DEF Owing
  <2> QED BY <1>3, <2>1, <2>2, RecordsAreNats DEF BoundInv
<1>5. TypeOK' /\ FileInv(File', attempts') /\ LoaderInv' /\ ConsumedInv' /\ TrailerInv'
  BY <1>2, <1>3, <1>4, LoaderUnmoved
<1> QED BY <1>3, <1>5 DEF Inv

-------------------------------------------------------------------------------
(* The writer within.                                                      *)

LEMMA WriterAssumptions == WP!DataAssumption /\ WP!SizeAssumption /\ WP!BoundAssumption
<1>1. \A f \in Fragment : <<f>> \in Seq(Fragment) /\ <<f>> # <<>>
  OBVIOUS
<1>2. WP!DataAssumption
  BY <1>1 DEF WP!DataAssumption
<1>3. WP!SizeAssumption /\ WP!BoundAssumption
  BY CapacityAssumption, EventsAssumption, RecordsAreNats DEF WP!SizeAssumption, WP!BoundAssumption
<1> QED BY <1>2, <1>3

(* The record the consumer is at.                                          *)
LEMMA NextFacts ==
  ASSUME TypeOK, RecordReady
  PROVE  /\ NextRecord \in consumed + 1 .. Len(attempts) /\ NextRecord \in 1 .. MaxRecords
         /\ attempts[NextRecord] = "ready"
         /\ \A k \in consumed + 1 .. NextRecord - 1 : attempts[k] = "lost"
<1>1. attempts \in Seq(Fate) /\ Len(attempts) \in Nat /\ Len(attempts) <= MaxRecords /\ consumed \in Nat
  BY LenProperties DEF TypeOK, Fate
<1>2. InRing # {} /\ attempts[NextRecord] = "ready"
  BY DEF RecordReady
<1>3. /\ NextRecord \in consumed + 1 .. Len(attempts)
      /\ \A k \in consumed + 1 .. NextRecord - 1 : attempts[k] = "lost"
  BY <1>1, <1>2, FirstRecord DEF InRing, NextRecord
<1> QED BY <1>1, <1>2, <1>3, RecordsAreNats

LEMMA SameFlush == JW!FlushOutcomes = WP!FlushOutcomes
<1> DEFINE D == {p \in JW!Partly(disk, 0, buffer) : faults < MaxFaults}
           E == {p \in WP!Partly(disk, 0, buffer) : faults < MaxFaults}
           After(S) == {[buffer |-> b, disk |-> d, held |-> 0, faults |-> faults + 1] :
                          b \in {buffer, <<>>}, d \in S}
<1>1. JW!Unflushed = WP!Unflushed /\ JW!Flushed = WP!Flushed
  BY DEF JW!Unflushed, WP!Unflushed, JW!Flushed, WP!Flushed
<1>2. JW!Partly(disk, 0, buffer) = WP!Partly(disk, 0, buffer)
  BY DEF JW!Partly, WP!Partly
<1>3. After(D) = After(E)
  <2>1. D = E
    BY <1>2
  <2> HIDE DEF D, E, After
  <2> QED BY <2>1
<1>4. JW!FlushOutcomes = IF buffer = <<>> THEN {JW!Unflushed} ELSE {JW!Flushed} \cup After(D)
  BY DEF JW!FlushOutcomes
<1>5. WP!FlushOutcomes = IF buffer = <<>> THEN {WP!Unflushed} ELSE {WP!Flushed} \cup After(E)
  BY DEF WP!FlushOutcomes
<1> HIDE DEF After, D, E
<1> QED BY <1>1, <1>3, <1>4, <1>5

LEMMA SameRoom == \A f : JW!RoomOutcomes(<<f>>) = WP!RoomOutcomes(<<f>>)
  BY SameFlush, Zenon DEF JW!RoomOutcomes, JW!Unflushed, WP!RoomOutcomes, WP!Unflushed

(* An action of the loader writes one fragment, closes the writer, or      *)
(* leaves it alone.                                                        *)
LEMMA StepIsWriters == Inv /\ [Next]_vars => [WP!Next]_WP!vars
<1> SUFFICES ASSUME Inv, [Next]_vars PROVE [WP!Next]_WP!vars
  OBVIOUS
<1>1. ASSUME NEW f \in Fragment, Write(f) PROVE WP!Next
  <2>1. WP!JwWrite(<<f>>)
    BY <1>1, SameRoom, Zenon DEF Write, JW!JwWrite, JW!WriteAfter, JW!Copy, JW!Direct, JW!Partly,
                       WP!JwWrite, WP!WriteAfter, WP!Copy, WP!Direct, WP!Partly
  <2> QED BY <1>1, <2>1 DEF WP!Next
<1>2. ASSUME UNCHANGED writerVars PROVE UNCHANGED WP!vars
  BY <1>2 DEF writerVars, WP!vars
<1>3. CASE (\E c \in Cpus : Start(c) \/ Finish(c)) \/ Signal \/ Elapse \/ UNCHANGED vars
  BY <1>2, <1>3 DEF Start, Finish, Signal, Elapse, vars
<1>4. CASE Killed
  BY <1>4 DEF Killed, JW!Kill, WP!Kill, WP!Next
<1>5. CASE Loader
  <2>1. CASE HandleEventOpen \/ HandleEventClose
    <3>1. RecordReady
      BY <2>1 DEF HandleEventOpen, HandleEventClose, Goto, Inv, LoaderInv
    <3>2. NextRecord \in 0 .. MaxRecords
      BY <3>1, NextFacts DEF Inv, TypeOK
    <3>3. /\ [line |-> NextRecord, part |-> "open"] \in Fragment
          /\ [line |-> NextRecord, part |-> "close"] \in Fragment
      BY <3>2 DEF Fragment
    <3> QED BY <1>1, <2>1, <3>3 DEF HandleEventOpen, HandleEventClose
  <2>2. CASE WriteSummaryOpen \/ WriteSummaryClose
    <3>1. /\ [line |-> SummaryLine, part |-> "open"] \in Fragment
          /\ [line |-> SummaryLine, part |-> "close"] \in Fragment
      BY RecordsAreNats DEF Fragment, SummaryLine
    <3> QED BY <1>1, <2>2, <3>1 DEF WriteSummaryOpen, WriteSummaryClose
  <2>3. CASE FlushWriter
    BY <2>3, SameFlush, Zenon DEF FlushWriter, JW!Flush, JW!FlushTo, WP!Flush, WP!FlushTo, WP!Next
  <2>5. CASE CloseWriter
    BY <2>5, SameFlush, Zenon DEF CloseWriter, JW!Destroy, JW!Partly, WP!Destroy, WP!Partly, WP!Next
  <2>4. CASE CreateWriter \/ LoadPrograms \/ AttachPrograms \/ OpenRing \/ TestExiting
             \/ Poll \/ DrainDone \/ CheckStop \/ Detach
    BY <1>2, <2>4 DEF CreateWriter, LoadPrograms, AttachPrograms, OpenRing, TestExiting,
         Poll, DrainDone, CheckStop, Detach
  <2> QED BY <1>5, <2>1, <2>2, <2>3, <2>4, <2>5 DEF Loader
<1> QED BY <1>3, <1>4, <1>5 DEF Next

(* What JsonWriterProofs shows of the writer holds within the tracer.      *)
LEMMA WriterInit == Init => WriterInv
<1> SUFFICES ASSUME Init PROVE WriterInv
  OBVIOUS
<1>1. WP!Init
  BY DEF Init, WP!Init
<1>2. WP!HoldsWritten
  BY <1>1, WriterAssumptions, WP!HoldsInit
<1>3. WP!TypeOK
  BY <1>1, WriterAssumptions, WP!TypeInit
<1> QED BY <1>2, <1>3 DEF WriterInv

LEMMA WriterStep == Inv /\ [Next]_vars => WriterInv'
<1> SUFFICES ASSUME Inv, [Next]_vars PROVE WriterInv'
  OBVIOUS
<1>1. WP!TypeOK /\ WP!HoldsWritten /\ [WP!Next]_WP!vars
  BY StepIsWriters DEF Inv, WriterInv
<1>2. WP!TypeOK'
  BY <1>1, WriterAssumptions, WP!TypeStep
<1>3. WP!HoldsWritten'
  BY <1>1, WriterAssumptions, WP!HoldsStep
<1> QED BY <1>2, <1>3 DEF WriterInv

-------------------------------------------------------------------------------
(* The loader.                                                             *)

(* While no program runs, what they know and the counters stay.            *)
LEMMA ProgramsUnmoved ==
  ASSUME HookInv, BoundInv, DropInv, UNCHANGED hookVars
  PROVE  HookInv' /\ BoundInv' /\ DropInv'
<1>1. UNCHANGED <<attempts, hook, dropped>>
  BY DEF hookVars
<1>2. \A c : Claim(c)' = Claim(c)
  BY <1>1 DEF Claim
<1>3. Owing' = Owing /\ Drops' = Drops /\ Uncounted' = Uncounted
  BY <1>1 DEF Owing, Drops, Uncounted
<1>4. HookInv'
  BY <1>1, <1>2 DEF HookInv
<1>5. BoundInv' /\ DropInv'
  BY <1>1, <1>3 DEF BoundInv, DropInv, CountTracksLoss, read_dropped_events
<1> QED BY <1>4, <1>5

(* A fragment written is the last of those the writer was given.           *)
LEMMA WriteEffect ==
  ASSUME TypeOK, WriterInv', NEW f \in Fragment, Write(f)
  PROVE  /\ writer = "open" /\ writer' \in {"open", "overrun"} /\ faults' \in 0 .. MaxFaults
         /\ buffer' \in Seq(Fragment) /\ disk' \in Seq(Fragment) /\ written' \in Seq(Fragment)
         /\ File' = Append(File, f)
<1>1. PICK r \in JW!RoomOutcomes(<<f>>) : JW!WriteAfter(<<f>>, r)
  BY DEF Write, JW!JwWrite
<1>2. writer = "open" /\ written' = written \o <<f>>
  BY <1>1 DEF JW!WriteAfter
<1>3. writer' \in {"open", "overrun"}
  BY <1>1, <1>2 DEF JW!WriteAfter, JW!Copy, JW!Direct
<1>4. written \o <<f>> = Append(written, f)
  BY AppendIsConcat DEF TypeOK
<1> QED BY <1>2, <1>3, <1>4 DEF WriterInv, WP!TypeOK, File

(* Steps that neither write nor consume: only where main is, or what is    *)
(* asked of it, changes.                                                   *)
LEMMA QuietKeeps ==
  ASSUME Inv, WriterInv', TypeOK', UNCHANGED <<hookVars, writerVars, consumed, summary>>,
         history'.uncounted = history.uncounted, history'.blind = history.blind,
         \/ pc' = pc
         \/ /\ {pc, pc'} \cap {"close", "sumclose", "killed"} = {}
            /\ pc \in {"detach", "exited"} <=> pc' \in {"detach", "exited"}
            /\ pc' \in BeforeSummary => pc \in BeforeSummary
  PROVE  Inv'
<1>1. UNCHANGED <<attempts, hook, dropped, buffer, disk, writer, faults, written, consumed, summary>>
  BY DEF hookVars, writerVars
<1>2. HookInv' /\ BoundInv' /\ DropInv'
  BY ProgramsUnmoved DEF Inv
<1>3. File' = File /\ RecordReady' = RecordReady /\ NextRecord' = NextRecord
  BY <1>1 DEF File, RecordReady, NextRecord, InRing
<1>4. FileInv(File', attempts')
  BY <1>1, <1>3 DEF Inv
<1>5. LoaderInv'
  BY <1>1, <1>3 DEF Inv, LoaderInv
<1>6. ConsumedInv' /\ TrailerInv'
  BY <1>1, <1>3 DEF Inv, ConsumedInv, TrailerInv
<1> QED BY <1>2, <1>4, <1>5, <1>6 DEF Inv

(* The steps of main of this kind, and what happens to it.                 *)
LEMMA QuietSteps ==
  ASSUME Inv, WriterInv',
         \/ /\ \/ CreateWriter \/ LoadPrograms \/ AttachPrograms \/ OpenRing
               \/ TestExiting \/ Poll \/ DrainDone \/ CheckStop \/ Detach
            /\ UNCHANGED <<hookVars, signalVars>>
         \/ Signal \/ Elapse \/ UNCHANGED vars
  PROVE  Inv'
<1>1. TypeOK
  BY DEF Inv
<1>2. UNCHANGED <<hookVars, writerVars, consumed, summary>>
  BY DEF CreateWriter, LoadPrograms, AttachPrograms, OpenRing, TestExiting, Poll,
         DrainDone, CheckStop, Detach, Signal, Elapse, vars, loaderVars
<1>3. UNCHANGED <<attempts, hook, dropped, buffer, disk, writer, faults, written, consumed, summary>>
  BY <1>2 DEF hookVars, writerVars
<1>4. /\ pc' \in {"create", "load", "attach", "ring", "loop", "poll", "drain", "close",
                  "check", "summary", "sumclose", "cleanup", "destroy", "detach",
                  "nofile", "exited", "killed"}
      /\ \/ pc' = pc
         \/ /\ {pc, pc'} \cap {"close", "sumclose", "killed"} = {}
            /\ pc \in {"detach", "exited"} <=> pc' \in {"detach", "exited"}
            /\ pc' \in BeforeSummary => pc \in BeforeSummary
  <2>1. CASE TestExiting \/ CheckStop
    <3>1. pc \in {"loop", "check"} /\ pc' \in {"summary", "poll", "loop"}
      BY <2>1 DEF TestExiting, CheckStop, LeaveOr
    <3> QED BY <3>1 DEF BeforeSummary
  <2>2. CASE UNCHANGED pc
    BY <1>1, <2>2 DEF TypeOK
  <2>3. CASE \/ CreateWriter \/ LoadPrograms \/ AttachPrograms \/ OpenRing
             \/ Poll \/ DrainDone \/ Detach
    BY <2>3 DEF CreateWriter, LoadPrograms, AttachPrograms, OpenRing, Poll, DrainDone,
                Detach, Goto, BeforeSummary
  <2>4. CASE Signal
    <3>1. UNCHANGED pc \/ (pc = "poll" /\ pc' = "check")
      BY <2>4 DEF Signal
    <3> QED BY <2>2, <3>1 DEF BeforeSummary
  <2> QED BY <2>1, <2>2, <2>3, <2>4 DEF Elapse, vars, loaderVars
<1>5. err' \in {0, 1, -1, -EINTR}
  <2>1. CASE CheckStop
    BY <1>1, <2>1 DEF CheckStop, TypeOK
  <2>2. CASE LoadPrograms \/ AttachPrograms \/ OpenRing \/ Poll
    BY <1>1, <2>2 DEF LoadPrograms, AttachPrograms, OpenRing, Poll, TypeOK
  <2>3. CASE Signal
    BY <1>1, <2>3 DEF Signal, TypeOK
  <2>4. CASE UNCHANGED err
    BY <1>1, <2>4 DEF TypeOK
  <2> QED BY <2>1, <2>2, <2>3, <2>4
          DEF CreateWriter, TestExiting, DrainDone, Detach, Elapse, vars, loaderVars
<1>6. attached' \in BOOLEAN /\ exiting' \in BOOLEAN /\ elapsed' \in BOOLEAN
  <2>1. attached' \in BOOLEAN
    BY <1>1 DEF CreateWriter, LoadPrograms, AttachPrograms, OpenRing, TestExiting, Poll,
         DrainDone, CheckStop, Detach, Signal, Elapse, vars, TypeOK
  <2>2. exiting' \in BOOLEAN /\ elapsed' \in BOOLEAN
    BY <1>1 DEF Signal, Elapse, vars, signalVars, TypeOK
  <2> QED BY <2>1, <2>2
<1>7. \/ history' = history
      \/ history' = [history EXCEPT !.submitted = {i \in 1 .. Len(attempts) : attempts[i] = "ready"}]
      \/ CanMisread /\ history' = [history EXCEPT !.misreads = @ + 1]
  BY DEF CreateWriter, LoadPrograms, AttachPrograms, OpenRing, TestExiting, Poll,
         DrainDone, CheckStop, Detach, Signal, Elapse, vars, loaderVars, LeaveOr
<1>8. /\ history' \in [submitted : SUBSET (1 .. MaxRecords), uncounted : SUBSET (1 .. MaxRecords),
                       misreads : 0 .. MaxMisreads, blind : BOOLEAN]
      /\ history'.uncounted = history.uncounted /\ history'.blind = history.blind
  <2>1. {i \in 1 .. Len(attempts) : attempts[i] = "ready"} \in SUBSET (1 .. MaxRecords)
    BY <1>1, LenProperties, RecordsAreNats DEF TypeOK
  <2>2. CASE history' = history
    BY <1>1, <2>2 DEF TypeOK
  <2>3. CASE history' = [history EXCEPT !.submitted = {i \in 1 .. Len(attempts) : attempts[i] = "ready"}]
    BY <1>1, <2>1, <2>3 DEF TypeOK
  <2>4. CASE CanMisread /\ history' = [history EXCEPT !.misreads = @ + 1]
    <3>1. history.misreads + 1 \in 0 .. MaxMisreads
      BY <1>1, <2>4, EventsAssumption DEF TypeOK, CanMisread
    <3> QED BY <1>1, <2>4, <3>1 DEF TypeOK
  <2> QED BY <1>7, <2>2, <2>3, <2>4
<1>9. TypeOK'
  BY <1>1, <1>3, <1>4, <1>5, <1>6, <1>8 DEF TypeOK
<1> QED BY <1>2, <1>4, <1>8, <1>9, QuietKeeps
(* What one fragment more does to the lines of a file.                     *)
LEMMA OpenFacts ==
  ASSUME NEW f \in Seq(Fragment), NEW line \in 0 .. MaxRecords
  PROVE  LET g == Append(f, Open(line))
         IN  /\ Len(f) \in Nat /\ Len(g) = Len(f) + 1 /\ g # <<>>
             /\ g[Len(g)] = Open(line) /\ Open(line).line = line
             /\ \A i \in 1 .. Len(f) : g[i] = f[i]
             /\ Closes(g) = Closes(f) /\ Closes(f) \subseteq 1 .. Len(f)
<1>1. Open(line) \in Fragment /\ Open(line).part = "open" /\ Open(line).line = line
  BY FragmentFacts DEF Open
<1>2. Closes(Append(f, Open(line))) = Closes(f) \cup {}
  BY <1>1, AppendFacts
<1>3. Closes(f) \cup {} = Closes(f) /\ Closes(f) \subseteq 1 .. Len(f)
  BY DEF Closes
<1> QED BY <1>1, <1>2, <1>3, AppendFacts

LEMMA CloseFacts ==
  ASSUME NEW f \in Seq(Fragment), NEW line \in 0 .. MaxRecords
  PROVE  LET g == Append(f, Close(line))
         IN  /\ Len(f) \in Nat /\ Len(g) = Len(f) + 1 /\ g # <<>>
             /\ g[Len(g)] = Close(line) /\ g[Len(g)].part = "close" /\ g[Len(g)].line = line
             /\ \A i \in 1 .. Len(f) : g[i] = f[i]
             /\ Closes(g) = Closes(f) \cup {Len(g)} /\ Closes(f) \subseteq 1 .. Len(f)
             /\ Cardinality(Closes(f)) \in Nat
             /\ Cardinality(Closes(g)) = Cardinality(Closes(f)) + 1
<1>1. Close(line) \in Fragment /\ Close(line).part = "close" /\ Close(line).line = line
  BY FragmentFacts DEF Close
<1>2. Closes(Append(f, Close(line))) = Closes(f) \cup {Len(f) + 1}
  BY <1>1, AppendFacts
<1>3. Closes(f) \subseteq 1 .. Len(f) /\ Len(f) \in Nat /\ IsFiniteSet(1 .. Len(f))
  BY LenProperties, FS_Interval DEF Closes
<1>4. IsFiniteSet(Closes(f)) /\ Len(f) + 1 \notin Closes(f)
  BY <1>3, FS_Subset
<1>5. /\ Cardinality(Closes(f)) \in Nat
      /\ Cardinality(Closes(f) \cup {Len(f) + 1}) = Cardinality(Closes(f)) + 1
  BY <1>4, FS_AddElement, FS_CardinalityType
<1> QED BY <1>1, <1>2, <1>3, <1>5, AppendFacts

LEMMA HandleEventOpenStep ==
  ASSUME Inv, WriterInv', HandleEventOpen, UNCHANGED <<hookVars, signalVars>>
  PROVE  Inv'
<1> DEFINE r == NextRecord
<1>1. /\ pc = "drain" /\ pc' = "close" /\ RecordReady /\ Write(Open(r))
      /\ UNCHANGED <<attempts, hook, dropped, exiting, elapsed, consumed, err, summary, history, attached>>
  BY DEF HandleEventOpen, Goto, Open, hookVars, signalVars
<1>2. TypeOK /\ LoaderInv /\ FileInv(File, attempts) /\ ConsumedInv /\ TrailerInv
  BY DEF Inv
<1>3. /\ r \in consumed + 1 .. Len(attempts) /\ r \in 1 .. MaxRecords
      /\ attempts[r] = "ready"
      /\ \A k \in consumed + 1 .. r - 1 : attempts[k] = "lost"
  BY <1>1, <1>2, NextFacts
<1>4. RecordReady' /\ NextRecord' = r
  BY <1>1 DEF RecordReady, NextRecord, InRing
<1> HIDE DEF r
<1>5. r \in 0 .. MaxRecords /\ r # SummaryLine /\ Open(r) \in Fragment
  BY <1>3, RecordsAreNats, FragmentFacts DEF SummaryLine
<1>6. /\ writer = "open" /\ writer' \in {"open", "overrun"} /\ faults' \in 0 .. MaxFaults
      /\ buffer' \in Seq(Fragment) /\ disk' \in Seq(Fragment) /\ written' \in Seq(Fragment)
      /\ File' = Append(File, Open(r))
  BY <1>1, <1>2, <1>5, WriteEffect
<1>7. File \in Seq(Fragment)
  BY <1>2 DEF TypeOK, File
<1>8. /\ Len(File) \in Nat /\ Len(File') = Len(File) + 1 /\ File' # <<>>
      /\ File'[Len(File')] = Open(r) /\ Open(r).line = r
      /\ \A i \in 1 .. Len(File) : File'[i] = File[i]
      /\ Closes(File') = Closes(File) /\ Closes(File) \subseteq 1 .. Len(File)
  BY <1>5, <1>6, <1>7, OpenFacts
<1>9. TypeOK'
  BY <1>1, <1>2, <1>6 DEF TypeOK
<1>10. FileInv(File', attempts')
  BY <1>1, <1>2, <1>5, <1>6, <1>7, FileOpen DEF LoaderInv
<1>11. LoaderInv'
  <2>1. summary = -1 /\ \A i \in 1 .. Len(File) : File[i].line # SummaryLine
    BY <1>1, <1>2 DEF LoaderInv, BeforeSummary
  <2>2. \A i \in 1 .. Len(File') : File'[i].line # SummaryLine
    BY <1>5, <1>8, <2>1
  <2>3. Len(File') = 2 * Cardinality(Closes(File')) + 1
    <3>1. Len(File) = 2 * Cardinality(Closes(File)) + 0
      BY <1>1, <1>2 DEF LoaderInv
    <3>2. Cardinality(Closes(File)) \in Nat
      BY <1>5, <1>7, CloseFacts
    <3> QED BY <1>8, <3>1, <3>2
  <2>4. pc' = "close" /\ summary' = -1 /\ writer' \in {"open", "overrun"} /\ RecordReady'
    BY <1>1, <1>4, <1>6, <2>1
  <2>5. File' # <<>> /\ File'[Len(File')] = Open(NextRecord')
    BY <1>4, <1>8
  <2> QED BY <1>6, <2>2, <2>3, <2>4, <2>5 DEF LoaderInv
<1>12. ConsumedInv'
  BY <1>1, <1>2, <1>8 DEF ConsumedInv
<1>13. TrailerInv'
  BY <1>1, <1>2 DEF TrailerInv
<1>14. HookInv' /\ BoundInv' /\ DropInv'
  BY ProgramsUnmoved DEF Inv
<1> QED BY <1>9, <1>10, <1>11, <1>12, <1>13, <1>14 DEF Inv

LEMMA HandleEventCloseStep ==
  ASSUME Inv, WriterInv', HandleEventClose, UNCHANGED <<hookVars, signalVars>>
  PROVE  Inv'
<1> DEFINE r == NextRecord
<1>1. /\ pc = "close" /\ pc' = "drain" /\ Write(Close(r)) /\ consumed' = r
      /\ UNCHANGED <<attempts, hook, dropped, exiting, elapsed, err, summary, history, attached>>
  BY DEF HandleEventClose, Goto, Close, hookVars, signalVars
<1>2. TypeOK /\ LoaderInv /\ FileInv(File, attempts) /\ ConsumedInv /\ TrailerInv
  BY DEF Inv
<1>3. RecordReady /\ File # <<>> /\ File[Len(File)] = Open(r)
  BY <1>1, <1>2 DEF LoaderInv
<1>4. /\ r \in consumed + 1 .. Len(attempts) /\ r \in 1 .. MaxRecords
      /\ attempts[r] = "ready"
      /\ \A k \in consumed + 1 .. r - 1 : attempts[k] = "lost"
  BY <1>2, <1>3, NextFacts
<1> HIDE DEF r
<1>5. r \in 0 .. MaxRecords /\ r # SummaryLine /\ Close(r) \in Fragment
  BY <1>4, RecordsAreNats, FragmentFacts DEF SummaryLine
<1>6. /\ writer = "open" /\ writer' \in {"open", "overrun"} /\ faults' \in 0 .. MaxFaults
      /\ buffer' \in Seq(Fragment) /\ disk' \in Seq(Fragment) /\ written' \in Seq(Fragment)
      /\ File' = Append(File, Close(r))
  BY <1>1, <1>2, <1>5, WriteEffect
<1>7. File \in Seq(Fragment) /\ consumed \in Nat /\ Len(attempts) \in Nat
  BY <1>2, LenProperties DEF TypeOK, File
<1>8. /\ Len(File) \in Nat /\ Len(File') = Len(File) + 1 /\ File' # <<>>
      /\ File'[Len(File')].part = "close" /\ File'[Len(File')].line = r
      /\ \A i \in 1 .. Len(File) : File'[i] = File[i]
      /\ Closes(File') = Closes(File) \cup {Len(File')} /\ Closes(File) \subseteq 1 .. Len(File)
      /\ Cardinality(Closes(File)) \in Nat
      /\ Cardinality(Closes(File')) = Cardinality(Closes(File)) + 1
  BY <1>5, <1>6, <1>7, CloseFacts
<1>9. TypeOK'
  BY <1>1, <1>2, <1>4, <1>6, <1>7 DEF TypeOK
<1>10. summary = -1 /\ \A i \in 1 .. Len(File) : File[i].line # SummaryLine
  BY <1>1, <1>2 DEF LoaderInv, BeforeSummary
<1>11. FileInv(File', attempts')
  <2>1. \A i \in Closes(File) : File[i].line # SummaryLine /\ File[i].line < r
    <3>1. ASSUME NEW i \in Closes(File) PROVE File[i].line # SummaryLine /\ File[i].line < r
      <4>1. File[i].line <= consumed /\ File[i] \in Fragment
        BY <1>2, <1>7, <1>8, ElementOfSeq DEF ConsumedInv
      <4>2. File[i].line \in Nat
        BY <4>1, RecordsAreNats DEF Fragment
      <4> QED BY <1>4, <1>7, <1>8, <1>10, <4>1, <4>2
    <3> QED BY <3>1
  <2>2. \A k \in 1 .. r - 1 : attempts[k] = "lost" \/ \E i \in Closes(File) : File[i].line = k
    <3>1. \A k \in 1 .. consumed : attempts[k] = "lost" \/ \E i \in Closes(File) : File[i].line = k
      BY <1>1, <1>2 DEF ConsumedInv
    <3>2. \A k \in 1 .. r - 1 : k \in 1 .. consumed \/ k \in consumed + 1 .. r - 1
      BY <1>4, <1>7
    <3> QED BY <1>4, <3>1, <3>2
  <2>3. r \in 1 .. Len(attempts)
    BY <1>4, <1>7
  <2> QED BY <1>1, <1>2, <1>3, <1>4, <1>5, <1>6, <1>7, <2>1, <2>2, <2>3, FileClose
<1>12. LoaderInv'
  <2>1. \A i \in 1 .. Len(File') : File'[i].line # SummaryLine
    BY <1>5, <1>8, <1>10
  <2>2. Len(File') = 2 * Cardinality(Closes(File'))
    BY <1>1, <1>2, <1>8 DEF LoaderInv
  <2> QED BY <1>1, <1>6, <1>8, <1>10, <2>1, <2>2 DEF LoaderInv
<1>13. ConsumedInv'
  <2>1. \A i \in Closes(File') : File'[i].line <= consumed'
    <3>1. ASSUME NEW i \in Closes(File) PROVE File'[i].line <= r
      <4>1. File'[i].line <= consumed /\ File[i] \in Fragment /\ File'[i] = File[i]
        BY <1>2, <1>7, <1>8, ElementOfSeq DEF ConsumedInv
      <4>2. File'[i].line \in Nat
        BY <4>1, RecordsAreNats DEF Fragment
      <4> QED BY <1>4, <1>7, <4>1, <4>2
    <3> QED BY <1>1, <1>4, <1>8, <3>1
  <2>2. ASSUME NEW k \in 1 .. r
        PROVE  attempts[k] = "lost" \/ (attempts[k] = "ready" /\ \E i \in Closes(File') : File'[i].line = k)
    <3>1. CASE k = r
      BY <1>4, <1>8, <3>1
    <3>2. CASE k \in consumed + 1 .. r - 1
      BY <1>4, <3>2
    <3>3. CASE k \in 1 .. consumed
      BY <1>1, <1>2, <1>8, <3>3 DEF ConsumedInv
    <3> QED BY <1>4, <1>7, <3>1, <3>2, <3>3
  <2> QED BY <1>1, <2>1, <2>2 DEF ConsumedInv
<1>14. TrailerInv'
  BY <1>1, <1>10 DEF TrailerInv
<1>15. HookInv' /\ BoundInv' /\ DropInv'
  BY ProgramsUnmoved DEF Inv
<1> QED BY <1>9, <1>11, <1>12, <1>13, <1>14, <1>15 DEF Inv

(* A trailer whose reading did not fail and which counts no drop: the      *)
(* records lost so far are those of programs that have yet to count.       *)
LEMMA NothingCounted ==
  ASSUME TypeOK, DropInv, read_dropped_events = 0
  PROVE  \A k \in 1 .. Len(attempts) : attempts[k] = "lost" => k \in Uncounted
<1>1. Counted \subseteq 1 .. Len(attempts) /\ IsFiniteSet(1 .. Len(attempts))
  <2>1. Len(attempts) \in Nat
    BY LenProperties DEF TypeOK
  <2> QED BY <2>1, FS_Interval DEF Counted
<1>2. IsFiniteSet(Counted)
  BY <1>1, FS_Subset
<1>3. Cardinality(Counted) <= 0 /\ Cardinality(Counted) \in Nat
  BY <1>2, FS_CardinalityType DEF DropInv, CountTracksLoss, Counted
<1>4. Counted = {}
  BY <1>2, <1>3, FS_EmptySet
<1> QED BY <1>4 DEF Counted

LEMMA UncountedType ==
  ASSUME TypeOK, HookInv
  PROVE  Uncounted \in SUBSET (1 .. MaxRecords)
<1>1. \A i : i \in Uncounted <=> \E d \in Cpus : hook[d].step = "failed" /\ i \in Claim(d)
  BY DEF Uncounted, Claim
<1>2. ASSUME NEW d \in Cpus, hook[d].step = "failed", NEW i \in Claim(d)
      PROVE  i \in 1 .. MaxRecords
  <2>1. hook[d].owed \in 1 .. 2 /\ hook[d].at \in 1 .. Len(attempts) /\ i <= Len(attempts)
    BY <1>2 DEF HookInv, Idle
  <2>2. Len(attempts) \in Nat /\ Len(attempts) <= MaxRecords
    BY LenProperties DEF TypeOK
  <2> QED BY <2>1, <2>2, RecordsAreNats DEF Claim
<1> QED BY <1>1, <1>2

LEMMA WriteSummaryOpenStep ==
  ASSUME Inv, WriterInv', WriteSummaryOpen, UNCHANGED <<hookVars, signalVars>>
  PROVE  Inv'
<1>1. PICK failed \in BOOLEAN :
        /\ summary' = IF failed THEN 0 ELSE read_dropped_events
        /\ history' = [history EXCEPT !.uncounted = Uncounted, !.blind = failed]
  BY DEF WriteSummaryOpen
<1>2. /\ pc = "summary" /\ pc' = "sumclose" /\ Write(Open(SummaryLine))
      /\ UNCHANGED <<attempts, hook, dropped, exiting, elapsed, consumed, err, attached>>
  BY DEF WriteSummaryOpen, Goto, Open, hookVars, signalVars
<1>3. TypeOK /\ LoaderInv /\ FileInv(File, attempts) /\ ConsumedInv /\ HookInv /\ DropInv
  BY DEF Inv
<1>4. SummaryLine \in 0 .. MaxRecords /\ Open(SummaryLine) \in Fragment
  BY RecordsAreNats, FragmentFacts DEF SummaryLine
<1>5. /\ writer = "open" /\ writer' \in {"open", "overrun"} /\ faults' \in 0 .. MaxFaults
      /\ buffer' \in Seq(Fragment) /\ disk' \in Seq(Fragment) /\ written' \in Seq(Fragment)
      /\ File' = Append(File, Open(SummaryLine))
  BY <1>2, <1>3, <1>4, WriteEffect
<1>6. File \in Seq(Fragment)
  BY <1>3 DEF TypeOK, File
<1>7. /\ Len(File) \in Nat /\ Len(File') = Len(File) + 1 /\ File' # <<>>
      /\ File'[Len(File')] = Open(SummaryLine) /\ Open(SummaryLine).line = SummaryLine
      /\ \A i \in 1 .. Len(File) : File'[i] = File[i]
      /\ Closes(File') = Closes(File) /\ Closes(File) \subseteq 1 .. Len(File)
  BY <1>4, <1>5, <1>6, OpenFacts
<1>8. read_dropped_events \in Nat
  BY <1>3, FS_CardinalityType DEF DropInv, read_dropped_events
<1>9. summary' \in Nat
  BY <1>1, <1>8
<1>10. history' \in [submitted : SUBSET (1 .. MaxRecords), uncounted : SUBSET (1 .. MaxRecords),
                     misreads : 0 .. MaxMisreads, blind : BOOLEAN]
  BY <1>1, <1>3, UncountedType DEF TypeOK
<1>11. TypeOK'
  BY <1>2, <1>3, <1>5, <1>9, <1>10 DEF TypeOK
<1>12. FileInv(File', attempts')
  BY <1>2, <1>3, <1>4, <1>5, <1>6, FileOpen DEF LoaderInv
<1>13. LoaderInv'
  <2>1. \A i \in Closes(File') : File'[i].line # SummaryLine
    BY <1>2, <1>3, <1>7 DEF LoaderInv, BeforeSummary
  <2>2. Len(File') = 2 * Cardinality(Closes(File')) + 1
    <3>1. Len(File) = 2 * Cardinality(Closes(File)) + 0
      BY <1>2, <1>3 DEF LoaderInv
    <3>2. Cardinality(Closes(File)) \in Nat
      BY <1>4, <1>6, CloseFacts
    <3> QED BY <1>7, <3>1, <3>2
  <2>3. Len(File') \in 1 .. Len(File') /\ File'[Len(File')].line = SummaryLine
    BY <1>7
  <2>4. pc' = "sumclose" /\ pc' \notin BeforeSummary /\ summary' # -1
    BY <1>2, <1>9 DEF BeforeSummary
  <2> QED BY <1>5, <1>7, <2>1, <2>2, <2>3, <2>4 DEF LoaderInv
<1>14. ConsumedInv'
  BY <1>2, <1>3, <1>7 DEF ConsumedInv
<1>15. TrailerInv'
  <2>1. history'.uncounted = Uncounted /\ history'.blind = failed
    BY <1>1, <1>3 DEF TypeOK
  <2>2. SUFFICES ASSUME summary' = 0, ~failed
                 PROVE  \A k \in 1 .. consumed : attempts[k] = "lost" => k \in Uncounted
    BY <1>2, <2>1 DEF TrailerInv
  <2>3. read_dropped_events = 0
    BY <1>1, <2>2
  <2>4. \A k \in 1 .. consumed : k \in 1 .. Len(attempts)
    BY <1>3, LenProperties DEF TypeOK
  <2> QED BY <1>3, <2>3, <2>4, NothingCounted
<1>16. HookInv' /\ BoundInv' /\ DropInv'
  BY ProgramsUnmoved DEF Inv
<1> QED BY <1>11, <1>12, <1>13, <1>14, <1>15, <1>16 DEF Inv

LEMMA WriteSummaryCloseStep ==
  ASSUME Inv, WriterInv', WriteSummaryClose, UNCHANGED <<hookVars, signalVars>>
  PROVE  Inv'
<1>1. /\ pc = "sumclose" /\ pc' = "cleanup" /\ Write(Close(SummaryLine))
      /\ UNCHANGED <<attempts, hook, dropped, exiting, elapsed, consumed, err, summary, history, attached>>
  BY DEF WriteSummaryClose, Goto, Close, hookVars, signalVars
<1>2. TypeOK /\ LoaderInv /\ FileInv(File, attempts) /\ ConsumedInv /\ TrailerInv
  BY DEF Inv
<1>3. SummaryLine \in 0 .. MaxRecords /\ Close(SummaryLine) \in Fragment
  BY RecordsAreNats, FragmentFacts DEF SummaryLine
<1>4. /\ writer = "open" /\ writer' \in {"open", "overrun"} /\ faults' \in 0 .. MaxFaults
      /\ buffer' \in Seq(Fragment) /\ disk' \in Seq(Fragment) /\ written' \in Seq(Fragment)
      /\ File' = Append(File, Close(SummaryLine))
  BY <1>1, <1>2, <1>3, WriteEffect
<1>5. File \in Seq(Fragment) /\ consumed \in Nat
  BY <1>2, LenProperties DEF TypeOK, File
<1>6. /\ Len(File) \in Nat /\ Len(File') = Len(File) + 1 /\ File' # <<>>
      /\ File'[Len(File')].part = "close" /\ File'[Len(File')].line = SummaryLine
      /\ \A i \in 1 .. Len(File) : File'[i] = File[i]
      /\ Closes(File') = Closes(File) \cup {Len(File')} /\ Closes(File) \subseteq 1 .. Len(File)
      /\ Cardinality(Closes(File)) \in Nat
      /\ Cardinality(Closes(File')) = Cardinality(Closes(File)) + 1
  BY <1>3, <1>4, <1>5, CloseFacts
<1>7. TypeOK'
  BY <1>1, <1>2, <1>4 DEF TypeOK
<1>8. /\ File # <<>> /\ File[Len(File)] = Open(SummaryLine)
      /\ \A i \in Closes(File) : File[i].line # SummaryLine
      /\ \E i \in 1 .. Len(File) : File[i].line = SummaryLine
      /\ Len(File) = 2 * Cardinality(Closes(File)) + 1
  <2>1. File # <<>> /\ File[Len(File)] = Open(SummaryLine)
    BY <1>1, <1>2 DEF LoaderInv
  <2>2. \A i \in Closes(File) : File[i].line # SummaryLine
    BY <1>1, <1>2 DEF LoaderInv
  <2>3. Len(File) = 2 * Cardinality(Closes(File)) + 1
    BY <1>1, <1>2 DEF LoaderInv
  <2>4. Len(File) \in 1 .. Len(File) /\ File[Len(File)].line = SummaryLine
    BY <1>6, <2>1, <1>5, EmptySeq DEF Open
  <2> QED BY <2>1, <2>2, <2>3, <2>4
<1>9. FileInv(File', attempts')
  BY <1>1, <1>2, <1>3, <1>4, <1>5, <1>8, FileClose
<1>10. LoaderInv'
  <2>1. summary # -1
    BY <1>2, <1>8 DEF LoaderInv
  <2>2. \E i \in 1 .. Len(File') : File'[i].line = SummaryLine
    BY <1>6
  <2>3. Len(File') = 2 * Cardinality(Closes(File'))
    BY <1>6, <1>8
  <2>4. pc' = "cleanup" /\ pc' \notin BeforeSummary /\ summary' # -1
    BY <1>1, <2>1 DEF BeforeSummary
  <2> QED BY <1>4, <1>6, <2>2, <2>3, <2>4 DEF LoaderInv
<1>11. ConsumedInv'
  BY <1>1, <1>2, <1>5, <1>6 DEF ConsumedInv, SummaryLine
<1>12. TrailerInv'
  BY <1>1, <1>2 DEF TrailerInv
<1>13. HookInv' /\ BoundInv' /\ DropInv'
  BY ProgramsUnmoved DEF Inv
<1> QED BY <1>7, <1>9, <1>10, <1>11, <1>12, <1>13 DEF Inv

(* The two steps of the cleanup give the writer nothing.                   *)
LEMMA CleanupStep ==
  ASSUME Inv, WriterInv', FlushWriter \/ CloseWriter, UNCHANGED <<hookVars, signalVars>>
  PROVE  Inv'
<1>1. /\ \/ pc = "cleanup" /\ pc' = "destroy" /\ writer' = writer
         \/ pc = "destroy" /\ pc' = "detach" /\ writer' = "closed"
      /\ written' = written
      /\ UNCHANGED <<attempts, hook, dropped, exiting, elapsed, consumed, err, summary, history, attached>>
  <2>1. CASE FlushWriter
    BY <2>1 DEF FlushWriter, Goto, JW!Flush, JW!FlushTo, hookVars, signalVars
  <2>2. CASE CloseWriter
    BY <2>2 DEF CloseWriter, Goto, JW!Destroy, hookVars, signalVars
  <2> QED BY <2>1, <2>2
<1>2. TypeOK /\ LoaderInv /\ FileInv(File, attempts) /\ ConsumedInv /\ TrailerInv
  BY DEF Inv
<1>3. File' = File
  BY <1>1 DEF File
<1>4. TypeOK'
  BY <1>1, <1>2 DEF TypeOK, WriterInv, WP!TypeOK
<1>5. FileInv(File', attempts')
  BY <1>1, <1>2, <1>3
<1>6. LoaderInv'
  <2>1. File # <<>> => File[Len(File)].part = "close"
    BY <1>1, <1>2 DEF LoaderInv
  <2>2. Len(File) = 2 * Cardinality(Closes(File)) + 0
    BY <1>1, <1>2 DEF LoaderInv
  <2>3. /\ summary = -1 => \A i \in 1 .. Len(File) : File[i].line # SummaryLine
        /\ summary # -1 => \E i \in 1 .. Len(File) : File[i].line = SummaryLine
    BY <1>1, <1>2 DEF LoaderInv
  <2>4. /\ pc' \in {"destroy", "detach"} /\ pc' \notin BeforeSummary /\ summary' = summary
        /\ pc' = "destroy" => writer' \in {"open", "overrun"}
        /\ pc' = "detach" => writer' = "closed"
    BY <1>1, <1>2 DEF BeforeSummary, LoaderInv
  <2> QED BY <1>3, <2>1, <2>2, <2>3, <2>4 DEF LoaderInv
<1>7. ConsumedInv' /\ TrailerInv'
  BY <1>1, <1>2, <1>3 DEF ConsumedInv, TrailerInv
<1>8. HookInv' /\ BoundInv' /\ DropInv'
  BY ProgramsUnmoved DEF Inv
<1> QED BY <1>4, <1>5, <1>6, <1>7, <1>8 DEF Inv

LEMMA KilledStep ==
  ASSUME Inv, WriterInv', Killed
  PROVE  Inv'
<1>1. /\ pc' = "killed" /\ attached' = FALSE /\ writer' = "dead"
      /\ UNCHANGED <<attempts, hook, dropped, exiting, elapsed, consumed, err, summary, history, written>>
  BY DEF Killed, JW!Kill, hookVars, signalVars
<1>2. UNCHANGED hookVars
  BY DEF Killed
<1>3. TypeOK /\ LoaderInv /\ FileInv(File, attempts) /\ ConsumedInv /\ TrailerInv
  BY DEF Inv
<1>4. File' = File
  BY <1>1 DEF File
<1>5. TypeOK'
  <2>1. attached' \in BOOLEAN
    BY <1>1
  <2> QED BY <1>1, <1>3, <2>1 DEF TypeOK, WriterInv, WP!TypeOK
<1>6. FileInv(File', attempts')
  BY <1>1, <1>3, <1>4
<1>7. LoaderInv'
  <2>1. summary = -1 => \A i \in 1 .. Len(File) : File[i].line # SummaryLine
    BY <1>3 DEF LoaderInv
  <2>2. pc' \notin BeforeSummary
    BY <1>1 DEF BeforeSummary
  <2> QED BY <1>1, <1>4, <2>1, <2>2 DEF LoaderInv
<1>8. ConsumedInv' /\ TrailerInv'
  BY <1>1, <1>3, <1>4 DEF ConsumedInv, TrailerInv
<1>9. HookInv' /\ BoundInv' /\ DropInv'
  BY <1>2, ProgramsUnmoved DEF Inv
<1> QED BY <1>5, <1>6, <1>7, <1>8, <1>9 DEF Inv

-------------------------------------------------------------------------------
(* The invariant.                                                          *)

LEMMA InvInit == Init => Inv
<1> SUFFICES ASSUME Init PROVE Inv
  OBVIOUS
<1>1. <<>> \in Seq(Fragment) /\ <<>> \in Seq({"busy", "ready", "lost"}) /\ Len(<<>>) = 0 /\ <<>> \o <<>> = <<>>
  BY EmptySeq, ConcatEmptySeq
<1>2. File = <<>> /\ Closes(File) = {} /\ Cardinality({}) = 0 /\ IsFiniteSet({})
  <2>1. File = <<>>
    BY <1>1 DEF Init, File
  <2> QED BY <1>1, <2>1, FS_EmptySet DEF Closes
<1>3. TypeOK
  <2>1. history \in [submitted : SUBSET (1 .. MaxRecords), uncounted : SUBSET (1 .. MaxRecords),
                     misreads : 0 .. MaxMisreads, blind : BOOLEAN]
    BY EventsAssumption DEF Init
  <2>2. hook \in [Cpus -> [step : {"idle", "fill", "second", "failed"},
                            owed : 0 .. 2, at : 0 .. MaxRecords]]
    BY RecordsAreNats DEF Init, Idle
  <2>3. attached \in BOOLEAN /\ exiting \in BOOLEAN /\ elapsed \in BOOLEAN
    BY DEF Init
  <2>4. /\ attempts \in Seq({"busy", "ready", "lost"}) /\ Len(attempts) <= MaxRecords
        /\ consumed \in 0 .. Len(attempts) /\ dropped \in [Cpus -> Nat]
        /\ summary \in Nat \cup {-1} /\ err \in {0, 1, -1, -EINTR}
    BY <1>1, RecordsAreNats DEF Init
  <2>5. /\ buffer \in Seq(Fragment) /\ disk \in Seq(Fragment) /\ written \in Seq(Fragment)
        /\ writer = "open" /\ pc = "create" /\ faults \in 0 .. MaxFaults
    BY <1>1, EventsAssumption DEF Init
  <2> QED BY <2>1, <2>2, <2>3, <2>4, <2>5 DEF TypeOK
<1>4. HookInv
  BY DEF Init, HookInv, Idle
<1>5. BoundInv
  <2>1. Owing = {}
    BY DEF Init, Owing, Idle
  <2> QED BY <1>1, <1>2, <2>1, RecordsAreNats DEF Init, BoundInv
<1>6. DropInv
  <2>1. Drops = {}
    <3>1. \A c \in Cpus : {c} \X (1 .. dropped[c]) = {}
      BY DEF Init
    <3> QED BY <3>1 DEF Drops
  <2>2. Counted = {}
    BY <1>1 DEF Init, Counted
  <2>3. read_dropped_events = 0 /\ Cardinality(Counted) = 0
    BY <1>2, <2>1, <2>2 DEF read_dropped_events
  <2> QED BY <1>2, <2>1, <2>3 DEF DropInv, CountTracksLoss, Counted
<1>7. FileInv(File, attempts)
  BY <1>1, <1>2 DEF FileInv, LinesInv, OrderInv, CompleteInv
<1>8. LoaderInv
  <2>1. pc = "create" /\ writer = "open" /\ summary = -1 /\ pc \in BeforeSummary
    BY DEF Init, BeforeSummary
  <2>2. Len(File) = 0 /\ Cardinality(Closes(File)) = 0
    BY <1>1, <1>2
  <2> QED BY <1>1, <1>2, <2>1, <2>2 DEF LoaderInv
<1>9. ConsumedInv /\ TrailerInv
  BY <1>2 DEF Init, ConsumedInv, TrailerInv
<1>10. WriterInv
  BY WriterInit
<1> QED BY <1>3, <1>4, <1>5, <1>6, <1>7, <1>8, <1>9, <1>10 DEF Inv

LEMMA InvStep == Inv /\ [Next]_vars => Inv'
<1> SUFFICES ASSUME Inv, [Next]_vars PROVE Inv'
  OBVIOUS
<1>0. WriterInv'
  BY WriterStep
<1>1. CASE (\E c \in Cpus : Start(c)) \/ (\E c \in Cpus : Finish(c))
  BY <1>0, <1>1, ProgramStep
<1>2. CASE Loader
  <2>1. UNCHANGED <<hookVars, signalVars>>
    BY <1>2 DEF Loader
  <2>2. CASE \/ CreateWriter \/ LoadPrograms \/ AttachPrograms \/ OpenRing
             \/ TestExiting \/ Poll \/ DrainDone \/ CheckStop \/ Detach
    BY <1>0, <2>1, <2>2, QuietSteps
  <2>3. CASE HandleEventOpen
    BY <1>0, <2>1, <2>3, HandleEventOpenStep
  <2>4. CASE HandleEventClose
    BY <1>0, <2>1, <2>4, HandleEventCloseStep
  <2>5. CASE WriteSummaryOpen
    BY <1>0, <2>1, <2>5, WriteSummaryOpenStep
  <2>6. CASE WriteSummaryClose
    BY <1>0, <2>1, <2>6, WriteSummaryCloseStep
  <2>7. CASE FlushWriter \/ CloseWriter
    BY <1>0, <2>1, <2>7, CleanupStep
  <2> QED BY <1>2, <2>2, <2>3, <2>4, <2>5, <2>6, <2>7 DEF Loader
<1>3. CASE Signal \/ Elapse \/ UNCHANGED vars
  BY <1>0, <1>3, QuietSteps
<1>4. CASE Killed
  BY <1>0, <1>4, KilledStep
<1> QED BY <1>1, <1>2, <1>3, <1>4 DEF Next

-------------------------------------------------------------------------------
(* What the analyzer sees of the file.                                     *)

(* The whole lines of a file to which no write failed are the closed ones. *)
LEMMA WholeLinesOf ==
  ASSUME TypeOK, LinesInv(disk)
  PROVE  WholeLines = Closes(disk) /\ \A i \in WholeLines : LineAt(i) = disk[i].line
<1>1. disk \in Seq(Fragment) /\ Len(disk) \in Nat
  BY LenProperties DEF TypeOK
<1>2. \A i \in WholeLines : i \in Closes(disk)
  BY <1>1 DEF WholeLines, Closes
<1>3. ASSUME NEW i \in Closes(disk) PROVE i \in WholeLines /\ LineAt(i) = disk[i].line
  <2>1. i \in 1 .. Len(disk) /\ disk[i].part = "close"
    BY <1>3 DEF Closes
  <2>2. i > 1 /\ disk[i - 1] = Open(disk[i].line)
    BY <2>1 DEF LinesInv
  <2>3. disk[i - 1].part = "open" /\ disk[i - 1].line = disk[i].line
    BY <2>2 DEF Open
  <2>4. i > 2 => disk[i - 2].part = "close"
    <3>1. i - 1 \in 1 .. Len(disk) /\ (i - 1) - 1 = i - 2 /\ (i > 2 => i - 1 > 1)
      BY <1>1, <2>1, <2>2
    <3> QED BY <2>3, <3>1 DEF LinesInv
  <2>5. i \in 2 .. Len(disk)
    BY <1>1, <2>1, <2>2
  <2> QED BY <2>1, <2>3, <2>4, <2>5 DEF WholeLines, LineAt
<1> QED BY <1>2, <1>3

(* Until a write fails, what is in the file is what was written first.     *)
LEMMA DiskIsPrefix ==
  ASSUME Inv, faults = 0
  PROVE  Len(disk) <= Len(File) /\ \A i \in 1 .. Len(disk) : disk[i] = File[i]
<1>1. /\ disk \in Seq(Fragment) /\ buffer \in Seq(Fragment) /\ written \in Seq(Fragment)
      /\ Len(disk) \in Nat /\ Len(buffer) \in Nat /\ Len(written) \in Nat
  BY LenProperties DEF Inv, TypeOK
<1>2. /\ disk \o buffer \in Seq(Fragment) /\ Len(disk \o buffer) = Len(disk) + Len(buffer)
      /\ \A i \in 1 .. Len(disk) + Len(buffer) :
           (disk \o buffer)[i] = IF i <= Len(disk) THEN disk[i] ELSE buffer[i - Len(disk)]
  BY <1>1, ConcatProperties
<1>3. \A i \in 1 .. Len(disk) : (disk \o buffer)[i] = disk[i]
  BY <1>1, <1>2
<1>4. WP!HoldsWritten
  BY DEF Inv, WriterInv
<1>5. CASE writer # "dead"
  <2>1. disk \o buffer = written
    BY <1>4, <1>5 DEF WP!HoldsWritten
  <2> QED BY <1>1, <1>2, <1>3, <2>1 DEF File
<1>6. CASE writer = "dead"
  <2>1. PICK n \in 0 .. Len(written) : disk \o buffer = SubSeq(written, 1, n)
    BY <1>4, <1>6 DEF WP!HoldsWritten
  <2>2. \A i \in 1 .. n : written[i] \in Fragment
    BY <1>1, ElementOfSeq
  <2>3. /\ Len(SubSeq(written, 1, n)) = n
        /\ \A i \in 1 .. n : SubSeq(written, 1, n)[i] = written[i]
    BY <1>1, <2>2, SubSeqProperties
  <2>4. Len(disk) <= n /\ n <= Len(written)
    BY <1>1, <1>2, <2>1, <2>3
  <2> QED BY <1>1, <1>3, <2>1, <2>3, <2>4 DEF File
<1> QED BY <1>5, <1>6

LEMMA DiskFacts ==
  ASSUME Inv, faults = 0
  PROVE  /\ FileInv(disk, attempts) /\ WholeLines = Closes(disk)
         /\ \A i \in WholeLines : LineAt(i) = disk[i].line
<1>1. disk \in Seq(Fragment) /\ File \in Seq(Fragment)
  BY DEF Inv, TypeOK, File
<1>2. Len(disk) <= Len(File) /\ \A i \in 1 .. Len(disk) : disk[i] = File[i]
  BY DiskIsPrefix
<1>3. FileInv(disk, attempts)
  BY <1>1, <1>2, FilePrefix DEF Inv
<1> QED BY <1>3, WholeLinesOf DEF Inv, FileInv

LEMMA InvPrefix == Inv => TraceIsRingPrefix
<1> SUFFICES ASSUME Inv, faults = 0
             PROVE  /\ \A i, j \in WholeLines :
                         i < j => \/ LineAt(j) = SummaryLine /\ LineAt(i) # SummaryLine
                                  \/ LineAt(i) # SummaryLine /\ LineAt(i) < LineAt(j)
                    /\ \A e \in Recorded : \A k \in 1 .. e : k \in Recorded \/ attempts[k] = "lost"
                    /\ \A e \in Recorded : attempts[e] = "ready"
  BY DEF TraceIsRingPrefix
<1>1. /\ FileInv(disk, attempts) /\ WholeLines = Closes(disk)
      /\ \A i \in WholeLines : LineAt(i) = disk[i].line
  BY DiskFacts
<1>2. \A i, j \in WholeLines :
        i < j => \/ LineAt(j) = SummaryLine /\ LineAt(i) # SummaryLine
                 \/ LineAt(i) # SummaryLine /\ LineAt(i) < LineAt(j)
  BY <1>1 DEF FileInv, OrderInv
<1>3. \A e : e \in Recorded <=> e # SummaryLine /\ \E j \in Closes(disk) : disk[j].line = e
  BY <1>1 DEF Recorded
<1>4. ASSUME NEW e \in Recorded
      PROVE  attempts[e] = "ready" /\ \A k \in 1 .. e : k \in Recorded \/ attempts[k] = "lost"
  <2>1. PICK j \in Closes(disk) : disk[j].line = e /\ e # SummaryLine
    BY <1>3
  <2>2. /\ attempts[e] = "ready"
        /\ \A k \in 1 .. e : attempts[k] = "lost" \/ \E i \in Closes(disk) : i <= j /\ disk[i].line = k
    BY <1>1, <2>1 DEF FileInv, CompleteInv
  <2>3. \A k \in 1 .. e : k # SummaryLine
    BY DEF SummaryLine
  <2> QED BY <1>3, <2>2, <2>3
<1> QED BY <1>2, <1>4

(* An orderly exit leaves nothing in the buffer.                           *)
LEMMA ExitedFile ==
  ASSUME Inv, pc = "exited", faults = 0
  PROVE  /\ File = disk /\ WholeLines = Closes(File)
         /\ \A i \in WholeLines : LineAt(i) = File[i].line
<1>1. disk \in Seq(Fragment) /\ writer = "closed"
  BY DEF Inv, LoaderInv, TypeOK
<1>2. buffer = <<>> /\ disk \o buffer = written
  BY <1>1 DEF Inv, WriterInv, WP!HoldsWritten
<1>3. File = disk
  BY <1>1, <1>2, ConcatEmptySeq DEF File
<1> QED BY <1>3, DiskFacts

(* When the loader is through with a line it is closed.                    *)
LEMMA OpenIsClosed ==
  ASSUME TypeOK, LinesInv(File), LoaderInv, pc \notin {"close", "sumclose", "killed"},
         NEW i \in 1 .. Len(File), File[i].part = "open"
  PROVE  i + 1 \in Closes(File) /\ File[i + 1].line = File[i].line
<1>1. Len(File) \in Nat /\ File \in Seq(Fragment)
  BY LenProperties DEF TypeOK, File
<1>2. i < Len(File)
  <2>1. File # <<>>
    BY <1>1, EmptySeq
  <2>2. File[Len(File)].part = "close"
    BY <2>1 DEF LoaderInv
  <2> QED BY <1>1, <2>2
<1>3. i + 1 \in 1 .. Len(File) /\ i + 1 - 1 = i /\ i + 1 > 1
  BY <1>1, <1>2
<1>4. File[i + 1].part = "close" /\ File[i] = Open(File[i + 1].line)
  BY <1>3 DEF LinesInv
<1> QED BY <1>3, <1>4 DEF Closes, Open

LEMMA InvKeepsEverything == Inv => OrderlyExitKeepsEverything
<1> SUFFICES ASSUME Inv, pc = "exited", faults = 0
             PROVE  /\ Recorded = {i \in 1 .. consumed : attempts[i] # "lost"}
                    /\ HasSummary <=> summary >= 0
                    /\ Len(disk) = 2 * Cardinality(WholeLines)
  BY DEF OrderlyExitKeepsEverything
<1>1. /\ File = disk /\ WholeLines = Closes(File)
      /\ \A i \in WholeLines : LineAt(i) = File[i].line
  BY ExitedFile
<1>2. TypeOK /\ LoaderInv /\ ConsumedInv /\ FileInv(File, attempts)
  BY DEF Inv
<1>3. \A e : e \in Recorded <=> e # SummaryLine /\ \E j \in Closes(File) : File[j].line = e
  BY <1>1 DEF Recorded
<1>4. Recorded = {i \in 1 .. consumed : attempts[i] # "lost"}
  <2>1. ASSUME NEW e \in Recorded PROVE e \in 1 .. consumed /\ attempts[e] # "lost"
    <3>1. PICK j \in Closes(File) : File[j].line = e /\ e # SummaryLine
      BY <1>3
    <3>2. e \in 1 .. Len(attempts) /\ attempts[e] = "ready"
      BY <1>2, <3>1 DEF FileInv, CompleteInv
    <3>3. e <= consumed /\ consumed \in Nat /\ Len(attempts) \in Nat
      BY <1>2, <3>1, LenProperties DEF ConsumedInv, TypeOK
    <3> QED BY <3>2, <3>3
  <2>2. ASSUME NEW e \in 1 .. consumed, attempts[e] # "lost" PROVE e \in Recorded
    <3>1. \E j \in Closes(File) : File[j].line = e
      BY <1>2, <2>2 DEF ConsumedInv
    <3>2. e # SummaryLine
      BY DEF SummaryLine
    <3> QED BY <1>3, <3>1, <3>2
  <2> QED BY <2>1, <2>2
<1>5. Len(disk) = 2 * Cardinality(WholeLines)
  <2>1. Len(File) = 2 * Cardinality(Closes(File)) + 0
    BY <1>2 DEF LoaderInv
  <2>2. Cardinality(Closes(File)) \in Nat
    <3>1. File \in Seq(Fragment)
      BY <1>1, <1>2 DEF TypeOK
    <3>2. SummaryLine \in 0 .. MaxRecords
      BY RecordsAreNats DEF SummaryLine
    <3> QED BY <3>1, <3>2, CloseFacts
  <2> QED BY <1>1, <2>1, <2>2
<1>6. HasSummary <=> summary >= 0
  <2>1. HasSummary <=> \E i \in Closes(File) : File[i].line = SummaryLine
    BY <1>1 DEF HasSummary
  <2>2. summary = -1 \/ summary >= 0
    BY <1>2 DEF TypeOK
  <2>3. CASE summary = -1
    <3>1. \A i \in Closes(File) : File[i].line # SummaryLine
      BY <1>2, <2>3, Zenon DEF LoaderInv, Closes
    <3>2. ~HasSummary
      BY <2>1, <3>1, Zenon
    <3> QED BY <2>3, <3>2
  <2>4. CASE summary >= 0
    <3>1. PICK i \in 1 .. Len(File) : File[i].line = SummaryLine
      BY <1>2, <2>4 DEF LoaderInv
    <3>2. CASE File[i].part = "close"
      BY <2>1, <2>4, <3>1, <3>2 DEF Closes
    <3>3. CASE File[i].part = "open"
      <4>1. i + 1 \in Closes(File) /\ File[i + 1].line = SummaryLine
        BY <1>2, <3>1, <3>3, OpenIsClosed DEF FileInv
      <4> QED BY <2>1, <2>4, <4>1
    <3>4. File[i] \in Fragment
      BY <1>1, <1>2, <3>1, ElementOfSeq DEF TypeOK
    <3> QED BY <3>2, <3>3, <3>4 DEF Fragment
  <2> QED BY <2>2, <2>3, <2>4
<1> QED BY <1>4, <1>5, <1>6

LEMMA InvNoHole == Inv => AcceptedTraceHasNoHole
<1> SUFFICES ASSUME Inv, pc = "exited", HasSummary, Accepted, ~history.blind,
                    NEW e \in Recorded, NEW k \in 1 .. e
             PROVE  attempts[k] # "lost" \/ k \in history.uncounted
  BY DEF AcceptedTraceHasNoHole
<1>1. summary = 0
  BY DEF Accepted
<1>2. e \in 1 .. consumed
  <2>1. /\ TypeOK /\ LoaderInv /\ ConsumedInv /\ LinesInv(File)
        /\ disk \in Seq(Fragment) /\ buffer \in Seq(Fragment) /\ written \in Seq(Fragment)
        /\ Len(disk) \in Nat /\ Len(buffer) \in Nat /\ Len(written) \in Nat
    BY LenProperties DEF Inv, TypeOK, FileInv
  <2>2. PICK i \in WholeLines : LineAt(i) = e /\ e # SummaryLine
    BY DEF Recorded
  <2> DEFINE x == disk[i - 1]
  <2>3. i - 1 \in 1 .. Len(disk) /\ x.part = "open" /\ x.line = e
    BY <2>1, <2>2 DEF WholeLines, LineAt
  <2>4. i - 1 \in DOMAIN (disk \o buffer) /\ (disk \o buffer)[i - 1] = x
    <3>1. /\ disk \o buffer \in Seq(Fragment) /\ Len(disk \o buffer) = Len(disk) + Len(buffer)
          /\ \A p \in 1 .. Len(disk) + Len(buffer) :
               (disk \o buffer)[p] = IF p <= Len(disk) THEN disk[p] ELSE buffer[p - Len(disk)]
      BY <2>1, ConcatProperties
    <3>2. DOMAIN (disk \o buffer) = 1 .. Len(disk) + Len(buffer)
      BY <3>1, LenProperties
    <3>3. i - 1 \in 1 .. Len(disk) + Len(buffer) /\ i - 1 <= Len(disk)
      BY <2>1, <2>3
    <3> QED BY <3>1, <3>2, <3>3
  <2> HIDE DEF x
  <2>5. x \in WP!Range(written)
    BY <2>4 DEF Inv, WriterInv, WP!HoldsWritten, WP!Range
  <2>6. PICK j \in 1 .. Len(written) : written[j] = x
    BY <2>1, <2>5, LenProperties DEF WP!Range
  <2>7. j + 1 \in Closes(File) /\ File[j + 1].line = e
    BY <2>1, <2>3, <2>6, OpenIsClosed DEF File
  <2>8. e <= consumed
    BY <2>1, <2>7 DEF ConsumedInv
  <2>9. x \in Fragment
    BY <2>1, <2>6, ElementOfSeq
  <2>10. e \in Nat /\ e # 0
    BY <2>2, <2>3, <2>9, RecordsAreNats DEF Fragment, SummaryLine
  <2> QED BY <2>1, <2>8, <2>10 DEF TypeOK
<1>3. consumed \in Nat
  BY LenProperties DEF Inv, TypeOK
<1>4. k \in 1 .. consumed
  BY <1>2, <1>3
<1> QED BY <1>1, <1>4 DEF Inv, TrailerInv

(* Every state of Tracer has its type, whatever the interleaving of the    *)
(* programs, the loader, signals and a crash.                              *)
THEOREM TypeCorrect == Spec => []TypeOK
<1>1. Inv => TypeOK
  BY DEF Inv
<1> QED BY <1>1, InvInit, InvStep, PTL DEF Spec

(* As long as no write to the file fails, it is a prefix of the ring at    *)
(* every moment, a crash included.                                         *)
THEOREM FileIsRingPrefix == Spec => []TraceIsRingPrefix
  BY InvInit, InvStep, InvPrefix, PTL DEF Spec

(* A trace that analyze_file accepts misses no record but those of         *)
(* programs that had not counted their drop when the trailer was begun;    *)
(* failing writes make no difference.                                      *)
THEOREM AcceptedIsWhole == Spec => []AcceptedTraceHasNoHole
  BY InvInit, InvStep, InvNoHole, PTL DEF Spec

(* main leaves with everything it handed to the writer in the file, if no  *)
(* write failed.                                                           *)
THEOREM ExitKeepsEverything == Spec => []OrderlyExitKeepsEverything
  BY InvInit, InvStep, InvKeepsEverything, PTL DEF Spec

(* read_dropped_events follows the losses that count_drop was told of.     *)
THEOREM CountersTrackLoss == Spec => []CountTracksLoss
<1>1. Inv => CountTracksLoss
  BY DEF Inv, DropInv
<1> QED BY <1>1, InvInit, InvStep, PTL DEF Spec
===============================================================================
