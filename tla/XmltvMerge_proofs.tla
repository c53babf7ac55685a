-------------------------- MODULE XmltvMerge_proofs --------------------------
(* Proofs about merging with an XMLTV file: for any channels, any gap of   *)
(* the clock, any captured schedules that the scraper can leave, and any   *)
(* number of runs at any times.  Where a theorem needs that no captured    *)
(* slot ends before it starts it says so (EndsAfterStart).                 *)
EXTENDS XmltvMerge, SequenceLemmas

SlotRecords ==
  [title : {1, 2}, ref : BOOLEAN, desc : Nat, start : Nat, stop : Nat \union {NoTime}]

Slots == {x \in SlotRecords : x.start < EndOf(x)}

Programmes ==
  [title : {1, 2}, desc : Nat \union {RefText},
   start : Nat, stop : Nat \union {NoTime}, ch : Channel]

Readable == {Imported(p) : p \in Programmes}

Ascending(s) == \A i, j \in 1 .. Len(s) : i < j => s[i].start < s[j].start

Apart(s) == \A i, j \in 1 .. Len(s) : i < j => EndOf(s[i]) <= s[j].start

DistinctStarts(S) == \A p, q \in S : p # q => p.start # q.start

(* What merging the schedule cap with the programmes had of channel c has  *)
(* come to when new and old are left and out is written: the slots that    *)
(* are not in new any more are written, with the text they were to get;    *)
(* of the old programmes that are not in old any more just those are       *)
(* written that overlap no slot.  The first slot in new has the text of    *)
(* the programmes already discarded.                                       *)
Progress(cap, had, c, n, o, w) ==
  LET k    == Len(cap) - Len(n)
      done == had \ Range(o)
  IN /\ n \in Seq(Slots) /\ k \in Nat
     /\ \A i \in 2 .. Len(n) : n[i] = cap[k + i]
     /\ n # <<>> => n[1] = File!Merged(cap[k + 1], done)
     /\ o \in Seq(had) /\ Ascending(o)
     /\ \A i \in 1 .. k : \A p \in Range(o) : EndOf(cap[i]) <= p.start
     /\ n # <<>> => \A p \in done : p.start < EndOf(cap[k + 1])
     /\ w = {Exported(File!Merged(cap[i], had), c) : i \in 1 .. k}
              \union {p.xml : p \in {q \in done : \A i \in 1 .. Len(cap) : ~File!Overlap(cap[i], q)}}

(* What the run knows of the channel it captures.                          *)
Mine == {p \in read : p.ch = own}

(* Types, and what FileImportable rests on: the channels of all that is    *)
(* read are declared in the file written, and the rest is of the own one.  *)
TypeInv ==
  /\ now \in Nat /\ own \in Channel
  /\ IsFiniteSet(file_prog) /\ file_prog \subseteq Programmes
  /\ FileImportable
  /\ IsFiniteSet(out) /\ out \subseteq {p \in Programmes : p.ch = own}
  /\ pc = "merge" =>
       /\ read \in Readings(file_prog, now)
       /\ chn = {p.ch : p \in read}
       /\ new \in Seq(SlotRecords)
       /\ old \in Seq(Mine) /\ Ascending(old)

(* What FileInOrder rests on: while a run merges, how its lists relate to  *)
(* what it read.                                                           *)
MergeInv ==
  pc = "merge" =>
    /\ \E s \in Captures[own] : captured = Current(s, now)
    /\ captured # <<>>
    /\ Progress(captured, Mine, own, new, old, out)

-----------------------------------------------------------------------------
(* Lists                                                                   *)

(* A set of different start times, listed in order.                        *)
LEMMA InOrderListing ==
  ASSUME NEW S, IsFiniteSet(S), \A p \in S : p.start \in Nat, DistinctStarts(S)
  PROVE  /\ InOrder(S) \in Seq(S) /\ Ascending(InOrder(S))
         /\ Range(InOrder(S)) = S /\ Len(InOrder(S)) = Cardinality(S)
<1>. DEFINE R == {pq \in S \X S : pq[1].start < pq[2].start}
            s == InOrder(S)
<1>1. \A p, q \in S : <<p, q>> \in R <=> p.start < q.start
  OBVIOUS
<1>2. TotalOrder(R, S)
  <2>. HIDE DEF R
  <2>. QED
    BY <1>1 DEF TotalOrder, DistinctStarts
<1>3. ASSUME NEW n \in 1 .. Cardinality(S)
      PROVE  s[n] \in S /\ Rank(s[n], R, S) = n - 1
  <2>. DEFINE Under(p) == {q \in S : q.start < p.start}
  <2>1. ASSUME NEW p \in S PROVE Cardinality(Under(p)) = Rank(p, R, S)
    <3>1. Under(p) = {q \in S : <<q, p>> \in R}
      OBVIOUS
    <3>. QED
      BY <3>1 DEF Rank
  <2>2. n - 1 \in 0 .. Cardinality(S) - 1
    BY FS_CardinalityType
  <2>3. PICK p \in S : Rank(p, R, S) = n - 1
    BY <1>2, <2>2, RankOccurs
  <2>4. Cardinality(Under(p)) = n - 1
    BY <2>1, <2>3
  <2>5. s[n] = CHOOSE q \in S : Cardinality(Under(q)) = n - 1
    BY DEF InOrder
  <2>. HIDE DEF Under, s, R
  <2>6. s[n] \in S /\ Cardinality(Under(s[n])) = n - 1
    BY <2>4, <2>5
  <2>. QED
    BY <2>1, <2>6
<1>4. s = [n \in 1 .. Cardinality(S) |-> s[n]]
  <2>. DEFINE C(n) == CHOOSE p \in S : Cardinality({q \in S : q.start < p.start}) = n - 1
  <2>1. s = [n \in 1 .. Cardinality(S) |-> C(n)]
    BY DEF InOrder
  <2>. HIDE DEF C, s
  <2>. QED
    BY <2>1
<1>. HIDE DEF s, R
<1>5. /\ s \in Seq(S) /\ Len(s) = Cardinality(S)
      /\ Range(s) = S
      /\ \A i, j \in 1 .. Len(s) : i < j => <<s[i], s[j]>> \in R
  <2>1. s \in [1 .. Cardinality(S) -> S]
    BY <1>3, <1>4
  <2>. QED
    BY <1>2, <1>3, <2>1, Listing
<1>6. Ascending(s)
  BY <1>1, <1>5, ElementOfSeq DEF Ascending
<1>. QED
  BY <1>5, <1>6 DEF s

(* The elements from the first on that starts at t or later, in a list in  *)
(* the order of start times.                                               *)
LEMMA StartingFromListing ==
  ASSUME NEW S, \A x \in S : x.start \in Nat,
         NEW s \in Seq(S), Ascending(s), NEW t \in Nat
  PROVE  /\ StartingFrom(s, t) \in Seq(S) /\ Ascending(StartingFrom(s, t))
         /\ Range(StartingFrom(s, t)) = {x \in Range(s) : x.start >= t}
         /\ (\A i \in 1 .. Len(s) : s[i].start >= t) => StartingFrom(s, t) = s
<1>. DEFINE I == {i \in 1 .. Len(s) : s[i].start >= t}
            r == StartingFrom(s, t)
<1>1. /\ Len(s) \in Nat /\ DOMAIN s = 1 .. Len(s)
      /\ \A i \in 1 .. Len(s) : s[i] \in S /\ s[i].start \in Nat
  BY LenProperties, ElementOfSeq
<1>2. CASE I = {}
  <2>1. r = <<>>
    BY <1>2 DEF StartingFrom, SelectInSeq
  <2>2. r \in Seq(S) /\ Len(r) = 0 /\ DOMAIN r = {}
    BY <2>1, EmptySeq
  <2>3. \A i \in 1 .. Len(s) : ~(s[i].start >= t)
    BY <1>2
  <2>. HIDE DEF r, I
  <2>4. {x \in Range(s) : x.start >= t} = {} /\ Range(r) = {}
    BY <1>1, <2>2, <2>3 DEF Range
  <2>5. (\A i \in 1 .. Len(s) : s[i].start >= t) => s = <<>>
    BY <1>1, <2>3
  <2>. QED
    BY <2>1, <2>2, <2>4, <2>5 DEF Ascending, r
<1>3. CASE I # {}
  <2>. DEFINE m == Min(I)
  <2>1. m \in I /\ \A i \in I : m <= i
    <3>1. I \in SUBSET Nat
      BY <1>1
    <3>. HIDE DEF I
    <3>. QED
      BY <1>3, <3>1, LeastInSet
  <2>2. r = SubSeq(s, m, Len(s))
    <3>1. SelectInSeq(s, LAMBDA y : y.start >= t) = m
      BY <1>3 DEF SelectInSeq
    <3>2. m # 0
      BY <1>1, <2>1
    <3>. HIDE DEF m
    <3>. QED
      BY <3>1, <3>2 DEF StartingFrom
  <2>. HIDE DEF m, r
  <2>3. m \in 1 .. Len(s) /\ s[m].start >= t
    BY <2>1
  <2>4. \A i \in 1 .. m - 1 : ~(s[i].start >= t)
    BY <1>1, <2>1, <2>3
  <2>5. /\ r \in Seq(S) /\ Len(r) = Len(s) - m + 1
        /\ \A i \in 1 .. Len(s) - m + 1 : r[i] = s[m + i - 1]
    BY <1>1, <2>2, <2>3, SubSeqProperties
  <2>6. \A i \in m .. Len(s) : s[i].start >= t
    BY <1>1, <2>3 DEF Ascending
  <2>. DEFINE n == Len(s) - m + 1
  <2>7. /\ n \in Nat /\ Len(r) = n /\ DOMAIN r = 1 .. n
        /\ \A i \in 1 .. n : m + i - 1 \in m .. Len(s) /\ m + i - 1 \in 1 .. Len(s)
    BY <1>1, <2>3, <2>5, LenProperties
  <2>8. Ascending(r)
    <3>1. SUFFICES ASSUME NEW i \in 1 .. n, NEW j \in 1 .. n, i < j
                   PROVE  r[i].start < r[j].start
      BY <2>7 DEF Ascending
    <3>2. m + i - 1 < m + j - 1
      BY <2>3, <2>7, <3>1
    <3>. QED
      BY <2>5, <2>7, <3>2 DEF Ascending
  <2>9. Range(r) \subseteq {x \in Range(s) : x.start >= t}
    <3>1. SUFFICES ASSUME NEW i \in 1 .. n
                   PROVE  r[i] \in Range(s) /\ r[i].start >= t
      BY <2>7 DEF Range
    <3>. QED
      BY <1>1, <2>5, <2>6, <2>7 DEF Range
  <2>10. {x \in Range(s) : x.start >= t} \subseteq Range(r)
    <3>1. SUFFICES ASSUME NEW i \in m .. Len(s) PROVE s[i] \in Range(r)
      BY <1>1, <2>3, <2>4 DEF Range
    <3>2. i - m + 1 \in 1 .. Len(r) /\ m + (i - m + 1) - 1 = i
      BY <1>1, <2>3, <2>5
    <3>. QED
      BY <2>5, <3>2, LenProperties DEF Range
  <2>11. (\A i \in 1 .. Len(s) : s[i].start >= t) => r = s
    <3>1. SUFFICES ASSUME \A i \in 1 .. Len(s) : s[i].start >= t PROVE r = s
      OBVIOUS
    <3>2. m = 1
      BY <1>1, <2>1, <2>3, <3>1
    <3>. QED
      BY <2>2, <3>2, SubSeqFull
  <2>. QED
    BY <2>5, <2>8, <2>9, <2>10, <2>11 DEF r
<1>. QED
  BY <1>2, <1>3

-----------------------------------------------------------------------------
(* Slots and programmes                                                    *)

(* What is imported has the text of the programme and some times.          *)
LEMMA ReadableType ==
  \A e \in Readable :
    /\ e.title \in {1, 2} /\ e.desc \in Nat \union {-1}
    /\ e.start \in Nat /\ e.stop \in Nat \union {-1} /\ e.ch \in Channel
    /\ e.xml \in Programmes /\ e = Imported(e.xml) /\ e.ch = e.xml.ch
<1>. SUFFICES ASSUME NEW p \in Programmes
              PROVE  LET e == Imported(p) IN
                     /\ e.title \in {1, 2} /\ e.desc \in Nat \union {-1}
                     /\ e.start \in Nat /\ e.stop \in Nat \union {-1} /\ e.ch \in Channel
                     /\ e.xml = p /\ e.ch = p.ch
  BY DEF Readable
<1>1. \A t \in Nat : Stamp(t) \in Nat
  BY GapAssumption DEF Stamp
<1>2. /\ p.title \in {1, 2} /\ p.desc \in Nat \union {-1} /\ p.ch \in Channel
      /\ p.start \in Nat /\ p.stop \in Nat \union {-1}
  BY DEF Programmes, RefText, NoTime
<1>. QED
  BY <1>1, <1>2 DEF Imported, NoTime

(* Merging changes neither the times of a slot nor whether it refers to a  *)
(* description page.                                                       *)
LEMMA MergedRecord ==
  ASSUME NEW x \in SlotRecords, NEW p \in Readable
  PROVE  LET y == MergeSlotDesc(x, p) IN
         y \in SlotRecords /\ y.start = x.start /\ y.stop = x.stop /\ y.ref = x.ref
<1>. DEFINE d == IF p.desc > x.desc THEN p.desc ELSE x.desc
            y == [x EXCEPT !.title = p.title, !.desc = d]
<1>1. /\ x \in [title : {1, 2}, ref : BOOLEAN, desc : Nat,
               start : Nat, stop : Nat \union {NoTime}]
      /\ p.title \in {1, 2} /\ p.desc \in Nat \union {-1}
  BY ReadableType DEF SlotRecords
<1>2. d \in Nat
  BY <1>1
<1>3. MergeSlotDesc(x, p) = x \/ MergeSlotDesc(x, p) = y
  BY DEF MergeSlotDesc
<1>. HIDE DEF d
<1>4. /\ y \in [title : {1, 2}, ref : BOOLEAN, desc : Nat,
               start : Nat, stop : Nat \union {NoTime}]
      /\ y.start = x.start /\ y.stop = x.stop /\ y.ref = x.ref
  BY <1>1, <1>2
<1>. HIDE DEF y
<1>. QED
  BY <1>1, <1>3, <1>4 DEF SlotRecords

LEMMA MergedSlot ==
  ASSUME NEW x \in Slots, NEW p \in Readable
  PROVE  LET y == MergeSlotDesc(x, p) IN
         y \in Slots /\ y.start = x.start /\ y.stop = x.stop /\ y.ref = x.ref
BY MergedRecord DEF Slots, EndOf

(* XmltvFile uses the same operators.                                      *)
LEMMA SameEnds ==
  /\ \A x : File!EndOf(x) = EndOf(x)
  /\ \A p : File!OldEnd(p) = OldEnd(p)
  /\ \A x, p : File!SameTitle(x, p) = SameTitle(x, p)
  /\ \A x, t : File!Recent(x, t) = Recent(x, t)
  /\ \A x, t : File!Unexpired(x, t) = Unexpired(x, t)
BY DEF File!EndOf, EndOf, File!OldEnd, OldEnd, File!SameTitle, SameTitle,
       File!Recent, Recent, File!Unexpired, Unexpired, File!NoTime, NoTime,
       File!RunGuess, RunGuess

(* ... what merging takes over and what is exported,                       *)
LEMMA SameText ==
  /\ \A x, p : File!MergeSlotDesc(x, p) = MergeSlotDesc(x, p)
  /\ \A x, c : File!Exported(x, c) = Exported(x, c)
BY SameEnds DEF File!MergeSlotDesc, MergeSlotDesc, File!Exported, Exported,
       File!RefText, RefText

(* ... what is read of a file                                              *)
LEMMA SameReadings == \A S, t : File!Readings(S, t) = Readings(S, t)
<1>1. \A p : File!Imported(p) = Imported(p)
  BY DEF File!Imported, Imported, File!Stamp, Stamp, File!NoTime, NoTime
<1>2. \A S, t : File!Entries(S, t) = Entries(S, t)
  BY <1>1, SameEnds DEF File!Entries, Entries
<1>3. \A S : File!DistinctKeys(S) = DistinctKeys(S)
  BY DEF File!DistinctKeys, DistinctKeys, File!KeyOf, KeyOf
<1>. QED
  BY <1>2, <1>3 DEF File!Readings, Readings, File!KeyOf, KeyOf

(* ... and which slots are not expired.                                    *)
LEMMA SameCurrent == \A s, t : File!Current(s, t) = Current(s, t)
<1>1. \A s, t : {i \in DOMAIN s : File!Unexpired(s[i], t)} = {i \in DOMAIN s : Unexpired(s[i], t)}
  BY SameEnds
<1>2. \A S : File!Cardinality(S) = Cardinality(S)
  BY Zenon DEF File!Cardinality, Cardinality
<1>3. \A I, n : File!Nth(I, n) = Nth(I, n)
  BY <1>2 DEF File!Nth, Nth
<1>. QED
  BY <1>1, <1>2, <1>3 DEF File!Current, Current

(* XmltvFile merges a slot with a set of programmes of different start     *)
(* times: with the one that starts at the same time, if there is one.      *)
LEMMA SameInSet ==
  ASSUME NEW x, NEW S, NEW T,
         {p \in S : p.start = x.start} = {p \in T : p.start = x.start}
  PROVE  File!Merged(x, S) = File!Merged(x, T)
<1>. DEFINE A == {p \in S : p.start = x.start}
            B == {p \in T : p.start = x.start}
            M(C) == IF C = {} THEN x ELSE File!MergeSlotDesc(x, CHOOSE p \in C : TRUE)
<1>1. File!Merged(x, S) = M(A) /\ File!Merged(x, T) = M(B)
  BY DEF File!Merged
<1>. HIDE DEF A, B
<1>2. A = B
  BY DEF A, B
<1>. QED
  BY <1>1, <1>2

(* ... this one,                                                           *)
LEMMA MergedWith ==
  ASSUME NEW x, NEW S, NEW p \in S, p.start = x.start, DistinctStarts(S)
  PROVE  File!Merged(x, S) = MergeSlotDesc(x, p)
<1>. DEFINE A == {q \in S : q.start = x.start}
            M(C) == IF C = {} THEN x ELSE File!MergeSlotDesc(x, CHOOSE q \in C : TRUE)
<1>1. A = {p}
  BY DEF DistinctStarts
<1>2. File!Merged(x, S) = M(A)
  BY DEF File!Merged
<1>. HIDE DEF A
<1>3. A # {} /\ (CHOOSE q \in A : TRUE) = p
  BY <1>1
<1>. QED
  BY <1>2, <1>3, SameText

(* ... or the slot stays as it is.                                         *)
LEMMA MergedWithNone ==
  ASSUME NEW x, NEW S, \A p \in S : p.start # x.start
  PROVE  File!Merged(x, S) = x
BY DEF File!Merged

(* What is merged is again a slot with the same times.                     *)
LEMMA MergedType ==
  ASSUME NEW x \in Slots, NEW S \in SUBSET Readable, DistinctStarts(S)
  PROVE  LET y == File!Merged(x, S) IN
         y \in Slots /\ y.start = x.start /\ y.stop = x.stop /\ y.ref = x.ref
<1>1. CASE \E p \in S : p.start = x.start
  BY <1>1, MergedWith, MergedSlot
<1>2. CASE \A p \in S : p.start # x.start
  BY <1>2, MergedWithNone
<1>. QED
  BY <1>1, <1>2

(* Merging with one more programme is merging with the set that has it.    *)
LEMMA MergedStep ==
  ASSUME NEW had \in SUBSET Readable, DistinctStarts(had),
         NEW done \in SUBSET had, NEW p \in had, p \notin done,
         NEW x \in Slots
  PROVE  MergeSlotDesc(File!Merged(x, done), p) = File!Merged(x, done \union {p})
<1>1. DistinctStarts(done) /\ DistinctStarts(done \union {p})
  BY DEF DistinctStarts
<1>2. CASE p.start = x.start
  <2>1. \A q \in done : q.start # x.start
    BY <1>2 DEF DistinctStarts
  <2>. QED
    BY <1>1, <1>2, <2>1, MergedWith, MergedWithNone
<1>3. CASE p.start # x.start
  <2>1. File!Merged(x, done).start = x.start
    BY <1>1, MergedType
  <2>2. MergeSlotDesc(File!Merged(x, done), p) = File!Merged(x, done)
    BY <1>3, <2>1 DEF MergeSlotDesc
  <2>3. {q \in done : q.start = x.start} = {q \in done \union {p} : q.start = x.start}
    BY <1>3
  <2>. QED
    BY <2>2, <2>3, SameInSet
<1>. QED
  BY <1>2, <1>3

(* A slot that is exported is a programme of the channel.                  *)
LEMMA ExportedType ==
  ASSUME NEW x \in SlotRecords, NEW c \in Channel
  PROVE  LET p == Exported(x, c) IN
         /\ p \in Programmes /\ p.ch = c /\ p.start = x.start
         /\ OldEnd(p) <= EndOf(x)
BY DEF Exported, SlotRecords, Programmes, EndOf, OldEnd, NoTime, RefText

-----------------------------------------------------------------------------
(* The loop over the two lists                                             *)

(* A schedule and the programmes already in the file that it is merged     *)
(* with.                                                                   *)
Input(cap, had) ==
  /\ cap \in Seq(Slots) /\ Apart(cap)
  /\ had \subseteq Readable /\ DistinctStarts(had)

(* Every slot and every programme has a start and an end.                  *)
LEMMA SlotTimes ==
  /\ \A x \in Slots : x.start \in Nat /\ EndOf(x) \in Nat /\ x.start < EndOf(x)
  /\ \A p \in Readable : p.start \in Nat /\ OldEnd(p) \in Nat
BY ReadableType DEF Slots, SlotRecords, EndOf, OldEnd, NoTime

(* The old programme that is looked at is the earliest one left.           *)
LEMMA OldHead ==
  ASSUME NEW had \in SUBSET Readable,
         NEW o \in Seq(had), Ascending(o), o # <<>>
  PROVE  /\ Head(o) \in had /\ Head(o) \in Range(o)
         /\ Tail(o) \in Seq(had) /\ Ascending(Tail(o))
         /\ Range(o) = Range(Tail(o)) \union {Head(o)}
         /\ \A p \in Range(Tail(o)) : Head(o).start < p.start
         /\ had \ Range(Tail(o)) = (had \ Range(o)) \union {Head(o)}
<1>1. IsSequence(o) /\ Len(o) \in Nat \ {0} /\ DOMAIN o = 1 .. Len(o)
  BY EmptySeq, LenProperties DEF IsSequence
<1>2. Tail(o) \in Seq(had) /\ Head(o) \in had
  BY HeadTailProperties
<1>3. /\ Len(Tail(o)) = Len(o) - 1
      /\ \A i \in 1 .. Len(Tail(o)) : Tail(o)[i] = o[i + 1]
      /\ Head(o) = o[1]
      /\ Range(o) = Range(Tail(o)) \union {Head(o)}
  BY <1>1, SequenceTail
<1>4. \A i \in 1 .. Len(o) : o[i].start \in Nat
  BY ElementOfSeq, SlotTimes
<1>5. Ascending(Tail(o))
  <2>1. SUFFICES ASSUME NEW i \in 1 .. Len(Tail(o)), NEW j \in 1 .. Len(Tail(o)), i < j
                 PROVE  Tail(o)[i].start < Tail(o)[j].start
    BY DEF Ascending
  <2>2. i + 1 \in 1 .. Len(o) /\ j + 1 \in 1 .. Len(o) /\ i + 1 < j + 1
    BY <1>1, <1>3, <2>1
  <2>. QED
    BY <1>3, <2>2 DEF Ascending
<1>6. ASSUME NEW p \in Range(Tail(o)) PROVE Head(o).start < p.start
  <2>1. PICK i \in 1 .. Len(Tail(o)) : p = Tail(o)[i]
    BY <1>2, LenProperties DEF Range
  <2>2. i + 1 \in 1 .. Len(o) /\ 1 \in 1 .. Len(o) /\ 1 < i + 1
    BY <1>1, <1>3
  <2>. QED
    BY <1>3, <2>1, <2>2 DEF Ascending
<1>7. Head(o) \notin Range(Tail(o))
  BY <1>2, <1>6, SlotTimes
<1>. QED
  BY <1>2, <1>3, <1>5, <1>6, <1>7

(* The new slot that is looked at has the times of a captured one and the  *)
(* text of the old programmes already discarded; what follows it is later, *)
(* and is not discarded.                                                   *)
HeadKnown(cap, had, n, o) ==
  LET k == Len(cap) - Len(n)
      x == Head(n)
  IN /\ Len(n) \in Nat \ {0} /\ k + 1 \in 1 .. Len(cap) /\ cap[k + 1] \in Slots
     /\ x \in Slots /\ x = n[1] /\ x = File!Merged(cap[k + 1], had \ Range(o))
     /\ x.start = cap[k + 1].start /\ EndOf(x) = EndOf(cap[k + 1])
     /\ Tail(n) \in Seq(Slots) /\ Len(Tail(n)) = Len(n) - 1
     /\ \A i \in 1 .. Len(n) - 1 : Tail(n)[i] = cap[k + 1 + i]
     /\ StartingFrom(Tail(n), EndOf(x)) = Tail(n)
     /\ <<x>> \o Tail(n) = n

(* The slot that is looked at has the times of the slot captured, and it   *)
(* is only followed by later ones.                                         *)
LEMMA NewHead ==
  ASSUME NEW cap, NEW had, Input(cap, had), NEW c, NEW n, NEW o, NEW w,
         Progress(cap, had, c, n, o, w), n # <<>>
  PROVE  HeadKnown(cap, had, n, o)
<1>. DEFINE k == Len(cap) - Len(n)
            x == Head(n)
<1>1. n \in Seq(Slots) /\ k \in Nat /\ cap \in Seq(Slots)
  BY DEF Progress, Input
<1>2. Len(n) \in Nat \ {0} /\ Len(cap) \in Nat
  BY <1>1, EmptySeq
<1>3. k + 1 \in 1 .. Len(cap)
  BY <1>1, <1>2
<1>4. cap[k + 1] \in Slots
  BY <1>1, <1>3, ElementOfSeq
<1>5. x = n[1] /\ x \in Slots
  BY <1>1, HeadTailProperties
<1>6. x = File!Merged(cap[k + 1], had \ Range(o))
  BY <1>5 DEF Progress
<1>7. x.start = cap[k + 1].start /\ EndOf(x) = EndOf(cap[k + 1])
  <2>1. DistinctStarts(had \ Range(o)) /\ had \ Range(o) \in SUBSET Readable
    BY DEF Input, DistinctStarts
  <2>2. x.start = cap[k + 1].start /\ x.stop = cap[k + 1].stop
    BY <1>4, <1>6, <2>1, MergedType
  <2>. QED
    BY <2>2 DEF EndOf
<1>. HIDE DEF x
<1>8. /\ Tail(n) \in Seq(Slots) /\ Len(Tail(n)) = Len(n) - 1
      /\ \A i \in 1 .. Len(Tail(n)) : Tail(n)[i] = n[i + 1]
  BY <1>1, SequenceTail, HeadTailProperties DEF IsSequence
<1>9. ASSUME NEW i \in 1 .. Len(n) - 1
      PROVE  Tail(n)[i] = cap[k + 1 + i] /\ k + 1 + i \in 1 .. Len(cap)
  <2>1. i + 1 \in 2 .. Len(n) /\ k + (i + 1) = k + 1 + i
    BY <1>1, <1>2
  <2>2. n[i + 1] = cap[k + (i + 1)]
    BY <2>1 DEF Progress
  <2>. QED
    BY <1>1, <1>2, <1>8, <2>1, <2>2
<1>10. \A i \in 1 .. Len(Tail(n)) : Tail(n)[i].start >= EndOf(x)
  <2>1. SUFFICES ASSUME NEW i \in 1 .. Len(n) - 1
                 PROVE  cap[k + 1 + i].start >= EndOf(x)
    BY <1>8, <1>9
  <2>2. k + 1 < k + 1 + i
    BY <1>1, <1>2
  <2>3. EndOf(cap[k + 1]) <= cap[k + 1 + i].start
    BY <1>3, <1>9, <2>2 DEF Input, Apart
  <2>4. EndOf(x) \in Nat /\ cap[k + 1 + i] \in Slots
    BY <1>1, <1>5, <1>9, ElementOfSeq, SlotTimes
  <2>. QED
    BY <1>7, <2>3, <2>4, SlotTimes
<1>11. Ascending(Tail(n))
  <2>. SUFFICES ASSUME NEW i \in 1 .. Len(Tail(n)), NEW j \in 1 .. Len(Tail(n)), i < j
                PROVE  Tail(n)[i].start < Tail(n)[j].start
    BY DEF Ascending
  <2>1. i \in 1 .. Len(n) - 1 /\ j \in 1 .. Len(n) - 1
    BY <1>8
  <2>2. k + 1 + i < k + 1 + j
    BY <1>1, <1>2, <2>1
  <2>3. EndOf(cap[k + 1 + i]) <= cap[k + 1 + j].start
    BY <1>9, <2>1, <2>2 DEF Input, Apart
  <2>4. cap[k + 1 + i] \in Slots /\ cap[k + 1 + j] \in Slots
    BY <1>1, <1>9, <2>1, ElementOfSeq
  <2>. QED
    BY <1>9, <2>1, <2>3, <2>4, SlotTimes
<1>12. StartingFrom(Tail(n), EndOf(x)) = Tail(n)
  <2>1. EndOf(x) \in Nat /\ \A y \in Slots : y.start \in Nat
    BY <1>5, SlotTimes
  <2>. QED
    BY <1>8, <1>10, <1>11, <2>1, StartingFromListing
<1>13. <<x>> \o Tail(n) = n
  <2>1. <<x>> \in Seq(Slots) /\ Len(<<x>>) = 1 /\ <<x>>[1] = x
    BY <1>5
  <2>2. /\ <<x>> \o Tail(n) \in Seq(Slots) /\ Len(<<x>> \o Tail(n)) = Len(n)
        /\ \A i \in 1 .. Len(n) : (<<x>> \o Tail(n))[i] = IF i <= 1 THEN <<x>>[i] ELSE Tail(n)[i - 1]
    BY <1>2, <1>8, <2>1, ConcatProperties
  <2>3. ASSUME NEW i \in 1 .. Len(n) PROVE (<<x>> \o Tail(n))[i] = n[i]
    <3>1. CASE i = 1
      BY <1>5, <2>1, <2>2, <3>1
    <3>2. CASE i > 1
      <4>1. i - 1 \in 1 .. Len(Tail(n)) /\ (i - 1) + 1 = i /\ ~(i <= 1)
        BY <1>2, <1>8, <3>2
      <4>. QED
        BY <1>8, <2>2, <4>1
    <3>. QED
      BY <1>2, <3>1, <3>2
  <2>. QED
    BY <1>1, <2>2, <2>3, SeqEqual
<1>. QED
  BY <1>2, <1>3, <1>4, <1>5, <1>6, <1>7, <1>8, <1>9, <1>12, <1>13 DEF HeadKnown, x

(* A programme is discarded because a slot of the capture overlaps it.     *)
LEMMA DiscardOldStep ==
  ASSUME NEW cap, NEW had, Input(cap, had), NEW c, NEW n, NEW o, NEW w,
         Progress(cap, had, c, n, o, w), n # <<>>, o # <<>>,
         Overlapping(Head(n), Head(o))
  PROVE  Progress(cap, had, c, [n EXCEPT ![1] = MergeSlotDesc(@, Head(o))], Tail(o), w)
<1>. DEFINE k == Len(cap) - Len(n)
            x == Head(n)
            p == Head(o)
            m == [n EXCEPT ![1] = MergeSlotDesc(@, p)]
            done == had \ Range(o)
<1>1. /\ n \in Seq(Slots) /\ k \in Nat /\ o \in Seq(had) /\ Ascending(o)
      /\ \A i \in 2 .. Len(n) : n[i] = cap[k + i]
      /\ \A i \in 1 .. k : \A q \in Range(o) : EndOf(cap[i]) <= q.start
      /\ \A q \in done : q.start < EndOf(cap[k + 1])
      /\ w = {Exported(File!Merged(cap[i], had), c) : i \in 1 .. k}
               \union {r.xml : r \in {q \in done : \A i \in 1 .. Len(cap) : ~File!Overlap(cap[i], q)}}
  BY DEF Progress
<1>2. /\ Len(n) \in Nat \ {0} /\ k + 1 \in 1 .. Len(cap) /\ cap[k + 1] \in Slots
      /\ x \in Slots /\ x = File!Merged(cap[k + 1], done)
      /\ x.start = cap[k + 1].start /\ EndOf(x) = EndOf(cap[k + 1])
  <2>1. HeadKnown(cap, had, n, o)
    BY NewHead
  <2>. QED
    BY <2>1 DEF HeadKnown
<1>3. had \in SUBSET Readable /\ DistinctStarts(had)
  BY DEF Input
<1>4. /\ p \in had /\ p \in Range(o)
      /\ Tail(o) \in Seq(had) /\ Ascending(Tail(o))
      /\ Range(o) = Range(Tail(o)) \union {p}
      /\ had \ Range(Tail(o)) = done \union {p}
  BY <1>1, <1>3, OldHead
<1>5. MergeSlotDesc(x, p) \in Slots
  BY <1>2, <1>3, <1>4, MergedSlot
<1>6. n[1] = x
  BY <1>1, HeadTailProperties
<1>7. /\ m \in Seq(Slots) /\ Len(m) = Len(n)
      /\ \A i \in 2 .. Len(n) : m[i] = n[i]
      /\ m[1] = MergeSlotDesc(x, p)
  <2>1. m = [n EXCEPT ![1] = MergeSlotDesc(x, p)] /\ 1 \in 1 .. Len(n)
    BY <1>1, <1>2, <1>6
  <2>. HIDE DEF m, x, p
  <2>2. /\ m \in Seq(Slots) /\ Len(m) = Len(n)
        /\ \A i \in 1 .. Len(n) : m[i] = IF i = 1 THEN MergeSlotDesc(x, p) ELSE n[i]
    BY <1>1, <1>5, <2>1, ExceptSeq
  <2>3. 1 \in 1 .. Len(n) /\ \A i \in 2 .. Len(n) : i \in 1 .. Len(n) /\ i # 1
    BY <1>2
  <2>. QED
    BY <2>2, <2>3
<1>8. m[1] = File!Merged(cap[k + 1], done \union {p})
  BY <1>2, <1>3, <1>4, <1>7, MergedStep
<1>9. p.start < EndOf(cap[k + 1])
  BY <1>2 DEF Overlapping
<1>10. File!Overlap(cap[k + 1], p)
  BY <1>2, SameEnds DEF Overlapping, File!Overlap
<1>11. {q \in done : \A i \in 1 .. Len(cap) : ~File!Overlap(cap[i], q)}
         = {q \in done \union {p} : \A i \in 1 .. Len(cap) : ~File!Overlap(cap[i], q)}
  BY <1>2, <1>10
<1>. HIDE DEF m, p, x
<1>12. Progress(cap, had, c, m, Tail(o), w)
  BY <1>1, <1>4, <1>7, <1>8, <1>9, <1>11 DEF Progress
<1>. QED
  BY <1>12 DEF m, p

(* A programme is written because no slot overlaps it: those already       *)
(* written end before it, those to come start after it.                    *)
LEMMA ChooseOldStep ==
  ASSUME NEW cap, NEW had, Input(cap, had), NEW c, NEW n, NEW o, NEW w,
         Progress(cap, had, c, n, o, w), n # <<>>, o # <<>>,
         ~Overlapping(Head(n), Head(o)), Head(n).start > Head(o).start
  PROVE  Progress(cap, had, c, <<Head(n)>> \o StartingFrom(Tail(n), EndOf(Head(n))),
                  Tail(o), w \union {Head(o).xml})
<1>. DEFINE k == Len(cap) - Len(n)
            x == Head(n)
            p == Head(o)
            done == had \ Range(o)
            Free(S) == {q \in S : \A i \in 1 .. Len(cap) : ~File!Overlap(cap[i], q)}
<1>1. /\ n \in Seq(Slots) /\ k \in Nat /\ o \in Seq(had) /\ Ascending(o)
      /\ \A i \in 2 .. Len(n) : n[i] = cap[k + i]
      /\ n[1] = File!Merged(cap[k + 1], done)
      /\ \A i \in 1 .. k : \A q \in Range(o) : EndOf(cap[i]) <= q.start
      /\ \A q \in done : q.start < EndOf(cap[k + 1])
      /\ w = {Exported(File!Merged(cap[i], had), c) : i \in 1 .. k} \union {q.xml : q \in Free(done)}
  BY DEF Progress
<1>2. /\ Len(n) \in Nat \ {0} /\ k + 1 \in 1 .. Len(cap) /\ cap[k + 1] \in Slots
      /\ x \in Slots
      /\ x.start = cap[k + 1].start /\ EndOf(x) = EndOf(cap[k + 1])
      /\ StartingFrom(Tail(n), EndOf(x)) = Tail(n)
      /\ <<x>> \o Tail(n) = n
  <2>1. HeadKnown(cap, had, n, o)
    BY NewHead
  <2>. QED
    BY <2>1 DEF HeadKnown
<1>3. had \in SUBSET Readable /\ DistinctStarts(had) /\ cap \in Seq(Slots) /\ Apart(cap)
  BY DEF Input
<1>4. /\ p \in had /\ p \in Range(o)
      /\ Tail(o) \in Seq(had) /\ Ascending(Tail(o))
      /\ Range(o) = Range(Tail(o)) \union {p}
      /\ had \ Range(Tail(o)) = done \union {p}
  BY <1>1, <1>3, OldHead
<1>5. p.start \in Nat /\ OldEnd(p) \in Nat /\ x.start \in Nat /\ EndOf(x) \in Nat /\ x.start < EndOf(x)
  BY <1>2, <1>3, <1>4, SlotTimes
<1>6. p.start < x.start /\ p.start < EndOf(x) /\ OldEnd(p) <= x.start
  BY <1>5 DEF Overlapping
<1>. HIDE DEF p, x
<1>7. {p.start, OldEnd(p), x.start, EndOf(x)} \subseteq Nat
  BY <1>5
<1>8. x.start = cap[k + 1].start
  BY <1>2
<1>9. ASSUME NEW i \in 1 .. Len(cap)
      PROVE  ~File!Overlap(cap[i], p)
  <2>1. cap[i] \in Slots
    BY <1>3, ElementOfSeq
  <2>2. /\ cap[i].start \in Nat /\ EndOf(cap[i]) \in Nat /\ cap[i].start < EndOf(cap[i])
    BY <2>1, SlotTimes
  <2>3. CASE i <= k
    <3>1. EndOf(cap[i]) <= p.start
      BY <1>1, <1>4, <2>3
    <3>. QED
      BY <1>5, <2>2, <3>1, SameEnds DEF File!Overlap
  <2>4. CASE i > k
    <3>1. OldEnd(p) <= cap[i].start /\ p.start < cap[i].start
      <4>1. CASE i = k + 1
        BY <1>6, <1>8, <4>1
      <4>2. CASE i > k + 1
        <5>1. EndOf(cap[k + 1]) <= cap[i].start
          BY <1>2, <1>3, <4>2 DEF Apart
        <5>. QED
          BY <1>2, <1>5, <1>6, <2>2, <5>1
      <4>3. i \in Nat /\ k \in Nat
        BY <1>1
      <4>. HIDE DEF k
      <4>. QED
        BY <2>4, <4>1, <4>2, <4>3
    <3>. QED
      BY <1>5, <2>2, <3>1, SameEnds DEF File!Overlap
  <2>. QED
    BY <1>1, <2>3, <2>4
<1>10. Free(done \union {p}) = Free(done) \union {p}
  BY <1>9
<1>11. n[1] = File!Merged(cap[k + 1], done \union {p})
  <2>1. {q \in done : q.start = cap[k + 1].start} = {q \in done \union {p} : q.start = cap[k + 1].start}
    BY <1>5, <1>6, <1>8
  <2>. QED
    BY <1>1, <2>1, SameInSet
<1>12. p.start < EndOf(cap[k + 1])
  BY <1>2, <1>6
<1>13. w \union {p.xml} = {Exported(File!Merged(cap[i], had), c) : i \in 1 .. k} 
                        \union {q.xml : q \in Free(done \union {p})}
  BY <1>1, <1>10
<1>14. Progress(cap, had, c, n, Tail(o), w \union {p.xml})
  BY <1>1, <1>4, <1>11, <1>12, <1>13 DEF Progress
<1>. QED
  BY <1>2, <1>14 DEF p, x

(* A slot that is written has the text of all programmes it can have it    *)
(* from, and what its end removes from the old list overlaps it.           *)
LEMMA ChooseNewStep ==
  ASSUME NEW cap, NEW had, Input(cap, had), NEW c, NEW n, NEW o, NEW w,
         Progress(cap, had, c, n, o, w), n # <<>>,
         o # <<>> => Head(n).start <= Head(o).start,
         NEW y, y = IF o # <<>> /\ Head(o).start < EndOf(Head(n))
                    THEN MergeSlotDesc(Head(n), Head(o)) ELSE Head(n)
  PROVE  Progress(cap, had, c, StartingFrom(Tail(n), EndOf(Head(n))),
                  StartingFrom(o, EndOf(Head(n))), w \union {Exported(y, c)})
<1>. DEFINE k == Len(cap) - Len(n)
            x == Head(n)
            s == cap[k + 1]
            rest == StartingFrom(o, EndOf(x))
            done == had \ Range(o)
            gone == had \ Range(rest)
            Free(S) == {q \in S : \A i \in 1 .. Len(cap) : ~File!Overlap(cap[i], q)}
            Text(i) == Exported(File!Merged(cap[i], had), c)
<1>1. /\ n \in Seq(Slots) /\ k \in Nat /\ o \in Seq(had) /\ Ascending(o)
      /\ \A i \in 1 .. k : \A q \in Range(o) : EndOf(cap[i]) <= q.start
      /\ \A q \in done : q.start < EndOf(s)
      /\ w = {Text(i) : i \in 1 .. k} \union {q.xml : q \in Free(done)}
  BY DEF Progress
<1>2. /\ Len(n) \in Nat \ {0} /\ k + 1 \in 1 .. Len(cap) /\ s \in Slots
      /\ x \in Slots /\ x = File!Merged(s, done)
      /\ x.start = s.start /\ EndOf(x) = EndOf(s)
      /\ Tail(n) \in Seq(Slots) /\ Len(Tail(n)) = Len(n) - 1
      /\ \A i \in 1 .. Len(n) - 1 : Tail(n)[i] = cap[k + 1 + i]
      /\ StartingFrom(Tail(n), EndOf(x)) = Tail(n)
  <2>1. HeadKnown(cap, had, n, o)
    BY NewHead
  <2>. QED
    BY <2>1 DEF HeadKnown
<1>3. /\ had \in SUBSET Readable /\ DistinctStarts(had)
      /\ cap \in Seq(Slots) /\ Len(cap) \in Nat /\ Apart(cap)
  BY DEF Input
<1>4. /\ x.start \in Nat /\ EndOf(x) \in Nat /\ x.start < EndOf(x)
      /\ \A q \in had : q.start \in Nat
  BY <1>2, <1>3, SlotTimes
<1>5. /\ rest \in Seq(had) /\ Ascending(rest)
      /\ Range(rest) = {q \in Range(o) : q.start >= EndOf(x)}
  <2>. DEFINE t == EndOf(x)
  <2>1. t \in Nat
    BY <1>4
  <2>. HIDE DEF t
  <2>2. /\ StartingFrom(o, t) \in Seq(had) /\ Ascending(StartingFrom(o, t))
        /\ Range(StartingFrom(o, t)) = {q \in Range(o) : q.start >= t}
    <3>1. o \in Seq(had) /\ Ascending(o) /\ \A q \in had : q.start \in Nat
      BY <1>1, <1>4
    <3>. HIDE <1>1, <1>4
    <3>. QED
      BY <2>1, <3>1, StartingFromListing
  <2>. QED
    BY <2>2 DEF t
<1>6. Range(o) \subseteq had
  BY <1>1, RangeOfSeq
<1>7. ASSUME NEW q \in Range(o)
      PROVE  o # <<>> /\ Head(o) \in Range(o) /\ x.start <= Head(o).start /\ Head(o).start <= q.start
  <2>1. o # <<>>
    BY <1>1, EmptySeq DEF Range
  <2>2. /\ Head(o) \in had /\ Head(o) \in Range(o)
        /\ Range(o) = Range(Tail(o)) \union {Head(o)}
        /\ \A p \in Range(Tail(o)) : Head(o).start < p.start
    BY <1>1, <1>3, <2>1, OldHead
  <2>. QED
    BY <1>4, <1>6, <2>1, <2>2
<1>. HIDE DEF x, rest
<1>8. y = File!Merged(s, had)
  <2>1. CASE \E q \in Range(o) : q.start = x.start
    <3>1. PICK q \in Range(o) : q.start = x.start
      BY <2>1
    <3>2. o # <<>> /\ Head(o) \in Range(o) /\ Head(o).start = x.start
      BY <1>4, <1>6, <1>7, <3>1
    <3>3. \A p \in done : p.start # s.start
      BY <1>2, <1>3, <1>6, <3>2 DEF DistinctStarts
    <3>4. x = s
      BY <1>2, <3>3, MergedWithNone
    <3>5. File!Merged(s, had) = MergeSlotDesc(s, Head(o))
      BY <1>2, <1>3, <1>6, <3>2, MergedWith
    <3>6. y = MergeSlotDesc(x, Head(o))
      BY <1>4, <3>2 DEF x
    <3>. QED
      BY <3>4, <3>5, <3>6
  <2>2. CASE \A q \in Range(o) : q.start # x.start
    <3>1. {q \in done : q.start = s.start} = {q \in had : q.start = s.start}
      BY <1>2, <2>2
    <3>2. x = File!Merged(s, had)
      BY <1>2, <3>1, SameInSet
    <3>3. y = x
      <4>1. CASE o # <<>>
        <5>1. Head(o) \in Range(o)
          BY <1>1, <1>3, <4>1, OldHead
        <5>2. MergeSlotDesc(x, Head(o)) = x
          BY <2>2, <5>1 DEF MergeSlotDesc
        <5>. QED
          BY <5>2 DEF x
      <4>2. CASE o = <<>>
        BY <4>2 DEF x
      <4>. QED
        BY <4>1, <4>2
    <3>. QED
      BY <3>2, <3>3
  <2>. QED
    BY <2>1, <2>2
<1>9. gone = done \union {q \in Range(o) : q.start < EndOf(x)}
  BY <1>4, <1>5, <1>6
<1>10. ASSUME NEW q \in Range(o), q.start < EndOf(x)
       PROVE  File!Overlap(s, q)
  <2>1. q \in had /\ Head(o) \in had /\ x.start <= Head(o).start /\ Head(o).start <= q.start
    BY <1>6, <1>7
  <2>2. x.start <= q.start
    BY <1>4, <2>1
  <2>3. s.start <= q.start /\ q.start < EndOf(s)
    BY <1>2, <1>10, <2>2
  <2>. QED
    BY <1>2, <1>4, <2>1, <2>3, SameEnds DEF File!Overlap
<1>11. Free(gone) = Free(done)
  BY <1>2, <1>9, <1>10
<1>12. \A q \in gone : q.start < EndOf(s)
  BY <1>1, <1>2, <1>9
<1>13. \A i \in 1 .. k + 1 : \A q \in Range(rest) : EndOf(cap[i]) <= q.start
  <2>1. \A q \in Range(rest) : q \in Range(o) /\ EndOf(s) <= q.start
    BY <1>2, <1>4, <1>5, <1>6
  <2>2. \A i \in 1 .. k + 1 : i \in 1 .. k \/ i = k + 1
    <3>1. k \in Nat
      BY <1>1
    <3>. HIDE DEF k
    <3>. QED
      BY <3>1
  <2>. QED
    BY <1>1, <2>1, <2>2
<1>14. w \union {Exported(y, c)} = {Text(i) : i \in 1 .. k + 1} \union {q.xml : q \in Free(gone)}
  <2>1. 1 .. k + 1 = 1 .. k \union {k + 1}
    BY <1>1
  <2>2. Exported(y, c) = Text(k + 1)
    BY <1>8
  <2>. HIDE DEF Text, Free, k
  <2>. QED
    BY <1>1, <1>11, <2>1, <2>2
<1>15. Tail(n) # <<>> => /\ Tail(n)[1] = File!Merged(cap[k + 2], gone)
                         /\ \A q \in gone : q.start < EndOf(cap[k + 2])
  <2>1. SUFFICES ASSUME Tail(n) # <<>>
                 PROVE  /\ Tail(n)[1] = File!Merged(cap[k + 2], gone)
                        /\ \A q \in gone : q.start < EndOf(cap[k + 2])
    OBVIOUS
  <2>2. Len(n) \in Nat /\ Len(n) >= 2
    BY <1>2, <2>1, EmptySeq
  <2>3. 1 \in 1 .. Len(n) - 1 /\ k + 2 \in 1 .. Len(cap) /\ k + 1 < k + 2 /\ k + 1 + 1 = k + 2
    <3>1. k \in Nat /\ Len(cap) = k + Len(n) /\ Len(n) \in Nat
      BY <1>1, <1>2, <1>3
    <3>. HIDE DEF k
    <3>. QED
      BY <2>2, <3>1
  <2>4. Tail(n)[1] = cap[k + 2]
    BY <1>2, <2>3
  <2>5. cap[k + 2] \in Slots /\ EndOf(s) <= cap[k + 2].start
    BY <1>2, <1>3, <2>3, ElementOfSeq DEF Apart
  <2>6. \A q \in gone : q.start < cap[k + 2].start /\ q.start < EndOf(cap[k + 2])
    BY <1>2, <1>4, <1>12, <2>5, SlotTimes
  <2>7. \A q \in gone : q.start # cap[k + 2].start
    BY <1>4, <2>5, <2>6, SlotTimes
  <2>. QED
    BY <2>4, <2>6, <2>7, MergedWithNone
<1>16. Len(cap) - Len(Tail(n)) = k + 1 /\ k + 1 \in Nat
  BY <1>1, <1>2, <1>3
<1>17. \A i \in 2 .. Len(Tail(n)) : Tail(n)[i] = cap[k + 1 + i]
  BY <1>2
<1>. HIDE DEF k
<1>18. Progress(cap, had, c, Tail(n), rest, w \union {Exported(y, c)})
  <2>1. k + 1 + 1 = k + 2
    BY <1>1
  <2>. QED
    BY <1>2, <1>5, <1>12, <1>13, <1>14, <1>15, <1>16, <1>17, <2>1 DEF Progress
<1>. QED
  BY <1>2, <1>18 DEF x, rest

(* When no slot is left, the old programmes left overlap none.             *)
LEMMA OnlyOldStep ==
  ASSUME NEW cap, NEW had, Input(cap, had), NEW c, NEW o, NEW w,
         Progress(cap, had, c, <<>>, o, w), o # <<>>
  PROVE  Progress(cap, had, c, <<>>, Tail(o), w \union {Head(o).xml})
<1>. DEFINE p == Head(o)
            done == had \ Range(o)
            Free(S) == {q \in S : \A i \in 1 .. Len(cap) : ~File!Overlap(cap[i], q)}
<1>1. /\ o \in Seq(had) /\ Ascending(o)
      /\ \A i \in 1 .. Len(cap) : \A q \in Range(o) : EndOf(cap[i]) <= q.start
      /\ w = {Exported(File!Merged(cap[i], had), c) : i \in 1 .. Len(cap)} \union {q.xml : q \in Free(done)}
      /\ Len(cap) - Len(<<>>) = Len(cap) /\ Len(cap) \in Nat
      /\ cap \in Seq(Slots) /\ had \in SUBSET Readable
      /\ <<>> \in Seq(Slots) /\ Len(<<>>) = 0
  <2>1. Len(<<>>) = 0 /\ Len(cap) \in Nat /\ Len(cap) - 0 = Len(cap) /\ <<>> \in Seq(Slots)
    BY EmptySeq DEF Input
  <2>. QED
    BY <2>1 DEF Progress, Input
<1>2. /\ p \in had /\ p \in Range(o)
      /\ Tail(o) \in Seq(had) /\ Ascending(Tail(o))
      /\ Range(o) = Range(Tail(o)) \union {p}
      /\ had \ Range(Tail(o)) = done \union {p}
  BY <1>1, OldHead
<1>3. ASSUME NEW i \in 1 .. Len(cap)
      PROVE  ~File!Overlap(cap[i], p)
  <2>1. cap[i] \in Slots /\ EndOf(cap[i]) <= p.start
    BY <1>1, <1>2, ElementOfSeq
  <2>. QED
    BY <1>1, <1>2, <2>1, SlotTimes, SameEnds DEF File!Overlap
<1>4. Free(done \union {p}) = Free(done) \union {p}
  BY <1>3
<1>. HIDE DEF p
<1>5. w \union {p.xml} = {Exported(File!Merged(cap[i], had), c) : i \in 1 .. Len(cap)}
                       \union {q.xml : q \in Free(done \union {p})}
  BY <1>1, <1>4
<1>. QED
  BY <1>1, <1>2, <1>5 DEF Progress, p

(* What has been written when both lists are empty.                        *)
LEMMA AllOldStep ==
  ASSUME NEW cap, NEW had, Input(cap, had), NEW c, NEW w,
         Progress(cap, had, c, <<>>, <<>>, w)
  PROVE  w = {Exported(File!Merged(cap[i], had), c) : i \in 1 .. Len(cap)}
               \union {p.xml : p \in {q \in had : \A i \in 1 .. Len(cap) : ~File!Overlap(cap[i], q)}}
<1>1. Len(<<>>) = 0 /\ Len(cap) \in Nat /\ Len(cap) - 0 = Len(cap)
  BY EmptySeq DEF Input
<1>2. Range(<<>>) = {} /\ had \ {} = had
  BY DEF Range
<1>. QED
  BY <1>1, <1>2 DEF Progress

(* Nothing has been written when both lists are full.                      *)
LEMMA FirstStep ==
  ASSUME NEW cap, NEW had, Input(cap, had), IsFiniteSet(had), NEW c
  PROVE  Progress(cap, had, c, cap, InOrder(had), {})
<1>1. /\ cap \in Seq(Slots) /\ Len(cap) \in Nat
      /\ had \subseteq Readable /\ DistinctStarts(had)
  BY DEF Input
<1>2. \A p \in had : p.start \in Nat
  BY <1>1, SlotTimes
<1>3. /\ InOrder(had) \in Seq(had) /\ Ascending(InOrder(had))
      /\ Range(InOrder(had)) = had
  BY <1>1, <1>2, InOrderListing
<1>4. Len(cap) - Len(cap) = 0 /\ had \ had = {} /\ 1 .. 0 = {}
  BY <1>1
<1>5. File!Merged(cap[1], {}) = cap[1]
  BY MergedWithNone
<1>6. \A i \in 2 .. Len(cap) : cap[i] = cap[0 + i]
  BY <1>1
<1>7. 0 + 1 = 1 /\ 0 \in Nat
  OBVIOUS
<1>. QED
  BY <1>1, <1>3, <1>4, <1>5, <1>6, <1>7 DEF Progress

(* What a run finds in a capture that is not expired.                      *)
LEMMA CurrentListing ==
  ASSUME NEW c \in Channel, NEW s \in Captures[c], NEW t
  PROVE  /\ Current(s, t) \in Seq(SlotRecords) /\ Apart(Current(s, t))
         /\ EndsAfterStart => Current(s, t) \in Seq(Slots)
<1>. DEFINE I == {i \in DOMAIN s : Unexpired(s[i], t)}
            N == Cardinality(I)
            R == {ij \in I \X I : ij[1] < ij[2]}
            g == [n \in 1 .. N |-> Nth(I, n)]
            r == Current(s, t)
<1>1. /\ s \in Seq(SlotRecords)
      /\ \A i, j \in 1 .. Len(s) : i < j => EndOf(s[i]) <= s[j].start
  BY MergeAssumption DEF SlotRecords
<1>2. Len(s) \in Nat /\ DOMAIN s = 1 .. Len(s)
  BY <1>1, LenProperties
<1>3. \A i \in 1 .. Len(s) : s[i] \in SlotRecords /\ (EndsAfterStart => s[i] \in Slots)
  BY <1>1, <1>2, ElementOfSeq DEF Slots, EndsAfterStart
<1>4. I \subseteq 1 .. Len(s) /\ IsFiniteSet(I) /\ N \in Nat
  <2>1. I \subseteq 1 .. Len(s)
    BY <1>2
  <2>2. IsFiniteSet(1 .. Len(s))
    BY <1>2, FS_Interval
  <2>. HIDE DEF I
  <2>. QED
    BY <1>2, <2>1, <2>2, FS_Subset, FS_CardinalityType
<1>5. \A i, j \in I : <<i, j>> \in R <=> i < j
  OBVIOUS
<1>6. TotalOrder(R, I)
  <2>1. \A i \in I : i \in Nat
    BY <1>2, <1>4
  <2>. HIDE DEF R, I
  <2>. QED
    BY <1>5, <2>1 DEF TotalOrder
<1>7. r = [n \in 1 .. N |-> s[g[n]]]
  <2>1. r = [n \in 1 .. N |-> s[Nth(I, n)]]
    BY DEF Current
  <2>2. \A n \in 1 .. N : g[n] = Nth(I, n)
    OBVIOUS
  <2>. HIDE DEF r, I, g
  <2>. QED
    BY <2>1, <2>2
<1>8. ASSUME NEW n \in 1 .. N
      PROVE  g[n] \in I /\ Rank(g[n], R, I) = n - 1
  <2>. DEFINE Under(i) == {j \in I : j < i}
  <2>1. ASSUME NEW i \in I PROVE Cardinality(Under(i)) = Rank(i, R, I)
    <3>1. Under(i) = {j \in I : <<j, i>> \in R}
      BY <1>5
    <3>. QED
      BY <3>1 DEF Rank
  <2>2. n - 1 \in 0 .. N - 1
    BY <1>4
  <2>. HIDE DEF R, I
  <2>3. PICK i \in I : Rank(i, R, I) = n - 1
    BY <1>4, <1>6, <2>2, RankOccurs
  <2>4. Cardinality(Under(i)) = n - 1
    BY <2>1, <2>3
  <2>5. g[n] = CHOOSE j \in I : Cardinality(Under(j)) = n - 1
    BY DEF Nth
  <2>. HIDE DEF Under, g
  <2>6. g[n] \in I /\ Cardinality(Under(g[n])) = n - 1
    BY <2>4, <2>5
  <2>. QED
    BY <2>1, <2>6
<1>9. g = [n \in 1 .. N |-> Nth(I, n)]
  OBVIOUS
<1>. HIDE DEF g, r, R, I
<1>10. /\ Len(g) = N
       /\ \A i, j \in 1 .. N : i < j => <<g[i], g[j]>> \in R
  <2>1. g \in [1 .. N -> I]
    <3>. HIDE DEF N
    <3>. QED
      BY <1>8, <1>9
  <2>. QED
    BY <1>4, <1>6, <1>8, <2>1, Listing
<1>11. ASSUME NEW n \in 1 .. N PROVE g[n] \in 1 .. Len(s) /\ r[n] = s[g[n]]
  BY <1>4, <1>7, <1>8
<1>12. r \in [1 .. N -> SlotRecords] /\ (EndsAfterStart => r \in [1 .. N -> Slots])
  <2>1. \A n \in 1 .. N : s[g[n]] \in SlotRecords /\ (EndsAfterStart => s[g[n]] \in Slots)
    BY <1>3, <1>11
  <2>. HIDE DEF N
  <2>. QED
    BY <1>7, <2>1
<1>13. /\ r \in Seq(SlotRecords) /\ Len(r) = N
       /\ EndsAfterStart => r \in Seq(Slots)
  <2>. HIDE DEF N
  <2>. QED
    BY <1>4, <1>12
<1>14. Apart(r)
  <2>1. SUFFICES ASSUME NEW i \in 1 .. N, NEW j \in 1 .. N, i < j
                 PROVE  EndOf(r[i]) <= r[j].start
    BY <1>13 DEF Apart
  <2>2. g[i] < g[j]
    BY <1>5, <1>8, <1>10, <2>1
  <2>. QED
    BY <1>1, <1>11, <2>2
<1>. QED
  BY <1>13, <1>14 DEF r

-----------------------------------------------------------------------------
(* The file                                                                *)

(* The entries read of a file of programmes: finitely many, no two of a    *)
(* channel with the same start, and each of a programme in the file.       *)
LEMMA ReadingParts ==
  ASSUME NEW F, IsFiniteSet(F), F \subseteq Programmes,
         NEW t, NEW S \in Readings(F, t)
  PROVE  /\ IsFiniteSet(S) /\ S \in SUBSET Readable
         /\ \A e \in S : e.xml \in F /\ e = Imported(e.xml) /\ e.ch = e.xml.ch
         /\ DistinctKeys(S)
         /\ \A p \in F : Recent(Imported(p), t) =>
              \E e \in S : KeyOf(e) = KeyOf(Imported(p))
<1>. DEFINE T == {Imported(p) : p \in F}
<1>1. S \subseteq Entries(F, t) /\ DistinctKeys(S)
      /\ {KeyOf(e) : e \in S} = {KeyOf(e) : e \in Entries(F, t)}
  BY DEF Readings
<1>2. Entries(F, t) = {e \in T : Recent(e, t)}
  BY DEF Entries
<1>3. T \subseteq Readable /\ \A e \in T : e.xml \in F /\ e = Imported(e.xml) /\ e.ch = e.xml.ch
  <2>1. \A p \in F : Imported(p).xml = p /\ Imported(p).ch = p.ch
    BY DEF Imported
  <2>. QED
    BY <2>1 DEF Readable
<1>4. IsFiniteSet(T)
  <2>. DEFINE f == [p \in F |-> Imported(p)]
  <2>1. f \in Surjection(F, T)
    BY DEF Surjection
  <2>. HIDE DEF f, T
  <2>. QED
    BY <2>1, FS_Surjection
<1>5. S \subseteq T
  BY <1>1, <1>2
<1>6. IsFiniteSet(S)
  <2>. HIDE DEF T
  <2>. QED
    BY <1>4, <1>5, FS_Subset
<1>8. ASSUME NEW p \in F, Recent(Imported(p), t)
      PROVE  \E e \in S : KeyOf(e) = KeyOf(Imported(p))
  <2>1. Imported(p) \in Entries(F, t)
    BY <1>2, <1>8
  <2>2. KeyOf(Imported(p)) \in {KeyOf(e) : e \in S}
    BY <1>1, <2>1
  <2>. QED
    BY <2>2
<1>. QED
  BY <1>1, <1>3, <1>5, <1>6, <1>8

(* The start is the key of an entry among those of a channel.              *)
LEMMA ChannelStarts ==
  ASSUME NEW S, DistinctKeys(S), NEW c
  PROVE  DistinctStarts({e \in S : e.ch = c})
BY DEF DistinctStarts, DistinctKeys, KeyOf

(* What a run has read of its channel.                                     *)
LEMMA MineParts ==
  ASSUME TypeInv, pc = "merge"
  PROVE  /\ IsFiniteSet(read) /\ read \in SUBSET Readable
         /\ \A e \in read : e.xml \in file_prog /\ e = Imported(e.xml) /\ e.ch = e.xml.ch
         /\ IsFiniteSet(Mine) /\ Mine \in SUBSET Readable /\ DistinctStarts(Mine)
<1>1. /\ IsFiniteSet(file_prog) /\ file_prog \subseteq Programmes
      /\ read \in Readings(file_prog, now)
  BY DEF TypeInv
<1>2. /\ IsFiniteSet(read) /\ read \in SUBSET Readable
      /\ \A e \in read : e.xml \in file_prog /\ e = Imported(e.xml) /\ e.ch = e.xml.ch
      /\ DistinctKeys(read)
  BY <1>1, ReadingParts
<1>. QED
  BY <1>2, FS_Subset, ChannelStarts DEF Mine

(* What a run imports is what the steps of the merge need.                 *)
LEMMA RunInput ==
  ASSUME EndsAfterStart, TypeInv, MergeInv, pc = "merge"
  PROVE  Input(captured, Mine)
<1>1. PICK s \in Captures[own] : captured = Current(s, now)
  BY DEF MergeInv
<1>2. own \in Channel
  BY DEF TypeInv
<1>3. captured \in Seq(Slots) /\ Apart(captured)
  BY <1>1, <1>2, CurrentListing
<1>. QED
  BY <1>3, MineParts DEF Input

(* The steps of a run add up to the update of the file.                    *)
LEMMA RunUpdates ==
  ASSUME EndsAfterStart, TypeInv, MergeInv, EndRun
  PROVE  \E s \in Captures[own] :
           /\ captured = Current(s, now) /\ File!Update(own, s)
           /\ file_prog' = {Exported(File!Merged(captured[i], Mine), own) : i \in 1 .. Len(captured)}
                \union {p.xml : p \in {q \in Mine : \A i \in 1 .. Len(captured) : ~File!Overlap(captured[i], q)}}
                \union {p.xml : p \in read \ Mine}
<1>. DEFINE Written == {Exported(File!Merged(captured[i], Mine), own) : i \in 1 .. Len(captured)}
            Free == {q \in Mine : \A i \in 1 .. Len(captured) : ~File!Overlap(captured[i], q)}
<1>1. /\ pc = "merge" /\ new = <<>> /\ old = <<>>
      /\ file_chn' = chn \union {own}
      /\ file_prog' = out \union {p.xml : p \in {q \in read : q.ch # own}}
      /\ UNCHANGED now
  BY DEF EndRun, Forget
<1>2. PICK s \in Captures[own] : captured = Current(s, now)
  BY <1>1 DEF MergeInv
<1>3. /\ captured # <<>>
      /\ read \in Readings(file_prog, now) /\ chn = {p.ch : p \in read}
      /\ Progress(captured, Mine, own, <<>>, <<>>, out)
  BY <1>1 DEF TypeInv, MergeInv
<1>4. Input(captured, Mine)
  BY <1>1, RunInput
<1>5. out = Written \union {p.xml : p \in Free}
  BY <1>3, <1>4, AllOldStep
<1>6. {q \in read : q.ch # own} = read \ Mine
  BY DEF Mine
<1>7. file_prog' = Written \union {p.xml : p \in Free} \union {p.xml : p \in read \ Mine}
  BY <1>1, <1>5, <1>6
<1>8. File!Update(own, s)
  <2>. DEFINE cap == File!Current(s, now)
  <2>1. cap = captured /\ cap # <<>> /\ DOMAIN cap = 1 .. Len(captured)
    BY <1>2, <1>3, <1>4, SameCurrent, LenProperties DEF Input
  <2>2. Written = {File!Exported(File!Merged(captured[i], Mine), own) : i \in 1 .. Len(captured)}
    BY SameText
  <2>3. read \in File!Readings(file_prog, now) /\ Mine = {p \in read : p.ch = own}
    BY <1>3, SameReadings DEF Mine
  <2>. HIDE DEF cap, Written, Mine
  <2>4. file_prog' = {File!Exported(File!Merged(cap[i], Mine), own) : i \in DOMAIN cap}
            \union {p.xml : p \in {q \in Mine : \A i \in DOMAIN cap : ~File!Overlap(cap[i], q)}}
            \union {p.xml : p \in read \ Mine}
    BY <1>7, <2>1, <2>2
  <2>5. file_chn' = {own} \union {p.ch : p \in read} /\ now' = now
    BY <1>1, <1>3
  <2>. QED
    BY <2>1, <2>3, <2>4, <2>5 DEF File!Update, cap
<1>. QED
  BY <1>2, <1>7, <1>8

(* The update keeps the file in order: slots and the programmes kept do    *)
(* not overlap.                                                            *)
LEMMA UpdateKeepsOrder ==
  ASSUME EndsAfterStart, TypeInv, MergeInv, FileInOrder, EndRun
  PROVE  FileInOrder'
<1>. DEFINE cap == captured
            Written == {Exported(File!Merged(cap[i], Mine), own) : i \in 1 .. Len(cap)}
            Free == {q \in Mine : \A i \in 1 .. Len(cap) : ~File!Overlap(cap[i], q)}
<1>0. pc = "merge"
  BY DEF EndRun
<1>1. own \in Channel /\ file_prog \subseteq Programmes
  BY DEF TypeInv
<1>2. /\ cap \in Seq(Slots) /\ Apart(cap)
      /\ Mine \in SUBSET Readable /\ DistinctStarts(Mine)
  BY <1>0, RunInput DEF Input
<1>3. Len(cap) \in Nat /\ \A i \in 1 .. Len(cap) : cap[i] \in Slots
  BY <1>2, LenProperties, ElementOfSeq
<1>4. file_prog' = Written \union {p.xml : p \in Free} \union {p.xml : p \in read \ Mine}
  BY RunUpdates
<1>5. \A e \in read : e.xml \in file_prog /\ e = Imported(e.xml) /\ e.ch = e.xml.ch
  BY <1>0, MineParts
<1>. HIDE DEF cap
<1>6. ASSUME NEW i \in 1 .. Len(cap)
      PROVE  LET p == Exported(File!Merged(cap[i], Mine), own) IN
             /\ p \in Programmes /\ p.ch = own /\ p.start = cap[i].start
             /\ p.start \in Nat /\ OldEnd(p) \in Nat /\ OldEnd(p) <= EndOf(cap[i])
  <2>. DEFINE y == File!Merged(cap[i], Mine)
  <2>1. y \in Slots /\ y.start = cap[i].start /\ y.stop = cap[i].stop
    BY <1>2, <1>3, MergedType
  <2>2. EndOf(y) = EndOf(cap[i]) /\ y \in SlotRecords
    BY <2>1 DEF EndOf, Slots
  <2>. HIDE DEF y
  <2>3. /\ Exported(y, own) \in Programmes /\ Exported(y, own).ch = own
        /\ Exported(y, own).start = y.start /\ OldEnd(Exported(y, own)) <= EndOf(y)
    BY <1>1, <2>2, ExportedType
  <2>4. \A p \in Programmes : p.start \in Nat /\ OldEnd(p) \in Nat
    BY DEF Programmes, OldEnd, NoTime
  <2>. QED
    BY <2>1, <2>2, <2>3, <2>4 DEF y
<1>7. ASSUME NEW i \in 1 .. Len(cap), NEW e \in Free, Told(e.xml)
      PROVE  LET q == e.xml IN
             /\ q.start \in Nat /\ q.start # cap[i].start
             /\ cap[i].start < q.start => EndOf(cap[i]) <= q.start
             /\ q.start < cap[i].start => OldEnd(q) <= cap[i].start
  <2>1. /\ e.start \in Nat /\ OldEnd(e) \in Nat
        /\ cap[i].start \in Nat /\ EndOf(cap[i]) \in Nat /\ cap[i].start < EndOf(cap[i])
    BY <1>2, <1>3, SlotTimes
  <2>2. ~File!Overlap(cap[i], e)
    OBVIOUS
  <2>3. e = Imported(e.xml)
    BY <1>5 DEF Mine
  <2>4. e.xml.start = e.start /\ e.xml.stop = e.stop
    BY <1>7, <2>3 DEF Told
  <2>5. OldEnd(e.xml) = OldEnd(e)
    BY <2>4 DEF OldEnd
  <2>. QED
    BY <2>1, <2>2, <2>4, <2>5, SameEnds DEF File!Overlap
<1>8. FileInOrder'
  <2>1. SUFFICES ASSUME NEW p \in file_prog', NEW q \in file_prog', p.ch = q.ch, p # q,
                        Told(p), Told(q)
                 PROVE  p.start # q.start /\ (p.start < q.start => OldEnd(p) <= q.start)
    BY DEF FileInOrder
  <2>2. CASE p \in Written /\ q \in Written
    <3>1. PICK i \in 1 .. Len(cap) : p = Exported(File!Merged(cap[i], Mine), own)
      BY <2>2
    <3>2. PICK j \in 1 .. Len(cap) : q = Exported(File!Merged(cap[j], Mine), own)
      BY <2>2
    <3>3. i # j
      BY <2>1, <3>1, <3>2
    <3>4. (i < j => EndOf(cap[i]) <= cap[j].start) /\ (j < i => EndOf(cap[j]) <= cap[i].start)
      BY <1>2 DEF Apart
    <3>5. /\ p.start = cap[i].start /\ OldEnd(p) <= EndOf(cap[i]) /\ OldEnd(p) \in Nat
          /\ q.start = cap[j].start
      BY <1>6, <3>1, <3>2
    <3>6. /\ cap[i].start \in Nat /\ EndOf(cap[i]) \in Nat /\ cap[i].start < EndOf(cap[i])
          /\ cap[j].start \in Nat /\ EndOf(cap[j]) \in Nat /\ cap[j].start < EndOf(cap[j])
      BY <1>3, SlotTimes
    <3>7. i < j \/ j < i
      BY <1>3, <3>3
    <3>. QED
      BY <3>4, <3>5, <3>6, <3>7
  <2>3. CASE p \in Written /\ q \in {e.xml : e \in Free}
    <3>1. PICK i \in 1 .. Len(cap) : p = Exported(File!Merged(cap[i], Mine), own)
      BY <2>3
    <3>2. p.start = cap[i].start /\ OldEnd(p) <= EndOf(cap[i]) /\ OldEnd(p) \in Nat
      BY <1>6, <3>1
    <3>3. PICK e \in Free : q = e.xml
      BY <2>3
    <3>. HIDE DEF Free, Written
    <3>4. /\ q.start \in Nat /\ q.start # cap[i].start
          /\ cap[i].start < q.start => EndOf(cap[i]) <= q.start
      BY <1>7, <2>1, <3>3
    <3>5. EndOf(cap[i]) \in Nat
      BY <1>3, SlotTimes
    <3>. QED
      BY <3>2, <3>4, <3>5
  <2>4. CASE p \in {e.xml : e \in Free} /\ q \in Written
    <3>1. PICK i \in 1 .. Len(cap) : q = Exported(File!Merged(cap[i], Mine), own)
      BY <2>4
    <3>2. q.start = cap[i].start
      BY <1>6, <3>1
    <3>3. PICK e \in Free : p = e.xml
      BY <2>4
    <3>. HIDE DEF Free, Written
    <3>4. /\ p.start # cap[i].start
          /\ p.start < cap[i].start => OldEnd(p) <= cap[i].start
      BY <1>7, <2>1, <3>3
    <3>. QED
      BY <3>2, <3>4
  <2>5. CASE p \notin Written /\ q \notin Written
    <3>1. \A r \in file_prog' : r \notin Written => r \in file_prog
      <4>1. \A e \in Free \union (read \ Mine) : e.xml \in file_prog
        BY <1>5 DEF Mine
      <4>. HIDE DEF Free, Written
      <4>. QED
        BY <1>4, <4>1
    <3>2. p \in file_prog /\ q \in file_prog
      BY <2>5, <3>1
    <3>. QED
      BY <2>1, <3>2 DEF FileInOrder
  <2>6. ASSUME p \in Written \/ q \in Written
        PROVE  p \notin {e.xml : e \in read \ Mine} /\ q \notin {e.xml : e \in read \ Mine}
    <3>1. \A r \in Written : r.ch = own
      BY <1>6
    <3>2. \A e \in read \ Mine : e.xml.ch # own
      BY <1>5 DEF Mine
    <3>. HIDE DEF Written
    <3>. QED
      BY <2>1, <2>6, <3>1, <3>2
  <2>. HIDE DEF Written, Free
  <2>. QED
    BY <1>4, <2>2, <2>3, <2>4, <2>5, <2>6
<1>. QED
  BY <1>8

-----------------------------------------------------------------------------
(* Types                                                                   *)

(* What is left from a time on is again a list of the same elements.       *)
LEMMA StartingFromType ==
  ASSUME NEW S, NEW s \in Seq(S), NEW t
  PROVE  StartingFrom(s, t) \in Seq(S)
<1>. DEFINE I == {i \in 1 .. Len(s) : s[i].start >= t}
<1>1. Len(s) \in Nat
  BY LenProperties
<1>2. CASE I = {}
  BY <1>2, EmptySeq DEF StartingFrom, SelectInSeq
<1>3. CASE I # {}
  <2>. DEFINE m == Min(I)
  <2>1. m \in I
    <3>1. I \in SUBSET Nat
      BY <1>1
    <3>. HIDE DEF I
    <3>. QED
      BY <1>3, <3>1, LeastInSet
  <2>2. SelectInSeq(s, LAMBDA y : y.start >= t) = m
    BY <1>3 DEF SelectInSeq
  <2>3. m \in 1 .. Len(s) /\ m # 0
    BY <1>1, <2>1
  <2>. HIDE DEF m
  <2>4. StartingFrom(s, t) = SubSeq(s, m, Len(s))
    BY <2>2, <2>3 DEF StartingFrom
  <2>. QED
    BY <1>1, <2>3, <2>4, SubSeqProperties
<1>. QED
  BY <1>2, <1>3

(* A run starts with what it scraped and what it read.                     *)
LEMMA StartRunType ==
  ASSUME TypeInv, NEW c \in Channel, NEW s \in Captures[c], StartRun(c, s)
  PROVE  /\ TypeInv' /\ old' = InOrder(Mine')
         /\ IsFiniteSet(Mine') /\ Mine' \in SUBSET Readable /\ DistinctStarts(Mine')
<1>1. /\ own' = c /\ captured' = Current(s, now) /\ new' = captured' /\ out' = {}
      /\ read' \in Imports /\ chn' = NonEmpty(read')
      /\ old' = InOrder({p \in read' : p.ch = c})
      /\ UNCHANGED <<file_chn, file_prog, now>>
  BY DEF StartRun, file
<1>2. IsFiniteSet(file_prog) /\ file_prog \subseteq Programmes /\ FileImportable
  BY DEF TypeInv
<1>3. read' \in Readings(file_prog, now)
  BY <1>1, <1>2 DEF Imports, FileImportable
<1>4. /\ IsFiniteSet(read') /\ read' \in SUBSET Readable
      /\ \A e \in read' : e.xml \in file_prog /\ e.ch = e.xml.ch
      /\ DistinctKeys(read')
  BY <1>2, <1>3, ReadingParts
<1>5. Mine' = {p \in read' : p.ch = c}
  BY <1>1 DEF Mine
<1>6. IsFiniteSet(Mine') /\ Mine' \in SUBSET Readable /\ DistinctStarts(Mine')
  BY <1>4, <1>5, FS_Subset, ChannelStarts
<1>7. old' = InOrder(Mine')
  BY <1>1, <1>5
<1>8. old' \in Seq(Mine') /\ Ascending(old)'
  <2>. DEFINE M == {p \in read' : p.ch = c}
  <2>1. IsFiniteSet(M) /\ DistinctStarts(M) /\ \A p \in M : p.start \in Nat
    BY <1>4, <1>5, <1>6, SlotTimes
  <2>. HIDE DEF M
  <2>2. InOrder(M) \in Seq(M) /\ Ascending(InOrder(M))
    BY <2>1, InOrderListing
  <2>3. old' \in Seq(M) /\ Ascending(old')
    BY <1>1, <2>2 DEF M
  <2>. QED
    BY <1>5, <2>3 DEF M, Ascending
<1>9. new' \in Seq(SlotRecords)
  BY <1>1, CurrentListing
<1>10. chn' = {p.ch : p \in read'}
  <2>1. \A e \in read' : e.ch \in file_chn
    BY <1>2, <1>4 DEF FileImportable
  <2>. QED
    BY <1>1, <2>1 DEF NonEmpty
<1>11. FileImportable' /\ now' = now /\ file_prog' = file_prog /\ own' \in Channel
  BY <1>1, <1>2 DEF FileImportable
<1>12. IsFiniteSet(out') /\ out' \subseteq {p \in Programmes : p.ch = own'}
  BY <1>1, FS_EmptySet
<1>. QED
  BY <1>3, <1>6, <1>7, <1>8, <1>9, <1>10, <1>11, <1>12 DEF TypeInv

(* A turn of the loop keeps the types: it shortens the lists and writes    *)
(* programmes of the channel.                                              *)
LEMMA LoopType ==
  ASSUME TypeInv, pc = "merge",
         UNCHANGED <<file, now, pc, own, captured, chn, read>>,
         new' \in Seq(SlotRecords), old' \in Seq(Mine), Ascending(old'),
         \/ out' = out
         \/ \E p \in Programmes : p.ch = own /\ out' = out \union {p}
  PROVE  TypeInv'
<1>1. UNCHANGED <<file_chn, file_prog, now, pc, own, chn, read>>
  BY DEF file
<1>2. Mine' = Mine /\ (Ascending(old)' <=> Ascending(old'))
  BY <1>1 DEF Mine, Ascending
<1>3. IsFiniteSet(out') /\ out' \subseteq {p \in Programmes : p.ch = own}
  BY FS_AddElement DEF TypeInv
<1>4. FileImportable'
  BY <1>1 DEF TypeInv, FileImportable
<1>. QED
  BY <1>1, <1>2, <1>3, <1>4 DEF TypeInv

(* The first of the old entries is one of the channel, and so are the      *)
(* others.                                                                 *)
LEMMA OldType ==
  ASSUME TypeInv, pc = "merge", old # <<>>
  PROVE  /\ Head(old) \in Readable
         /\ Tail(old) \in Seq(Mine) /\ Ascending(Tail(old))
         /\ Head(old).xml \in Programmes /\ Head(old).xml.ch = own
<1>1. Mine \in SUBSET Readable /\ old \in Seq(Mine) /\ Ascending(old)
  BY MineParts DEF TypeInv
<1>2. Head(old) \in Mine /\ Tail(old) \in Seq(Mine) /\ Ascending(Tail(old))
  BY <1>1, OldHead
<1>3. \A e \in Mine : e.ch = own
  BY DEF Mine
<1>. QED
  BY <1>1, <1>2, <1>3, ReadableType

LEMMA TypeStep == TypeInv /\ [Next]_vars => TypeInv'
<1>. SUFFICES ASSUME TypeInv, [Next]_vars PROVE TypeInv'
  OBVIOUS
<1>1. ASSUME NEW c \in Channel, NEW s \in Captures[c], StartRun(c, s)
      PROVE  TypeInv'
  BY <1>1, StartRunType
<1>2. pc = "merge" => new \in Seq(SlotRecords) /\ old \in Seq(Mine) /\ Ascending(old) /\ own \in Channel
  BY DEF TypeInv
<1>3. pc = "merge" /\ new # <<>> =>
        Head(new) \in SlotRecords /\ Tail(new) \in Seq(SlotRecords) /\ new[1] = Head(new)
  BY <1>2, HeadTailProperties
<1>4. ASSUME pc = "merge", new # <<>>, NEW t
      PROVE  <<Head(new)>> \o StartingFrom(Tail(new), t) \in Seq(SlotRecords)
  <2>1. Head(new) \in SlotRecords /\ Tail(new) \in Seq(SlotRecords)
    BY <1>3, <1>4
  <2>2. StartingFrom(Tail(new), t) \in Seq(SlotRecords)
    BY <2>1, StartingFromType
  <2>3. <<Head(new)>> \in Seq(SlotRecords)
    BY <2>1
  <2>. QED
    BY <2>2, <2>3, ConcatProperties
<1>5. CASE DiscardOld
  <2>. DEFINE x == MergeSlotDesc(Head(new), Head(old))
  <2>1. pc = "merge" /\ new # <<>> /\ old # <<>>
    BY <1>5 DEF DiscardOld
  <2>2. x \in SlotRecords
    BY <1>3, <2>1, OldType, MergedRecord
  <2>3. new' = [new EXCEPT ![1] = x]
    BY <1>3, <1>5, <2>1 DEF DiscardOld
  <2>. HIDE DEF x
  <2>4. new' \in Seq(SlotRecords)
    BY <1>2, <2>1, <2>2, <2>3
  <2>5. old' = Tail(old) /\ out' = out
    BY <1>5 DEF DiscardOld
  <2>6. UNCHANGED <<file, now, pc, own, captured, chn, read>>
    BY <1>5 DEF DiscardOld
  <2>. QED
    BY <2>1, <2>4, <2>5, <2>6, OldType, LoopType
<1>6. CASE ChooseNew
  <2>. DEFINE x == Head(new)
              y == IF old # <<>> /\ Head(old).start < EndOf(x)
                   THEN MergeSlotDesc(x, Head(old)) ELSE x
  <2>1. /\ pc = "merge" /\ new # <<>>
        /\ out' = out \union {Exported(y, own)}
        /\ old' = StartingFrom(old, EndOf(x))
        /\ new' = StartingFrom(Tail(new), EndOf(x))
        /\ UNCHANGED <<file, now, pc, own, captured, chn, read>>
    BY <1>6 DEF ChooseNew
  <2>2. x \in SlotRecords /\ new' \in Seq(SlotRecords)
    BY <1>3, <2>1, StartingFromType
  <2>3. y \in SlotRecords
    BY <2>1, <2>2, OldType, MergedRecord
  <2>4. EndOf(x) \in Nat
    BY <2>2 DEF SlotRecords, EndOf, NoTime
  <2>. HIDE DEF x, y
  <2>5. old' \in Seq(Mine) /\ Ascending(old')
    <3>1. Mine \in SUBSET Readable
      BY <2>1, MineParts
    <3>2. \A p \in Mine : p.start \in Nat
      BY <3>1, SlotTimes
    <3>. QED
      BY <1>2, <2>1, <2>4, <3>2, StartingFromListing
  <2>6. Exported(y, own) \in Programmes /\ Exported(y, own).ch = own
    BY <1>2, <2>1, <2>3, ExportedType
  <2>. QED
    BY <2>1, <2>2, <2>5, <2>6, LoopType
<1>7. CASE ChooseOld
  <2>1. pc = "merge" /\ new # <<>> /\ old # <<>>
    BY <1>7 DEF ChooseOld
  <2>2. /\ out' = out \union {Head(old).xml} /\ old' = Tail(old)
        /\ new' = <<Head(new)>> \o StartingFrom(Tail(new), EndOf(Head(new)))
        /\ UNCHANGED <<file, now, pc, own, captured, chn, read>>
    BY <1>7 DEF ChooseOld
  <2>3. new' \in Seq(SlotRecords)
    BY <1>4, <2>1, <2>2
  <2>. QED
    BY <2>1, <2>2, <2>3, OldType, LoopType
<1>8. CASE OnlyOld
  <2>1. /\ pc = "merge" /\ old # <<>>
        /\ out' = out \union {Head(old).xml} /\ old' = Tail(old) /\ new' = new
        /\ UNCHANGED <<file, now, pc, own, captured, chn, read>>
    BY <1>8 DEF OnlyOld
  <2>. QED
    BY <1>2, <2>1, OldType, LoopType
<1>9. CASE EndRun
  <2>. DEFINE P == {p \in read : p.ch # own}
              Q == {p.xml : p \in P}
  <2>1. /\ pc = "merge" /\ pc' = "idle" /\ out' = {} /\ UNCHANGED <<now, own>>
        /\ file_chn' = chn \union {own} /\ file_prog' = out \union Q
    BY <1>9 DEF EndRun, Forget
  <2>2. IsFiniteSet(read) /\ \A e \in read : e.xml \in file_prog /\ e.ch = e.xml.ch
    BY <2>1, MineParts
  <2>3. IsFiniteSet(Q)
    <3>. DEFINE f == [p \in P |-> p.xml]
    <3>1. f \in Surjection(P, Q)
      BY DEF Surjection
    <3>2. IsFiniteSet(P)
      BY <2>2, FS_Subset
    <3>. HIDE DEF f, P, Q
    <3>. QED
      BY <3>1, <3>2, FS_Surjection
  <2>4. Q \subseteq file_prog /\ \A q \in Q : q.ch \in {p.ch : p \in read}
    BY <2>2
  <2>. HIDE DEF Q
  <2>5. /\ IsFiniteSet(out) /\ out \subseteq Programmes /\ \A p \in out : p.ch = own
        /\ file_prog \subseteq Programmes /\ chn = {p.ch : p \in read}
        /\ now \in Nat /\ own \in Channel
    BY <2>1 DEF TypeInv
  <2>6. IsFiniteSet(file_prog') /\ file_prog' \subseteq Programmes
    BY <2>1, <2>3, <2>4, <2>5, FS_Union
  <2>7. FileImportable'
    BY <2>1, <2>4, <2>5 DEF FileImportable
  <2>8. IsFiniteSet(out')
    BY <2>1, FS_EmptySet
  <2>. QED
    BY <2>1, <2>5, <2>6, <2>7, <2>8 DEF TypeInv
<1>10. CASE Wait
  <2>1. now' \in Nat
    BY <1>10, MergeAssumption DEF Wait
  <2>2. pc = "idle" /\ UNCHANGED <<file_chn, file_prog, pc, own, out>>
    BY <1>10 DEF Wait, file, run
  <2>. QED
    BY <2>1, <2>2 DEF TypeInv, FileImportable
<1>11. CASE UNCHANGED vars
  <2>1. UNCHANGED <<file_chn, file_prog, now, pc, own, captured, chn, read, new, old, out>>
    BY <1>11 DEF vars
  <2>2. Mine' = Mine /\ (Ascending(old)' <=> Ascending(old))
    BY <2>1 DEF Mine, Ascending
  <2>. QED
    BY <2>1, <2>2 DEF TypeInv, FileImportable
<1>. QED
  BY <1>1, <1>5, <1>6, <1>7, <1>8, <1>9, <1>10, <1>11 DEF Next

(* The invariants hold of an empty file.                                   *)
LEMMA MergeInit == Init => TypeInv /\ MergeInv /\ FileInOrder
<1>. SUFFICES ASSUME Init PROVE TypeInv /\ MergeInv /\ FileInOrder
  OBVIOUS
<1>1. file_prog = {} /\ out = {} /\ now = 0 /\ own \in Channel /\ pc = "idle"
  BY DEF Init
<1>. QED
  BY <1>1, FS_EmptySet DEF TypeInv, FileInOrder, FileImportable, MergeInv

LEMMA TypeInvariant == Spec => []TypeInv
<1>1. Init => TypeInv
  BY MergeInit
<1>. QED
  BY <1>1, TypeStep, PTL DEF Spec

-----------------------------------------------------------------------------
(* The merge                                                               *)

(* StartRun establishes the invariant of the merge.                        *)
LEMMA StartRunStep ==
  ASSUME EndsAfterStart, TypeInv, NEW c \in Channel, NEW s \in Captures[c], StartRun(c, s)
  PROVE  MergeInv'
<1>1. /\ own' = c /\ captured' = Current(s, now) /\ new' = captured'
      /\ Current(s, now) # <<>> /\ out' = {} /\ now' = now
  BY DEF StartRun
<1>2. captured' \in Seq(Slots) /\ Apart(captured')
  BY <1>1, CurrentListing
<1>3. /\ old' = InOrder(Mine')
      /\ IsFiniteSet(Mine') /\ Mine' \in SUBSET Readable /\ DistinctStarts(Mine')
  BY StartRunType
<1>4. Input(captured', Mine')
  BY <1>2, <1>3 DEF Input
<1>5. Progress(captured', Mine', own', new', old', out')
  BY <1>1, <1>3, <1>4, FirstStep
<1>. QED
  BY <1>1, <1>5 DEF MergeInv

(* A turn of the loop: only the lists and the programmes written change.   *)
LEMMA LoopStep ==
  ASSUME MergeInv, pc = "merge",
         UNCHANGED <<file, now, pc, own, captured, chn, read>>,
         Progress(captured, Mine, own, new', old', out')
  PROVE  MergeInv'
<1>1. Mine' = Mine
  BY DEF Mine
<1>. QED
  BY <1>1 DEF MergeInv

LEMMA MergeStep ==
  ASSUME EndsAfterStart
  PROVE  TypeInv /\ MergeInv /\ FileInOrder /\ [Next]_vars => (MergeInv /\ FileInOrder)'
<1>. SUFFICES ASSUME TypeInv, MergeInv, FileInOrder, [Next]_vars
              PROVE  (MergeInv /\ FileInOrder)'
  OBVIOUS
<1>0. UNCHANGED file => FileInOrder'
  BY DEF FileInOrder, file
<1>1. ASSUME NEW c \in Channel, NEW s \in Captures[c], StartRun(c, s)
      PROVE  (MergeInv /\ FileInOrder)'
  BY <1>0, <1>1, StartRunStep DEF StartRun
<1>2. CASE DiscardOld \/ ChooseNew \/ ChooseOld \/ OnlyOld \/ EndRun
  <2>. pc = "merge"
    BY <1>2 DEF DiscardOld, ChooseNew, ChooseOld, OnlyOld, EndRun
  <2>1. Input(captured, Mine)
    BY RunInput
  <2>2. Progress(captured, Mine, own, new, old, out)
    BY DEF MergeInv
  <2>3. CASE DiscardOld
    <3>1. Progress(captured, Mine, own, new', old', out')
      BY <2>1, <2>2, <2>3, DiscardOldStep DEF DiscardOld
    <3>. QED
      BY <1>0, <2>3, <3>1, LoopStep DEF DiscardOld
  <2>4. CASE ChooseNew
    <3>. DEFINE x == Head(new)
                y == IF old # <<>> /\ Head(old).start < EndOf(x)
                     THEN MergeSlotDesc(x, Head(old)) ELSE x
    <3>1. /\ new # <<>> /\ (old # <<>> => x.start <= Head(old).start)
          /\ out' = out \union {Exported(y, own)}
          /\ old' = StartingFrom(old, EndOf(x))
          /\ new' = StartingFrom(Tail(new), EndOf(x))
          /\ UNCHANGED <<file, now, pc, own, captured, chn, read>>
      BY <2>4 DEF ChooseNew
    <3>2. \E z : z = y
      OBVIOUS
    <3>3. Progress(captured, Mine, own, new', old', out')
      BY <2>1, <2>2, <3>1, <3>2, ChooseNewStep
    <3>. QED
      BY <1>0, <3>1, <3>3, LoopStep
  <2>5. CASE ChooseOld
    <3>1. Progress(captured, Mine, own, new', old', out')
      BY <2>1, <2>2, <2>5, ChooseOldStep DEF ChooseOld
    <3>. QED
      BY <1>0, <2>5, <3>1, LoopStep DEF ChooseOld
  <2>6. CASE OnlyOld
    <3>1. Progress(captured, Mine, own, new', old', out')
      BY <2>1, <2>2, <2>6, OnlyOldStep DEF OnlyOld
    <3>. QED
      BY <1>0, <2>6, <3>1, LoopStep DEF OnlyOld
  <2>7. CASE EndRun
    <3>1. FileInOrder'
      BY <2>7, UpdateKeepsOrder
    <3>2. pc' = "idle"
      BY <2>7 DEF EndRun
    <3>. QED
      BY <3>1, <3>2 DEF MergeInv
  <2>. QED
    BY <1>2, <2>3, <2>4, <2>5, <2>6, <2>7
<1>3. CASE Wait
  <2>1. pc' = "idle" /\ UNCHANGED file
    BY <1>3 DEF Wait
  <2>. QED
    BY <1>0, <2>1 DEF MergeInv
<1>4. CASE UNCHANGED vars
  <2>1. UNCHANGED <<file, now, pc, own, captured, chn, read, new, old, out>>
    BY <1>4 DEF vars, file
  <2>2. Mine' = Mine
    BY <2>1 DEF Mine
  <2>. QED
    BY <1>0, <2>1, <2>2 DEF MergeInv
<1>. QED
  BY <1>1, <1>2, <1>3, <1>4 DEF Next

LEMMA MergeInvariant ==
  ASSUME EndsAfterStart
  PROVE  Spec => []TypeInv /\ []MergeInv /\ []FileInOrder
BY MergeInit, TypeStep, MergeStep, PTL DEF Spec

-----------------------------------------------------------------------------
(* Theorems                                                                *)

(* Every file written can be read in full by the next run: each programme  *)
(* is of a channel declared.                                               *)
THEOREM FilesStayImportable == Spec => []FileImportable
<1>1. TypeInv => FileImportable
  BY DEF TypeInv
<1>. QED
  BY <1>1, TypeInvariant, PTL

(* However often the file is updated, by whatever captures, programmes of  *)
(* one channel whose times are read back as written neither overlap in it  *)
(* nor start at the same time; those of the hour that the import moves do  *)
(* not disturb the others.                                                 *)
THEOREM FilesStayInOrder ==
  ASSUME EndsAfterStart
  PROVE  Spec => []FileInOrder
BY MergeInvariant, PTL

(* The loop over two sorted lists, of which MergeNextSlot() looks at the   *)
(* heads only, comes to what XmltvFile says of the sets, also where times  *)
(* were moved: a run is one update, and all its steps but the last leave   *)
(* the file alone.                                                         *)
THEOREM RunsUpdateTheFile ==
  ASSUME EndsAfterStart
  PROVE  Spec => ImplementsFile
<1>1. Init => File!Init
  BY DEF Init, File!Init
<1>2. TypeInv /\ MergeInv /\ [Next]_vars => [File!Next]_<<file_chn, file_prog, now>>
  <2>. SUFFICES ASSUME TypeInv, MergeInv, [Next]_vars
                PROVE  File!Next \/ UNCHANGED <<file_chn, file_prog, now>>
    OBVIOUS
  <2>1. ASSUME NEW c \in Channel, NEW s \in Captures[c], StartRun(c, s)
        PROVE  UNCHANGED <<file_chn, file_prog, now>>
    BY <2>1 DEF StartRun, file
  <2>2. CASE DiscardOld \/ ChooseNew \/ ChooseOld \/ OnlyOld
    BY <2>2 DEF DiscardOld, ChooseNew, ChooseOld, OnlyOld, file
  <2>3. CASE EndRun
    <3>1. PICK s \in Captures[own] : File!Update(own, s)
      BY <2>3, RunUpdates
    <3>2. own \in Channel
      BY DEF TypeInv
    <3>. QED
      BY <3>1, <3>2 DEF File!Next
  <2>4. CASE Wait
    BY <2>4 DEF Wait, file, File!Next, File!Wait
  <2>5. CASE UNCHANGED vars
    BY <2>5 DEF vars
  <2>. QED
    BY <2>1, <2>2, <2>3, <2>4, <2>5 DEF Next
<1>3. ImplementsFile <=> File!Init /\ [][File!Next]_<<file_chn, file_prog, now>>
  BY DEF ImplementsFile, File!Spec
<1>. QED
  BY <1>1, <1>2, <1>3, MergeInvariant, PTL DEF Spec

(* A programme of the file that the import reads with its true times is    *)
(* known to the run.                                                       *)
LEMMA HadIsRead ==
  ASSUME TypeInv, pc = "merge", NEW p \in Had
  PROVE  Imported(p) \in Mine
<1>1. /\ p \in file_prog /\ p.ch = own /\ Recent(p, now) /\ Told(p)
      /\ \A q \in file_prog : q.ch = own /\ Stamp(q.start) = p.start => q = p
  BY DEF Had
<1>2. /\ IsFiniteSet(file_prog) /\ file_prog \subseteq Programmes
      /\ read \in Readings(file_prog, now)
  BY DEF TypeInv
<1>3. Imported(p).start = p.start /\ Imported(p).ch = own /\ Recent(Imported(p), now)
  BY <1>1 DEF Told, Recent, Imported
<1>4. /\ \A e \in read : e.xml \in file_prog /\ e = Imported(e.xml) /\ e.ch = e.xml.ch
      /\ \E e \in read : KeyOf(e) = KeyOf(Imported(p))
  BY <1>1, <1>2, <1>3, ReadingParts
<1>5. PICK e \in read : KeyOf(e) = KeyOf(Imported(p))
  BY <1>4
<1>6. e.start = p.start /\ e.ch = own
  BY <1>3, <1>5 DEF KeyOf
<1>7. e.start = Stamp(e.xml.start)
  BY <1>4 DEF Imported
<1>8. e.xml = p
  BY <1>1, <1>4, <1>6, <1>7
<1>. QED
  BY <1>4, <1>6, <1>8 DEF Mine

(* A programme captured again with the same times keeps a longer title and *)
(* the longer description, if the import reads its times as they are and   *)
(* no other programme with the same.                                       *)
THEOREM TextIsKept ==
  ASSUME EndsAfterStart
  PROVE  Spec => TextKept
<1>. DEFINE Kept1(p, i) ==
       LET x == captured[i] IN
       x.start = p.start /\ EndOf(x) = OldEnd(p) /\ SameTitle(x, p) /\ x.ref =>
         \E q \in file_prog' :
           /\ q.ch = own /\ q.start = p.start
           /\ q.title = p.title
           /\ p.desc > 0 => q.desc >= p.desc
           /\ x.desc > 0 => q.desc >= x.desc
     A == pc = "merge" /\ pc' = "idle" => \A p \in Had, i \in DOMAIN captured : Kept1(p, i)
<1>1. TypeInv /\ MergeInv /\ [Next]_vars => A
  <2>. SUFFICES ASSUME TypeInv, MergeInv, [Next]_vars, pc = "merge", pc' = "idle",
                       NEW p \in Had, NEW i \in DOMAIN captured
                PROVE  Kept1(p, i)
    OBVIOUS
  <2>1. EndRun
    BY DEF Next, StartRun, DiscardOld, ChooseNew, ChooseOld, OnlyOld, Wait, vars
  <2>2. /\ captured \in Seq(Slots) /\ Mine \in SUBSET Readable /\ DistinctStarts(Mine)
        /\ DOMAIN captured = 1 .. Len(captured)
    BY RunInput, LenProperties DEF Input
  <2>. DEFINE x == captured[i]
              e == Imported(p)
              y == MergeSlotDesc(x, e)
              q == Exported(y, own)
  <2>. SUFFICES ASSUME x.start = p.start, EndOf(x) = OldEnd(p), SameTitle(x, p), x.ref
                PROVE  \E r \in file_prog' :
                         /\ r.ch = own /\ r.start = p.start
                         /\ r.title = p.title
                         /\ p.desc > 0 => r.desc >= p.desc
                         /\ x.desc > 0 => r.desc >= x.desc
    OBVIOUS
  <2>3. x \in Slots /\ e \in Mine /\ e \in Readable
    BY <2>2, HadIsRead
  <2>4. /\ e.start = p.start /\ e.stop = p.stop /\ e.title = p.title /\ e.desc = p.desc
    BY DEF Had, Told, Imported
  <2>5. OldEnd(e) = OldEnd(p) /\ SameTitle(x, e)
    BY <2>4 DEF OldEnd, SameTitle
  <2>6. e.title \in {1, 2} /\ e.desc \in Nat \union {-1}
    BY <2>3, ReadableType
  <2>. HIDE DEF e
  <2>7. File!Merged(x, Mine) = y
    BY <2>2, <2>3, <2>4, MergedWith
  <2>8. q \in file_prog'
    BY <2>1, <2>2, <2>7, RunUpdates
  <2>9. /\ x.desc \in Nat /\ p.desc \in Int
        /\ x \in [title : {1, 2}, ref : BOOLEAN, desc : Nat,
                  start : Nat, stop : Nat \union {NoTime}]
    BY <2>3, <2>4, <2>6 DEF Slots, SlotRecords
  <2>. DEFINE d == IF p.desc > x.desc THEN p.desc ELSE x.desc
  <2>10. y = [x EXCEPT !.title = p.title, !.desc = d]
    BY <2>4, <2>5 DEF MergeSlotDesc
  <2>. HIDE DEF x, d
  <2>11. y.title = p.title /\ y.desc = d /\ y.start = x.start /\ y.ref = x.ref
    BY <2>9, <2>10
  <2>12. d \in Nat /\ (p.desc > 0 => d >= p.desc) /\ (x.desc > 0 => d >= x.desc) /\ (p.desc > 0 \/ x.desc > 0 => d > 0)
    BY <2>9 DEF d
  <2>. HIDE DEF y
  <2>13. /\ q.ch = own /\ q.start = p.start /\ q.title = p.title
         /\ p.desc > 0 => q.desc >= p.desc
         /\ x.desc > 0 => q.desc >= x.desc
    BY <2>11, <2>12 DEF Exported
  <2>. HIDE DEF q
  <2>. QED
    BY <2>8, <2>13
<1>2. TextKept <=> [][A]_vars
  BY DEF TextKept
<1>. HIDE DEF A
<1>. QED
  BY <1>1, <1>2, MergeInvariant, PTL DEF Spec
=============================================================================
