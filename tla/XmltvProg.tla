------------------------------ MODULE XmltvProg ------------------------------
(***************************************************************************)
(* Programmes of an XMLTV file, slots of a schedule captured from          *)
(* teletext, and what merging takes from one and from the other.           *)
(*                                                                         *)
(* A programme of the file is a record [title, desc, start, stop, ch], a   *)
(* slot of the new schedule [title, ref, desc, start, stop]: ref tells if  *)
(* a description page is referenced.  A programme that was imported is an  *)
(* entry: its text xml with the times as they were read.  Abstracted: XML, *)
(* sub-titles and feature flags.  A title is a number, of which title 1 is *)
(* the beginning of title 2; a description is its length, 0 if there is    *)
(* none and RefText if it is only the hint "(teletext nnn)".               *)
(* Times have two units to the hour; the second that counts for an unknown *)
(* duration is one unit.                                                   *)
(***************************************************************************)
EXTENDS XmltvTime, Sequences, FiniteSets, SequencesExt

CONSTANTS
  Channel,    \* channels captured
  Captures,   \* Captures[c]: schedules a run can scrape from channel c,
              \* lists of slots as they leave FilterOverlappingSlots()
  Expire,     \* value of -expire
  Clock       \* times at which runs are made

RefText  == -1
RunGuess == 4             \* 120 minutes, in case the stop time is unknown

EndOf(x) == IF x.stop = NoTime THEN x.start + 1 ELSE x.stop

(* What FilterOverlappingSlots() leaves of a schedule: slots sorted by     *)
(* their start, none of which ends after the next one starts.              *)
ASSUME MergeAssumption ==
  /\ Expire \in Nat /\ Clock \subseteq Nat /\ 0 \in Clock
  /\ \A c \in Channel : \A s \in Captures[c] :
       /\ s \in Seq([title : {1, 2}, ref : BOOLEAN, desc : Nat,
                     start : Nat, stop : Nat \union {NoTime}])
       /\ \A i \in 1 .. Len(s) : s[i].desc > 0 => s[i].ref
       /\ \A i, j \in 1 .. Len(s) :
            i < j => s[i].start <= s[j].start /\ EndOf(s[i]) <= s[j].start

(* What it leaves too is a slot that ends when or before it starts, if the *)
(* page says so; not so here.                                              *)
EndsAfterStart ==
  \A c \in Channel : \A s \in Captures[c] : \A i \in DOMAIN s : s[i].start < EndOf(s[i])

Recent(p, now) == p.start >= now - Expire

(* FilterExpiredSlots(): slots that ended more than Expire ago.            *)
Unexpired(x, now) == \/ x.stop # NoTime /\ x.stop >= now - Expire
                     \/ x.start + RunGuess >= now - Expire

(* The n-th least of a set of numbers.                                     *)
Nth(I, n) == CHOOSE i \in I : Cardinality({j \in I : j < i}) = n - 1

(* The slots left stay in their order.                                     *)
Current(slots, now) ==
  LET I == {i \in DOMAIN slots : Unexpired(slots[i], now)}
  IN [n \in 1 .. Cardinality(I) |-> slots[Nth(I, n)]]

(* ImportXmltvFile(): the entry made of a programme, which may end before  *)
(* it starts, and the key "start;channel" it is kept under.                *)
Imported(p) ==
  [title |-> p.title, desc |-> p.desc, start |-> Stamp(p.start),
   stop |-> IF p.stop = NoTime THEN NoTime ELSE Stamp(p.stop), ch |-> p.ch, xml |-> p]

KeyOf(e) == <<e.start, e.ch>>

DistinctKeys(S) == \A e, f \in S : KeyOf(e) = KeyOf(f) => e = f

Entries(progs, now) == {e \in {Imported(p) : p \in progs} : Recent(e, now)}

(* Of the programmes with the same key the last in the file is kept; the   *)
(* file is a set here, so any of them.                                     *)
Readings(progs, now) ==
  {S \in SUBSET Entries(progs, now) :
     DistinctKeys(S) /\ {KeyOf(e) : e \in S} = {KeyOf(e) : e \in Entries(progs, now)}}

(* The times of the programme are read back as they were written.          *)
Told(p) == Imported(p).start = p.start /\ Imported(p).stop = p.stop

(* Entries of a channel in the order of their start times, no two of which *)
(* are the same.                                                           *)
InOrder(S) ==
  [n \in 1 .. Cardinality(S) |->
     CHOOSE p \in S : Cardinality({q \in S : q.start < p.start}) = n - 1]

(* GetXmltvStopTime(), of an entry.                                        *)
OldEnd(p) == IF p.stop = NoTime THEN p.start ELSE p.stop

(* str_cmp_alnum(): the titles are equal or the new one begins the other.  *)
SameTitle(x, p) == x.title = p.title \/ (x.title = 1 /\ p.title = 2)

\* Mutant: the description of the old programme is always taken.
MergeSlotDescAlways(x, p) ==
  IF x.start = p.start /\ SameTitle(x, p)
  THEN [x EXCEPT !.title = p.title, !.desc = IF p.desc > 0 THEN p.desc ELSE @]
  ELSE x

(* MergeSlotDesc(): a longer title or description of an old programme is   *)
(* added to the slot that replaces it.  (A new slot without stop time is   *)
(* given one second before it gets here, so it never matches as unknown.)  *)
MergeSlotDesc(x, p) ==
  IF /\ x.start = p.start
     /\ EndOf(x) = OldEnd(p) \/ OldEnd(p) = p.start \/ EndOf(x) = x.start
     /\ SameTitle(x, p)
  THEN [x EXCEPT !.title = p.title,
                 !.desc = IF p.desc > @ THEN p.desc ELSE @]
  ELSE x

(* ExportTitle(): a description is written only where one is referenced.   *)
Exported(x, ch) ==
  [title |-> x.title,
   desc |-> IF ~x.ref THEN 0 ELSE IF x.desc > 0 THEN x.desc ELSE RefText,
   start |-> x.start, stop |-> x.stop, ch |-> ch]
=============================================================================
