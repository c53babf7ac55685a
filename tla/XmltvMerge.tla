----------------------------- MODULE XmltvMerge -----------------------------
(***************************************************************************)
(* The XMLTV file that successive runs of the grabber keep up to date:     *)
(* each run imports the file named by -merge (ImportXmltvFile), merges its *)
(* programmes of the captured channel with the new ones, one at a time     *)
(* (MergeNextSlot), and writes the result (ExportXmltv).                   *)
(***************************************************************************)
EXTENDS XmltvProg

VARIABLES
  file_chn,   \* channels declared in the file
  file_prog,  \* programmes in the file
  now,        \* the clock
  pc,         \* "idle", or "merge" while a run merges
  own,        \* m_ch_id: channel captured by this run
  captured,   \* its slots, as scraped
  chn,        \* m_merge_chn: channels imported
  read,       \* m_merge_prog, as imported
  new,        \* NewSlots: slots not merged yet
  old,        \* OldSlotList: its imported entries, not yet merged
  out         \* programmes written so far

file == <<file_chn, file_prog>>
run  == <<own, captured, chn, read, new, old, out>>
vars == <<file_chn, file_prog, now, pc, own, captured, chn, read, new, old, out>>

-----------------------------------------------------------------------------
(* Import                                                                  *)

(* What can be read of the programmes.  One of a channel that was not      *)
(* declared ends the import, what was read until then is kept: main()      *)
(* ignores the result.                                                     *)
Imports ==
  IF \A p \in file_prog : p.ch \in file_chn
  THEN Readings(file_prog, now)
  ELSE {S \in SUBSET Entries(file_prog, now) : DistinctKeys(S)}

NonEmpty(entries) == {c \in file_chn : \E p \in entries : p.ch = c}

(* A run that finds no programme at all writes no file.                    *)
StartRun(c, slots) ==
  /\ pc = "idle" /\ Current(slots, now) # <<>>
  /\ pc' = "merge" /\ own' = c
  /\ captured' = Current(slots, now) /\ new' = captured'
  /\ read' \in Imports
  /\ chn' = NonEmpty(read')
  /\ old' = InOrder({p \in read' : p.ch = c})
  /\ out' = {}
  /\ UNCHANGED <<file, now>>

-----------------------------------------------------------------------------
(* Merge                                                                   *)

(* What is left of s from the first element on that starts at t or later.  *)
StartingFrom(s, t) ==
  LET i == SelectInSeq(s, LAMBDA y : y.start >= t)
  IN IF i = 0 THEN <<>> ELSE SubSeq(s, i, Len(s))

\* Mutant: only what the new slot covers from its start on is discarded.
OverlappingLater(x, p) == p.start < EndOf(x) /\ p.start >= x.start

Overlapping(x, p) == p.start < EndOf(x) /\ OldEnd(p) > x.start

(* One turn of the loop that discards old programmes which overlap the     *)
(* next new slot, after their text was taken over.                         *)
DiscardOld ==
  /\ pc = "merge" /\ new # <<>> /\ old # <<>>
  /\ Overlapping(Head(new), Head(old))
  /\ new' = [new EXCEPT ![1] = MergeSlotDesc(@, Head(old))]
  /\ old' = Tail(old)
  /\ UNCHANGED <<file, now, pc, own, captured, chn, read, out>>

(* The old programmes left are later: the new slot is written, and with it *)
(* goes everything that starts before it ends.  (The second loop passes    *)
(* the first of these programmes each time, which changes the slot once.)  *)
ChooseNew ==
  LET x == Head(new)
      y == IF old # <<>> /\ Head(old).start < EndOf(x) THEN MergeSlotDesc(x, Head(old)) ELSE x
  IN /\ pc = "merge" /\ new # <<>>
     /\ old # <<>> => ~Overlapping(x, Head(old)) /\ x.start <= Head(old).start
     /\ out' = out \union {Exported(y, own)}
     /\ old' = StartingFrom(old, EndOf(x))
     /\ new' = StartingFrom(Tail(new), EndOf(x))
     /\ UNCHANGED <<file, now, pc, own, captured, chn, read>>

(* The old programme that is left is earlier: it is written unchanged.     *)
ChooseOld ==
  LET x == Head(new) IN
  /\ pc = "merge" /\ new # <<>> /\ old # <<>>
  /\ ~Overlapping(x, Head(old)) /\ x.start > Head(old).start
  /\ out' = out \union {Head(old).xml}
  /\ old' = Tail(old)
  /\ new' = <<x>> \o StartingFrom(Tail(new), EndOf(x))
  /\ UNCHANGED <<file, now, pc, own, captured, chn, read>>

OnlyOld ==
  /\ pc = "merge" /\ new = <<>> /\ old # <<>>
  /\ out' = out \union {Head(old).xml}
  /\ old' = Tail(old)
  /\ UNCHANGED <<file, now, pc, own, captured, chn, read, new>>

(* The process of the run ends, and its memory is gone.                    *)
Forget ==
  /\ captured' = <<>> /\ chn' = {} /\ read' = {} /\ out' = {}
  /\ UNCHANGED <<now, own, new, old>>

\* Mutant: the channel table is the one of the file read.
EndRunImportedChannels ==
  /\ pc = "merge" /\ new = <<>> /\ old = <<>>
  /\ file_chn' = IF chn = {} THEN {own} ELSE chn
  /\ file_prog' = out \union {p.xml : p \in {q \in read : q.ch # own}}
  /\ pc' = "idle"
  /\ Forget

(* The file is complete: the other channels are appended unchanged.        *)
EndRun ==
  /\ pc = "merge" /\ new = <<>> /\ old = <<>>
  /\ file_chn' = chn \union {own}
  /\ file_prog' = out \union {p.xml : p \in {q \in read : q.ch # own}}
  /\ pc' = "idle"
  /\ Forget

Wait ==
  /\ pc = "idle"
  /\ \E t \in Clock : t > now /\ now' = t
  /\ UNCHANGED <<file, pc, run>>

Init ==
  /\ file_chn = {} /\ file_prog = {}
  /\ now = 0 /\ pc = "idle"
  /\ own \in Channel /\ captured = <<>> /\ chn = {} /\ read = {}
  /\ new = <<>> /\ old = <<>> /\ out = {}

Next ==
  \/ \E c \in Channel : \E s \in Captures[c] : StartRun(c, s)
  \/ DiscardOld \/ ChooseNew \/ ChooseOld \/ OnlyOld
  \/ EndRun \/ Wait

Spec == Init /\ [][Next]_vars

-----------------------------------------------------------------------------
(* Properties                                                              *)

(* The steps of a run together update the file as XmltvFile says: every    *)
(* new slot is written, and every old programme that no new slot overlaps; *)
(* the loop over the two lists, which looks at their heads only, must come *)
(* to the same as the sets.  Other channels are left alone.                *)
File == INSTANCE XmltvFile WITH chn <- file_chn, prog <- file_prog

ImplementsFile == File!Spec

(* However often the file is updated, the programmes of a channel do not   *)
(* overlap in it and no two have the same start time.  That holds of those *)
(* whose times the import reads as they were written: one in the hour that *)
(* the clock skips in spring is read as later, and stays in the file when  *)
(* it is captured again.                                                   *)
FileInOrder ==
  \A p, q \in file_prog : p.ch = q.ch /\ p # q /\ Told(p) /\ Told(q) =>
    p.start # q.start /\ (p.start < q.start => OldEnd(p) <= q.start)

(* The next run can import the file: the import ends at the first          *)
(* programme of a channel that was not declared, and main() would not even *)
(* notice that the rest is missing.                                        *)
FileImportable ==
  \A p \in file_prog : p.ch \in file_chn

(* Programmes of this channel already in the file that the import reads    *)
(* with their true times and does not take for one another.                *)
Had == {p \in file_prog :
          /\ p.ch = own /\ Recent(p, now) /\ Told(p)
          /\ \A q \in file_prog : q.ch = own /\ Stamp(q.start) = p.start => q = p}

(* A programme that is captured again unchanged keeps the longer of its    *)
(* old and its new description, and a title that the new one abbreviates.  *)
TextKept ==
  [][pc = "merge" /\ pc' = "idle" =>
       \A p \in Had, i \in DOMAIN captured :
         LET x == captured[i] IN
         x.start = p.start /\ EndOf(x) = OldEnd(p) /\ SameTitle(x, p) /\ x.ref =>
           \E q \in file_prog' :
             /\ q.ch = own /\ q.start = p.start
             /\ q.title = p.title
             /\ p.desc > 0 => q.desc >= p.desc
             /\ x.desc > 0 => q.desc >= x.desc]_vars

(* "omit programmes which have completed more than the given number of     *)
(* minutes ago": what has not, and is not replaced by the run, stays.      *)
ExpireCompleted ==
  [][pc = "merge" /\ pc' = "idle" =>
       \A p \in file_prog :
         p.ch # own /\ p.stop # NoTime /\ p.stop > now - Expire => p \in file_prog']_vars
=============================================================================
