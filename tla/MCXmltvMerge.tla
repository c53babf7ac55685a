---------------------------- MODULE MCXmltvMerge ----------------------------
(* Two channels: the schedules of the first vary in all respects, those of *)
(* the second only show that it is left alone.                             *)
EXTENDS XmltvMerge, MergePl

Plain == {[title |-> 1, ref |-> FALSE, desc |-> 0]}
Texts == Plain \union {[title |-> 1, ref |-> TRUE, desc |-> 0],
                       [title |-> 2, ref |-> TRUE, desc |-> 1],
                       [title |-> 1, ref |-> TRUE, desc |-> 2]}

SlotAt(start, stop, text) ==
  [title |-> text.title, ref |-> text.ref, desc |-> text.desc, start |-> start, stop |-> stop]

(* Time 4 is skipped by the clock in spring and read as 6.                 *)
Slots ==
  {SlotAt(0, stop, text) : stop \in {NoTime, 8}, text \in Plain}
  \union {SlotAt(4, stop, text) : stop \in {NoTime, 8}, text \in Plain}
  \union {SlotAt(6, stop, text) : stop \in {NoTime, 8, 12}, text \in Texts}
  \union {SlotAt(8, 12, text) : text \in Plain}

Lists == {<<x>> : x \in Slots}
  \union {q \in Slots \X Slots : EndOf(q[1]) <= q[2].start}

MCCaptures == [c1 |-> Lists, c2 |-> {<<SlotAt(0, 8, [title |-> 1, ref |-> FALSE, desc |-> 0])>>}]
MCChannel  == {"c1", "c2"}

-----------------------------------------------------------------------------
(* The file is merged by merge.pl with copies of itself and of a fixed     *)
(* file of the second channel, as capall.pl does for several channels.     *)
ScriptFile(channels, progs) == [chn |-> SetToSeq(channels), prog |-> progs]
Other == ScriptFile({"c2"}, {[title |-> 1, desc |-> 0, start |-> 4, stop |-> 8, ch |-> "c2"]})
This  == ScriptFile(file_chn, file_prog)
InputFiles == {<<This, Other, This>>, <<This, This, This>>}

MergedFilesKept  == pc = "idle" => \A files \in InputFiles : AllKept(files)
MergedFilesSound == pc = "idle" => \A files \in InputFiles : Sound(files)
=============================================================================
