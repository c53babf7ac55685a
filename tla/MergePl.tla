------------------------------- MODULE MergePl -------------------------------
(***************************************************************************)
(* Script merge.pl: the XMLTV files of several channels become one.  A     *)
(* file is a record [chn, prog]: the channel IDs in the order they are     *)
(* declared, which comes before the programmes [start, ch, ...].           *)
(*                                                                         *)
(* A channel ID is a pair <<name, n>>, n = 1 for the ID as declared and    *)
(* n >= 2 for the ID with "__n" appended.  Abstracted: XML; IDs that look  *)
(* renamed before they are; the order of the output.                       *)
(***************************************************************************)
EXTENDS XmltvTime, Sequences, FiniteSets, SequencesExt

(* The state of the script: ChnOrder, and XmlData, in which a programme    *)
(* replaces one of the same key; "failed" once die was called.             *)
NoData == [chn |-> {}, prog |-> {}, failed |-> FALSE]

\* Mutant: the second ID of a name is not looked up in its turn.
FreshIdTwo(chn, name) == IF <<name, 1>> \in chn THEN <<name, 2>> ELSE <<name, 1>>

FreshId(chn, name) ==
  CHOOSE id \in {name} \X (1 .. Cardinality(chn) + 1) :
    /\ id \notin chn
    /\ \A n \in 1 .. id[2] - 1 : <<name, n>> \in chn

Key(p) == <<Stamp(p.start), p.ch>>

AddProg(prog, p) == {q \in prog : Key(q) # Key(p)} \union {p}

\* Mutant: the programmes of a renamed channel keep the ID of the file.
ReadXmlFileNoMap(data, file) ==
  LET map == [name \in ToSet(file.chn) |-> FreshId(data.chn, name)]
  IN [chn |-> data.chn \union {map[name] : name \in ToSet(file.chn)},
      prog |-> FoldSet(LAMBDA p, prog : AddProg(prog, [p EXCEPT !.ch = <<@, 1>>]),
                       data.prog, file.prog),
      failed |-> FALSE]

(* ReadXmlFile(): a channel declared twice in a file, or one that a        *)
(* programme names and no file declared, ends the script.  (A channel that *)
(* only an earlier file declared is not renamed but lost; the grabber      *)
(* writes no such file.)                                                   *)
ReadXmlFile(data, file) ==
  LET map == [name \in ToSet(file.chn) |-> FreshId(data.chn, name)]
  IN IF data.failed \/ ~IsInjective(file.chn)
        \/ \E p \in file.prog : p.ch \notin ToSet(file.chn)
     THEN [data EXCEPT !.failed = TRUE]
     ELSE [chn |-> data.chn \union {map[name] : name \in ToSet(file.chn)},
           prog |-> FoldSet(LAMBDA p, prog : AddProg(prog, [p EXCEPT !.ch = map[@]]),
                            data.prog, file.prog),
           failed |-> FALSE]

MergeFiles(files) == FoldLeft(ReadXmlFile, NoData, files)

-----------------------------------------------------------------------------
(* Properties of the merge of a list of files                              *)

(* Nothing is lost: every programme of every file is in the output, under  *)
(* the n-th ID of its channel where n - 1 files before declare it too.     *)
(* (Two programmes at the two sides of the gap have the same key.)         *)
AllKept(files) ==
  \A i \in DOMAIN files : \A p \in files[i].prog :
    LET n == Cardinality({j \in 1 .. i : p.ch \in ToSet(files[j].chn)})
    IN \/ [p EXCEPT !.ch = <<p.ch, n>>] \in MergeFiles(files).prog
       \/ \E q \in files[i].prog : q.ch = p.ch /\ q # p /\ Stamp(q.start) = Stamp(p.start)

(* The output is a file that can be imported: every programme's channel is *)
(* declared, every ID by one file only.                                    *)
Sound(files) ==
  LET data == MergeFiles(files)
  IN /\ ~data.failed
     /\ \A p \in data.prog : p.ch \in data.chn
     /\ Cardinality(data.chn) =
          FoldLeft(LAMBDA n, f : n + Len(f.chn), 0, files)
=============================================================================
