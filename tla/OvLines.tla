------------------------------ MODULE OvLines ------------------------------
(***************************************************************************)
(* Lines of overview pages (ttx_ov_fmt.cc, ttx_pg_ref.cc and parse_slots() *)
(* in ttx_scrape.cc): the format of the table is the one most lines have,  *)
(* and so is the format of references to other pages.                      *)
(*                                                                         *)
(* A line is a record                                                      *)
(*   fmt     columns [time, vps, title] and separator sep of a line with a *)
(*           start time, where vps is -1 without a VPS label; else NoFmt   *)
(*   min     its start time                                                *)
(*   indent  column of the first character, -1 in an empty line            *)
(*   ref     three digits at the end of the line, else NoRef: the number,  *)
(*           the separators and the number of blanks in front of it, the   *)
(*           number of blanks behind it                                    *)
(*   end     end time of the programme if the line holds one, else -1      *)
(***************************************************************************)
EXTENDS Integers, Sequences, FiniteSets, SequencesExt

NoFmt  == [time |-> -1, vps |-> -1, title |-> -1, sep |-> "none"]
NoRef  == [page |-> -1, sep |-> "none", lead |-> -1, trail |-> -1]
NoPage == -1

(* The element that is first to occur as often as the most frequent one.   *)
MostUsed(list) ==
  LET cnt(n) == Cardinality({m \in 1 .. n : list[m] = list[n]})
      most(n) == \A m \in DOMAIN list : cnt(m) <= cnt(n)
  IN list[CHOOSE n \in DOMAIN list : most(n) /\ \A m \in 1 .. n - 1 : ~most(m)]

-----------------------------------------------------------------------------
(* Format of the table, from lines 5 to 21 of the first six pages.         *)

FirstLine == 5
LastLine  == 21
FormatPages == 6

(* The indentation of the line below goes along if that is a text.         *)
DetectLineFmt(lines, n) ==
  [fmt |-> lines[n].fmt,
   subt |-> IF n < Len(lines) /\ lines[n + 1].fmt = NoFmt THEN lines[n + 1].indent ELSE -1]

FmtList(pages) ==
  FlattenSeq([k \in DOMAIN pages |->
    SelectSeq([n \in 1 .. Len(pages[k]) |->
                 IF n \in FirstLine .. LastLine THEN DetectLineFmt(pages[k], n)
                 ELSE [fmt |-> NoFmt, subt |-> -1]],
              LAMBDA f : f.fmt # NoFmt)])

\* Mutant: the format of the last line.
SelectOvFmtLast(found) ==
  IF found = <<>> THEN [fmt |-> NoFmt, subt |-> -1] ELSE Last(found)

(* select_ov_fmt() keeps the best indentation so far in the last line of   *)
(* the format, so the indentation found there only counts without others.  *)
SelectOvFmt(found) ==
  LET fmt    == MostUsed([n \in DOMAIN found |-> found[n].fmt])
      mine   == SelectSeq(found, LAMBDA f : f.fmt = fmt)
      others == SelectSeq(Front(mine), LAMBDA f : f.subt # -1)
  IN IF found = <<>> THEN [fmt |-> NoFmt, subt |-> -1]
     ELSE [fmt  |-> fmt,
           subt |-> IF others = <<>> THEN Last(mine).subt
                    ELSE MostUsed([n \in DOMAIN others |-> others[n].subt])]

DetectOvFormat(pages) ==
  SelectOvFmt(FmtList(SubSeq(pages, 1, IF Len(pages) < FormatPages THEN Len(pages)
                                       ELSE FormatPages)))

-----------------------------------------------------------------------------
(* The programmes in a table.                                              *)

(* Where a VPS label was there are blanks: only the columns of time and    *)
(* title and the separator have to be those of the format.                 *)
ParseTitleLine(fmt, line) ==
  /\ line.fmt # NoFmt
  /\ line.fmt.time = fmt.time /\ line.fmt.title = fmt.title /\ line.fmt.sep = fmt.sep

ParseSubtitle(subt, line) == subt >= 0 /\ line.indent >= subt

NewSlot(line) ==
  [min |-> line.min, end |-> -1, lines |-> <<line.ref>>, ref |-> NoPage,
   start |-> -1, wrap |-> 0, desc |-> <<>>, sub |-> -1]

(* One line: a title opens a slot, an end time or a line that is no        *)
(* continuation closes it; below the footer there are no continuations.    *)
SlotLine(s, line, below, f) ==
  LET n == Len(s.slots) IN
  CASE s.over -> s
    [] ~s.over /\ ParseTitleLine(f.fmt, line) ->
         [s EXCEPT !.slots = Append(@, NewSlot(line)), !.open = TRUE]
    [] ~s.over /\ ~ParseTitleLine(f.fmt, line) /\ s.open ->
         IF below THEN [s EXCEPT !.over = TRUE]
         ELSE IF line.end # -1 THEN [s EXCEPT !.slots[n].end = line.end, !.open = FALSE]
         ELSE IF ParseSubtitle(f.subt, line)
         THEN [s EXCEPT !.slots[n].lines = Append(@, line.ref)]
         ELSE [s EXCEPT !.open = FALSE]
    [] OTHER -> s

ParseSlots(lines, foot, f) ==
  FoldLeft(LAMBDA s, n : SlotLine(s, lines[n], n > foot, f),
           [slots |-> <<>>, open |-> FALSE, over |-> FALSE],
           [n \in 1 .. Len(lines) |-> n]).slots

(* Rows above the first title.                                             *)
HeadOf(lines, f) ==
  CHOOSE n \in 1 .. Len(lines) :
    ParseTitleLine(f.fmt, lines[n]) /\ \A m \in 1 .. n - 1 : ~ParseTitleLine(f.fmt, lines[m])

-----------------------------------------------------------------------------
(* References to description pages.                                        *)

(* Separators or blanks must stand in front of a reference.                *)
IsRef(ref) == ref # NoRef /\ (ref.sep # "none" \/ ref.lead > 0)
RefFmt(ref) ==
  [ref EXCEPT !.page = NoPage, !.lead = IF ref.sep = "none" THEN 1 ELSE @]

DetectRefFmt(slots) ==
  LET all == FlattenSeq([k \in DOMAIN slots |-> SelectSeq(slots[k].lines, IsRef)])
  IN IF all = <<>> THEN NoRef
     ELSE MostUsed([n \in DOMAIN all |-> RefFmt(all[n])])

(* Blanks in front are as good as the separators of the format; if these   *)
(* are followed by none, the number may follow anything.  The blanks       *)
(* behind must be those of the format.                                     *)
ParseTrailingRef(fmt, ref) ==
  /\ fmt # NoRef /\ ref # NoRef
  /\ ref.trail = fmt.trail
  /\ ref.lead > 0 \/ (fmt.sep # "none" /\ fmt.lead = 0)

ParseTtxRef(slot, fmt) ==
  LET hits == SelectSeq(slot.lines, LAMBDA r : ParseTrailingRef(fmt, r))
  IN IF hits = <<>> THEN NoPage ELSE Head(hits).page
=============================================================================
