------------------------------ MODULE TtxDate ------------------------------
(***************************************************************************)
(* Dates on teletext pages (ttx_date.cc).  A date is the number of a day,  *)
(* a time the number of minutes since midnight before day 0.  What the     *)
(* regular expressions find in a line is a record                          *)
(*   [kind, day]   "full" day, month and year; "noyear" day and month;     *)
(*                 "hours" a weekday in front of a time; "weekday" its     *)
(*                 full name; "trailing" the same at the end of a line;    *)
(*                 "vps" the date of a VPS label; "relative" today or      *)
(*                 tomorrow, where day is the number of days from now      *)
(*   [kind, min]   "span" two times; "marked" one at the end of the line   *)
(*                 or before "Uhr"; "bare" one within the line             *)
(* Of a weekday only the position within the week is used, of a date       *)
(* without year only the position within the year.                         *)
(***************************************************************************)
EXTENDS Integers, Sequences, SequencesExt

CONSTANT YearLen   \* days in a year

ASSUME YearAssumption == YearLen \in Nat \ {0}

NoDay  == -1
NoText == [kind |-> "none", day |-> NoDay]
NoTime == [kind |-> "none", min |-> -1]

DayMin    == 24 * 60
DayOf(t)  == t \div DayMin
YearOf(d) == d \div YearLen

GetWeekDayOffset(wday, ts) ==
  LET cur == DayOf(ts) % 7
  IN IF wday >= cur THEN wday - cur ELSE (7 - cur) + wday

(* CheckDate(): the day a text means on a page received at time ts.        *)
CheckDate(text, ts) ==
  CASE text.kind \in {"full", "vps"} -> text.day
    [] text.kind = "noyear" -> (YearOf(DayOf(ts)) * YearLen) + (text.day % YearLen)
    [] text.kind \in {"hours", "weekday", "trailing"} ->
         DayOf(ts) + GetWeekDayOffset(text.day % 7, ts)
    [] text.kind = "relative" -> DayOf(ts) + text.day

-----------------------------------------------------------------------------
(* Overview pages: the best date of the lines above the table, and of      *)
(* equally good ones the last.                                             *)

OvPrio(kind) ==
  CASE kind \in {"full", "noyear"} -> 3 [] kind = "hours"    -> 2
    [] kind = "weekday"            -> 1 [] kind = "relative" -> 0
    [] OTHER                       -> -1

\* Mutant: the last date counts.
ParseOvDateLast(texts, ts) ==
  FoldLeft(LAMBDA day, text : IF OvPrio(text.kind) >= 0 THEN CheckDate(text, ts) ELSE day,
           NoDay, texts)

ParseOvDate(texts, ts) ==
  FoldLeft(LAMBDA best, text :
             IF OvPrio(text.kind) >= 0 /\ OvPrio(text.kind) >= best.prio
             THEN [prio |-> OvPrio(text.kind), day |-> CheckDate(text, ts)]
             ELSE best,
           [prio |-> -1, day |-> NoDay], texts).day

ConvertTime(date, min, wrap) == (date.day + date.off + wrap) * DayMin + min

-----------------------------------------------------------------------------
(* Description pages: does some line, with the date last seen, announce a  *)
(* programme that starts at start?  Dates may be those of the overview     *)
(* page, which is off days behind.                                         *)

Near(t, u) == t - u \in -4 .. 4

NewDate(s, line) ==
  \/ line.date.kind \in {"full", "noyear", "hours"}
  \/ line.date.kind = "trailing" /\ ~s.timed

DateSeen(s, line, ts) ==
  IF NewDate(s, line) \/ line.date.kind = "vps" THEN CheckDate(line.date, ts) ELSE s.day

Timed(s, line) ==
  line.time.kind \in {"span", "marked"} \/ (line.time.kind = "bare" /\ NewDate(s, line))

Announces(day, min, start, off) ==
  LET at == day * DayMin + min
  IN Near(at, start) \/ (off # 0 /\ Near(at + off * DayMin, start))

\* Mutant: the date stays valid when its own time does not match.
DescLineKeepsDate(s, line, ts, start, off) ==
  LET day   == DateSeen(s, line, ts)
      tried == Timed(s, line) /\ day # NoDay
  IN [found |-> s.found \/ (tried /\ Announces(day, line.time.min, start, off)),
      timed |-> Timed(s, line), day |-> day]

(* A date is forgotten when the time in its own line does not match.       *)
DescLine(s, line, ts, start, off) ==
  LET day   == DateSeen(s, line, ts)
      tried == Timed(s, line) /\ day # NoDay
      match == tried /\ Announces(day, line.time.min, start, off)
  IN [found |-> s.found \/ match,
      timed |-> Timed(s, line),
      day   |-> IF tried /\ ~match /\ NewDate(s, line) THEN NoDay ELSE day]

ParseDescDate(lines, ts, start, off) ==
  FoldLeft(LAMBDA s, line : DescLine(s, line, ts, start, off),
           [found |-> FALSE, timed |-> FALSE, day |-> NoDay], lines).found
=============================================================================
