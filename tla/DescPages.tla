----------------------------- MODULE DescPages -----------------------------
(***************************************************************************)
(* From the text of overview pages to programmes with descriptions: the    *)
(* format of the tables (OvLines), their dates (TtxDate), the references   *)
(* to description pages, and what ParseAllContent() takes from the         *)
(* sub-pages of these.                                                     *)
(*                                                                         *)
(* The number of days calc_date_off() adds to the date of a page is that   *)
(* of module OvSchedule.  Titles are numbers; of a description the rows    *)
(* that are taken over are kept, not their layout.                         *)
(***************************************************************************)
EXTENDS TtxDate, OvLines

CONSTANTS
  Schedules,  \* start times of the listed programmes, ascending
  Captures,   \* times at which pages are received
  Looks,      \* how a broadcaster writes overview pages
  Styles,     \* how it writes description pages
  RefPage,    \* pages with descriptions
  Refs,       \* which of them describe the programmes: NoPage or one each
  Lost        \* what may be missing: <<>> or <<page, sub>>

(***************************************************************************)
(* A service: the programmes starts[i], from split on those of the second  *)
(* overview page; ref[i] the page with a description, or NoPage.           *)
(* Of its look:  date, day: kind of the date above the table, of the       *)
(* "calendar" or the "broadcast" day, which begins at 6:00; ad: above or   *)
(* below it the word "tomorrow" is read; vps: programmes with VPS label;   *)
(* noise: number of lines with times in another format; below: refs are    *)
(* in the line below the title; number: the first title ends in a number.  *)
(* Of its style:  kind, day, skew: how start times are announced, up to 4  *)
(* minutes late; parts: sub-pages for a programme; dated: all of them have *)
(* the date; teaser: the time of the next programme follows; repeat: the   *)
(* last programme repeats the first; marks: sub-pages say "1/2".           *)
(***************************************************************************)
Programmes(s) == 1 .. Len(s.starts)
OvPageNo(k)   == 767 + k
IsRepeat(s, i) ==
  s.style.repeat /\ i = Len(s.starts) /\ i > 1 /\ s.ref[i] = s.ref[1]
Title(s, i) == IF IsRepeat(s, i) THEN 1 ELSE i
DayShown(how, t) == IF how = "calendar" THEN DayOf(t) ELSE DayOf(t - 6 * 60)

FirstOn(s, k)  == IF k = 1 THEN 1 ELSE s.split
ListedOn(s, k) == IF k = 1 THEN 1 .. s.split - 1 ELSE s.split .. Len(s.starts)
PageCnt(s)     == IF s.split > Len(s.starts) THEN 1 ELSE 2

EmptyLine == [fmt |-> NoFmt, min |-> -1, indent |-> -1, ref |-> NoRef, end |-> -1]
TableFmt(vps) == [time |-> 2, vps |-> IF vps THEN 8 ELSE -1, title |-> 14, sep |-> "dot"]
NoiseLine == [EmptyLine EXCEPT !.fmt = [time |-> 1, vps |-> -1, title |-> 7, sep |-> "colon"],
                               !.min = 1320, !.indent = 1]

RefText(s, i) ==
  IF s.ref[i] = NoPage THEN NoRef ELSE [page |-> s.ref[i], sep |-> "dots", lead |-> 0, trail |-> 1]
Number == 528   \* 210 hex
TitleEnd(s, i) ==
  IF s.look.number /\ i = 1 THEN [page |-> Number, sep |-> "none", lead |-> 1, trail |-> 0] ELSE NoRef

TableLines(s, i) ==
  << [EmptyLine EXCEPT !.fmt = TableFmt(i \in s.look.vps), !.min = s.starts[i] % DayMin,
                       !.indent = 2,
                       !.ref = IF s.look.below THEN TitleEnd(s, i) ELSE RefText(s, i)],
     [EmptyLine EXCEPT !.indent = 14, !.ref = IF s.look.below THEN RefText(s, i) ELSE NoRef] >>

OvText(s, k) ==
  [n \in 1 .. 4 |-> EmptyLine]
    \o FlattenSeq([n \in 1 .. Cardinality(ListedOn(s, k)) |->
                     TableLines(s, FirstOn(s, k) + n - 1)])
    \o [n \in 1 .. s.look.noise |-> NoiseLine]

(* The dates in the four lines above.                                      *)
HeaderDay(s, k) == DayShown(s.look.day, s.starts[FirstOn(s, k)])
HeaderTexts(s, k) ==
  LET ad   == [kind |-> "relative", day |-> 1]
      date == [kind |-> s.look.date,
               day  |-> IF s.look.date = "relative" THEN HeaderDay(s, k) - DayOf(s.ts)
                        ELSE HeaderDay(s, k)]
  IN CASE s.look.ad = "none"  -> <<NoText, date, NoText, NoText>>
       [] s.look.ad = "above" -> <<ad, date, NoText, NoText>>
       [] s.look.ad = "below" -> <<NoText, date, NoText, ad>>

TextsAbove(s, k, head) ==
  [n \in 1 .. head - 1 |-> IF n <= 4 THEN HeaderTexts(s, k)[n] ELSE NoText]

-----------------------------------------------------------------------------
(* Description pages: rows of date, time, title and text.                  *)

Row(date, time, title, text) == [date |-> date, time |-> time, title |-> title, text |-> text]
BlankRow == Row(NoText, NoTime, 0, <<>>)

DateRows(s, t) ==
  LET day(kind) == [kind |-> kind, day |-> DayShown(s.style.day, t)]
      at(kind)  == [kind |-> kind, min |-> (t + s.style.skew) % DayMin]
      time      == Row(NoText, at("span"), 0, <<>>)
  IN CASE s.style.kind = "line"     -> << Row(day("full"), at("span"), 0, <<>>) >>
       [] s.style.kind = "weekday"  -> << Row(day("hours"), at("bare"), 0, <<>>) >>
       [] s.style.kind = "noyear"   -> << Row(day("noyear"), NoTime, 0, <<>>), time >>
       [] s.style.kind = "trailing" -> << Row(day("trailing"), NoTime, 0, <<>>),
                                          Row(NoText, at("marked"), 0, <<>>) >>
       [] s.style.kind = "vps"      -> << Row(day("vps"), NoTime, 0, <<>>), time >>

(* Part n of the description of programme i.  What comes below the text    *)
(* has another colour and is no part of it (foot).                         *)
DescText(s, i, n) ==
  LET rows == (IF n = 1 \/ s.style.dated THEN DateRows(s, s.starts[i]) ELSE <<>>)
                \o << Row(NoText, NoTime, Title(s, i), <<>>),
                      Row(NoText, NoTime, 0, <<i, n, 1>>), Row(NoText, NoTime, 0, <<i, n, 2>>) >>
      again  == {j \in Programmes(s) : j # i /\ IsRepeat(s, j) /\ i = 1}
      teaser == IF s.style.teaser /\ i < Len(s.starts)
                THEN << Row(NoText, [kind |-> "marked", min |-> s.starts[i + 1] % DayMin], 0, <<>>) >>
                ELSE <<>>
      repeat == IF again = {} THEN <<>> ELSE DateRows(s, s.starts[Len(s.starts)])
  IN [prog |-> i, foot |-> Len(rows), rows |-> rows \o teaser \o repeat]

(* All sub-pages of a page in order; a repeat has none of its own.         *)
Described(s, page) ==
  SelectSeq([i \in Programmes(s) |-> i],
            LAMBDA i : s.ref[i] = page /\ ~IsRepeat(s, i))

AllSubPages(s, page) ==
  LET own == Described(s, page)
      all == FlattenSeq([k \in DOMAIN own |->
               [n \in 1 .. s.style.parts |-> DescText(s, own[k], n)]])
  IN [n \in DOMAIN all |->
        [sub  |-> IF Len(all) = 1 THEN 0 ELSE n,
         mark |-> IF s.style.marks THEN Len(all) ELSE -1,
         prog |-> all[n].prog, foot |-> all[n].foot, rows |-> all[n].rows]]

LastSub(s, page) == IF Len(AllSubPages(s, page)) = 1 THEN 0 ELSE Len(AllSubPages(s, page))

IsService(s) ==
  \E starts \in Schedules, ts \in Captures, look \in Looks, style \in Styles :
  \E split \in 2 .. Len(starts) + 1,
     ref \in Refs, lost \in Lost, btt \in BOOLEAN :
    /\ ts < starts[1] /\ DOMAIN ref = DOMAIN starts
    /\ lost = <<>> => ~btt
    /\ s = [starts |-> starts, ts |-> ts, look |-> look, style |-> style, split |-> split,
            ref |-> ref, lost |-> lost, btt |-> btt]

-----------------------------------------------------------------------------
VARIABLES
  service,  \* the service received, never changes
  phase,    \* step of the calculation
  fmt,      \* format of the overview pages
  ov,       \* ov_pages: page number, date and slots
  idx,      \* number of the page looked at next
  ref_fmt,  \* format of references
  ref_map,  \* number of references to each page
  missing   \* list of pages not received

vars == <<service, phase, fmt, ov, idx, ref_fmt, ref_map, missing>>

SubPages(page) ==
  SelectSeq(AllSubPages(service, page), LAMBDA p : <<page, p.sub>> # service.lost)

DetectFormat ==
  /\ phase = "format"
  /\ fmt' = DetectOvFormat([k \in 1 .. PageCnt(service) |-> OvText(service, k)])
  /\ phase' = IF fmt'.fmt = NoFmt THEN "done" ELSE "parse"
  /\ UNCHANGED <<service, ov, idx, ref_fmt, ref_map, missing>>

(* Slots of a page with the times its date gives them.                     *)
DatedSlots(slots, date) ==
  LET wraps(k) == Cardinality({j \in 2 .. k : slots[j - 1].min \div 60 > slots[j].min \div 60})
  IN [k \in DOMAIN slots |->
        [slots[k] EXCEPT !.start = ConvertTime(date, slots[k].min, wraps(k)),
                         !.wrap = wraps(k)]]

(* What calc_date_off() adds to the date of a page of the broadcast day.   *)
DateOff(k) == DayOf(service.starts[FirstOn(service, k)]) - HeaderDay(service, k)

(* Programmes are in order and no page repeats another, so the checks for  *)
(* these (OvSchedule) drop no page.                                        *)
ParsePage ==
  /\ phase = "parse" /\ idx <= PageCnt(service)
  /\ LET text  == OvText(service, idx)
         slots == ParseSlots(text, Len(text) - service.look.noise, fmt)
         date  == [day |-> ParseOvDate(TextsAbove(service, idx, HeadOf(text, fmt)), service.ts),
                   off |-> DateOff(idx)]
     IN ov' = IF slots = <<>> \/ date.day = NoDay THEN ov
              ELSE Append(ov, [page |-> OvPageNo(idx), date |-> date,
                               slots |-> DatedSlots(slots, date)])
  /\ idx' = idx + 1
  /\ UNCHANGED <<service, phase, fmt, ref_fmt, ref_map, missing>>

(* ParseAllContent(): references are counted on all pages before the       *)
(* first description is looked at.                                         *)
SelectRefFmt ==
  /\ phase = "parse" /\ idx > PageCnt(service)
  /\ ref_fmt' = DetectRefFmt(FlattenSeq([k \in DOMAIN ov |-> ov[k].slots]))
  /\ phase' = "refs" /\ idx' = 1
  /\ UNCHANGED <<service, fmt, ov, ref_map, missing>>

ExtractTtxRef ==
  /\ phase = "refs" /\ idx <= Len(ov)
  /\ LET slots == [n \in DOMAIN ov[idx].slots |->
                     [ov[idx].slots[n] EXCEPT !.ref = ParseTtxRef(ov[idx].slots[n], ref_fmt)]]
     IN /\ ov' = [ov EXCEPT ![idx].slots = slots]
        /\ ref_map' = [p \in DOMAIN ref_map |->
                         ref_map[p] + Cardinality({n \in DOMAIN slots : slots[n].ref = p})]
  /\ idx' = idx + 1
  /\ UNCHANGED <<service, phase, fmt, ref_fmt, missing>>

StartContent ==
  /\ phase = "refs" /\ idx > Len(ov)
  /\ phase' = "content" /\ idx' = 1
  /\ UNCHANGED <<service, fmt, ov, ref_fmt, ref_map, missing>>

-----------------------------------------------------------------------------
(* The description of a programme.                                         *)

(* Row with the title, the first one if it is not found.                   *)
ParseDescTitle(p, title) ==
  LET hits == {n \in 1 .. Len(p.rows) : n <= 11 /\ p.rows[n].title = title}
  IN IF hits = {} THEN 1 ELSE CHOOSE n \in hits : \A m \in hits : n <= m

(* First row from head on that is not the same on both sub-pages.          *)
LineCnt == 24
RowOf(p, n) == IF n \in DOMAIN p.rows THEN p.rows[n] ELSE BlankRow
CorrelateDescTitles(p, q, head) ==
  LET hits == {n \in head .. LineCnt - 1 : RowOf(p, n) # RowOf(q, n)}
  IN IF hits = {} THEN LineCnt ELSE CHOOSE n \in hits : \A m \in hits : n <= m

\* Mutant: the first sub-page that does not match ends the search.
NextSubPageOrEnd(d, p, title, matched) ==
  LET head == IF d.subs = <<>> THEN ParseDescTitle(p, title)
              ELSE CorrelateDescTitles(p, d.subs[1], ParseDescTitle(p, title))
      new  == p.foot > head
  IN CASE d.over     -> d
       [] ~matched   -> [d EXCEPT !.over = TRUE]
       [] OTHER      -> [d EXCEPT !.subs = Append(@, p),
                                  !.text = IF new THEN @ \o SubSeq(p.rows, head, p.foot) ELSE @,
                                  !.sub  = IF new /\ @ = -1 THEN p.sub ELSE @]

(* Sub-pages are taken while they match; titles and dates that the first   *)
(* one had already are left out.                                           *)
NextSubPage(d, p, title, matched) ==
  LET head == IF d.subs = <<>> THEN ParseDescTitle(p, title)
              ELSE CorrelateDescTitles(p, d.subs[1], ParseDescTitle(p, title))
      new  == p.foot > head
  IN CASE d.over     -> d
       [] ~d.over /\ ~matched -> [d EXCEPT !.over = d.subs # <<>>]
       [] OTHER      -> [d EXCEPT !.subs = Append(@, p),
                                  !.text = IF new THEN @ \o SubSeq(p.rows, head, p.foot) ELSE @,
                                  !.sub  = IF new /\ @ = -1 THEN p.sub ELSE @]

ParseDescPage(slot, title, date) ==
  FoldLeft(LAMBDA d, p :
             NextSubPage(d, p, title,
               \/ ParseDescDate(p.rows, service.ts, slot.start, date.off + slot.wrap)
               \/ ref_map[slot.ref] <= 1),
           [subs |-> <<>>, text |-> <<>>, sub |-> -1, over |-> FALSE], SubPages(slot.ref))

(* Number of the programme that slot n of page k was read from.            *)
ProgrammeOf(k, n) == FirstOn(service, ov[k].page - 767) + n - 1

ExtractTv ==
  /\ phase = "content" /\ idx <= Len(ov)
  /\ ov' = [ov EXCEPT ![idx].slots = [n \in DOMAIN @ |->
       IF @[n].ref = NoPage THEN @[n]
       ELSE LET d == ParseDescPage(@[n], Title(service, ProgrammeOf(idx, n)), ov[idx].date)
            IN [@[n] EXCEPT !.desc = d.text, !.sub = d.sub]]]
  /\ idx' = idx + 1
  /\ UNCHANGED <<service, phase, fmt, ref_fmt, ref_map, missing>>

StartCheck ==
  /\ phase = "content" /\ idx > Len(ov)
  /\ phase' = "missing" /\ idx' = 1
  /\ UNCHANGED <<service, fmt, ov, ref_fmt, ref_map, missing>>

-----------------------------------------------------------------------------
(* Pages that are missing.  (No other part of the program asks for the     *)
(* list; here it is made once the descriptions are read.)                  *)

(* Number of sub-pages a page claims to have, 0 for a single one.          *)
MatchSubPageCnt(p) ==
  IF p.mark = -1 THEN -1 ELSE IF p.mark = 1 THEN 0 ELSE p.mark

\* Mutant: without the BTT, the sub-pages received are all there are.
LastSubReceived(page) ==
  LET got == SubPages(page)
  IN IF service.btt THEN LastSub(service, page)
     ELSE IF got = <<>> THEN -1 ELSE Last(got).sub

LastSubClaimed(page) ==
  LET got == SubPages(page)
  IN IF service.btt THEN LastSub(service, page)
     ELSE IF got = <<>> THEN -1 ELSE MatchSubPageCnt(Head(got))

MissingOf(page) ==
  LET got  == SubPages(page)
      have == {got[n].sub : n \in DOMAIN got}
      last == LastSubClaimed(page)
  IN CASE last > 0 -> {<<page, n>> : n \in (1 .. last) \ have}
       [] last <= 0 -> IF have = {} THEN {<<page, 0>>} ELSE {}

CheckMissingPages ==
  /\ phase = "missing" /\ idx <= Len(ov)
  /\ missing' = missing \union
       UNION {MissingOf(ov[idx].slots[n].ref) :
                n \in {m \in DOMAIN ov[idx].slots : ov[idx].slots[m].ref # NoPage}}
  /\ idx' = idx + 1
  /\ UNCHANGED <<service, phase, fmt, ov, ref_fmt, ref_map>>

Finish ==
  /\ phase = "missing" /\ idx > Len(ov)
  /\ phase' = "done"
  /\ UNCHANGED <<service, fmt, ov, idx, ref_fmt, ref_map, missing>>

Init ==
  /\ IsService(service)
  /\ phase = "format" /\ idx = 1
  /\ fmt = [fmt |-> NoFmt, subt |-> -1]
  /\ ov = <<>>
  /\ ref_fmt = NoRef
  /\ ref_map = [p \in RefPage \union {Number} |-> 0]
  /\ missing = {}

Next ==
  \/ DetectFormat \/ ParsePage
  \/ SelectRefFmt \/ ExtractTtxRef \/ StartContent
  \/ ExtractTv \/ StartCheck
  \/ CheckMissingPages \/ Finish

Spec == Init /\ [][Next]_vars
-----------------------------------------------------------------------------
(* Properties                                                              *)

(* All slots as <<page, position>>.                                        *)
Slots == {<<k, n>> \in (DOMAIN ov) \X (1 .. Len(service.starts)) : n \in DOMAIN ov[k].slots}
SlotAt(x) == ov[x[1]].slots[x[2]]
ProgAt(x) == ProgrammeOf(x[1], x[2])

(* Dates without year or of a weekday can only be told within the year, or *)
(* within a week from the day of reception.                                *)
Tellable(kind, day) ==
  CASE kind = "noyear" -> YearOf(day) = YearOf(DayOf(service.ts))
    [] kind \in {"hours", "weekday", "trailing"} -> day - DayOf(service.ts) \in 0 .. 6
    [] OTHER -> TRUE

(* A page gets the date the broadcaster wrote above its table, even when   *)
(* "tomorrow" is written above or below it: a better date counts more.     *)
TrueOvDate ==
  \A k \in DOMAIN ov :
    LET p == ov[k].page - 767 IN
    /\ Tellable(service.look.date, HeaderDay(service, p))
    /\ service.look.date = "relative" => service.look.ad # "below"
    => ov[k].date.day = HeaderDay(service, p)

(* If most lines with a time have the format of the table, with or without *)
(* VPS label, all programmes of the pages are read, at their times, and    *)
(* with the page that describes them: not with a number that belongs to    *)
(* the title, though that comes first.                                     *)
WithVps == Cardinality(service.look.vps \intersect Programmes(service))
TableClear ==
  \/ WithVps > service.look.noise * PageCnt(service)
  \/ Len(service.starts) - WithVps > service.look.noise * PageCnt(service)
RefsClear ==
  ~service.look.number \/ Cardinality({i \in Programmes(service) : service.ref[i] # NoPage}) > 1

ListingRead ==
  TableClear /\ phase \in {"content", "missing", "done"} =>
    \A k \in 1 .. PageCnt(service) : \E j \in DOMAIN ov :
      /\ ov[j].page = OvPageNo(k)
      /\ Len(ov[j].slots) = Cardinality(ListedOn(service, k))
      /\ \A n \in DOMAIN ov[j].slots :
           LET i == ProgrammeOf(j, n) IN
           /\ ov[j].slots[n].min = service.starts[i] % DayMin
           /\ RefsClear => ov[j].slots[n].ref = service.ref[i]

(* A slot that has the start time of its programme.                        *)
TimeTrue(x) == SlotAt(x).start = service.starts[ProgAt(x)]

(* Times written on the sub-pages of programme i: its own and its repeat's. *)
Printed(i) ==
  {DayShown(service.style.day, service.starts[j]) * DayMin
     + (service.starts[j] % DayMin) + service.style.skew :
     j \in {m \in Programmes(service) : m = i \/ (i = 1 /\ IsRepeat(service, m))}}

(* The time of slot x is among them, or would be by the date the overview  *)
(* page had, that of the broadcast day.                                    *)
PrintedFor(x, i) ==
  LET off == ov[x[1]].date.off + SlotAt(x).wrap
  IN \E t \in Printed(i) : Near(t, SlotAt(x).start) \/ Near(t + off * DayMin, SlotAt(x).start)

(* "The grabber must make a match between the referencing programmes start *)
(* time ... and the content on the description page to identify the        *)
(* correct sub-page": on a page that describes several programmes each one *)
(* gets the text of sub-pages on which its own start time is written, with *)
(* its date.                                                               *)
CorrectSubPage ==
  \A x \in Slots :
    TimeTrue(x) /\ SlotAt(x).ref # NoPage /\ ref_map[SlotAt(x).ref] > 1 =>
      \A n \in DOMAIN SlotAt(x).desc :
        LET text == SlotAt(x).desc[n].text IN
        text # <<>> => PrintedFor(x, text[1])

(* The time of the next programme is written below a date in a line of its *)
(* own, which the code takes for the date of that time.                    *)
TeaserBelowDate ==
  service.style.teaser /\ service.style.kind \in {"noyear", "trailing", "vps"}

(* But in that case, the code ensures the same: a programme does not get   *)
(* the text of another one, below whose date and time its own time is      *)
(* written as that of the next, nor that of a page whose date was told     *)
(* wrongly.                                                                *)
OwnDescription == ~TeaserBelowDate => CorrectSubPage

(* Where the date on the sub-pages can be told and is that of the calendar *)
(* or is behind it by the days the overview page is behind it, all text of *)
(* the dated sub-pages is found, in order.                                 *)
Findable(x) ==
  LET t   == service.starts[ProgAt(x)]
      day == DayShown(service.style.day, t)
      kind == CASE service.style.kind = "noyear" -> "noyear"
                [] service.style.kind \in {"weekday", "trailing"} -> "weekday"
                [] OTHER -> "full"
  IN /\ TimeTrue(x)
     /\ Tellable(kind, day)
     /\ day \in {DayOf(t), DayOf(t) - (ov[x[1]].date.off + SlotAt(x).wrap)}
     /\ \A i \in Programmes(service) : PrintedFor(x, i) => i = ProgAt(x)

TextsOf(i) ==
  LET parts == SelectSeq([n \in 1 .. service.style.parts |-> n],
                         LAMBDA n : n = 1 \/ service.style.dated)
      mine  == SelectSeq(SubPages(service.ref[i]), LAMBDA p : p.prog = i)
      dated == SelectSeq(mine, LAMBDA p : p.rows[1].date.kind # "none")
  IN FlattenSeq([n \in DOMAIN dated |->
       SelectSeq([m \in 1 .. dated[n].foot |-> dated[n].rows[m].text], LAMBDA r : r # <<>>)])

DescriptionFound ==
  phase \in {"missing", "done"} =>
    \A x \in Slots :
      LET i == ProgAt(x) IN
      /\ service.ref[i] # NoPage /\ ~IsRepeat(service, i)
      /\ SlotAt(x).ref = service.ref[i]
      /\ Findable(x)
      => LET texts == SelectSeq([n \in DOMAIN SlotAt(x).desc |-> SlotAt(x).desc[n].text],
                                LAMBDA r : r # <<>> /\ r[1] = i)
         IN \A n \in DOMAIN TextsOf(i) : Contains(texts, TextsOf(i)[n])

(* The list of missing pages names a sub-page that was not received if its *)
(* number can be known, and none that was.                                 *)
MissingListed ==
  phase = "done" =>
    /\ \A m \in missing : \A n \in DOMAIN SubPages(m[1]) : SubPages(m[1])[n].sub # m[2]
    /\ \A x \in Slots : SlotAt(x).ref # NoPage =>
         \A n \in DOMAIN AllSubPages(service, SlotAt(x).ref) :
           LET page == SlotAt(x).ref
               sub  == AllSubPages(service, page)[n].sub
           IN <<page, sub>> = service.lost /\ (service.btt \/ service.style.marks) =>
                <<page, sub>> \in missing
=============================================================================
