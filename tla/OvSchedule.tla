----------------------------- MODULE OvSchedule -----------------------------
(***************************************************************************)
(* From overview pages to a programme schedule: ParseAllOvPages() dates    *)
(* the programmes of all received overview pages and gives them stop       *)
(* times; FilterOverlappingSlots() and FilterExpiredSlots() then reduce    *)
(* the combined list.                                                      *)
(*                                                                         *)
(* Times are minutes since midnight before day 0.  Abstracted: the text of *)
(* the pages (a title is a number, a line the slot parse_slots() makes of  *)
(* it), the calendar (a date is a day number) and daylight saving time:    *)
(* every day has 24 hours.  The programme tables of the pages come from    *)
(* the broadcaster's true schedule, see Shown below.                       *)
(***************************************************************************)
EXTENDS Integers, Sequences, FiniteSets, SequencesExt

CONSTANTS
  Schedules,  \* start times of a broadcaster's programmes
  Layouts,    \* pages of an overview: <<page, sub>>
  Dates,      \* dates in page headers, see below
  Extras,     \* subsets of {"repeated", "ends", "tips"}
  ExpireMin   \* value of -expire

NoTime == -1
NoDate == [day |-> -1, off |-> 0]
DayMin == 24 * 60
MaxOvPageDateDelta == 7

(* Number of the page that follows: hexadecimal digits are skipped.        *)
GetNextPageNumber(page) ==
  LET next == IF page % 16 = 9 THEN page + 7 ELSE page + 1
  IN IF (next \div 16) % 16 = 10 THEN next + 96 ELSE next

TipsPageNo == 56 * 16     \* 380 hex

(* Programmes are listed in the order of their start times, on pages and   *)
(* sub-pages that follow each other.  A page with sub-pages counts them    *)
(* from 1, and 0 is the only page of its number.  The page with tips is    *)
(* behind all of them, and not the next one.                               *)
ASSUME ScheduleAssumption ==
  /\ Schedules \subseteq Seq(Nat)
  /\ \A q \in Schedules :
       /\ \A i \in 1 .. Len(q) : q[i] >= DayMin
       /\ \A i, j \in 1 .. Len(q) : i < j => q[i] < q[j]
  /\ Layouts \subseteq Seq(Nat \X Nat)
  /\ \A pages \in Layouts :
       /\ pages # <<>>
       /\ \A k \in 1 .. Len(pages) : GetNextPageNumber(pages[k][1]) < TipsPageNo
       /\ \A k \in 1 .. Len(pages) - 1 :
            LET p == pages[k]
                q == pages[k + 1]
            IN \/ p[2] > 0 /\ q = <<p[1], p[2] + 1>>
               \/ q[1] = GetNextPageNumber(p[1]) /\ q[2] <= 1
  /\ Dates \subseteq {"calendar", "broadcast", "once"}
  /\ ExpireMin \in Nat

(***************************************************************************)
(* A service: what a broadcaster airs, how it is laid out on pages, and    *)
(* which of them were received.                                            *)
(*   starts   start times of all programmes, ascending                     *)
(*   pages    <<page, sub>> of each overview page, ascending               *)
(*   first    number of the first programme on each page                   *)
(*   dates    the date in the page headers: "calendar", the day of the     *)
(*            first programme; "broadcast", where the day changes at 6:00; *)
(*            "once", on the first page only                               *)
(*   repeated the last programme of a page is repeated on the next         *)
(*   ends     the last programme of a page comes with its end time         *)
(*   tips     a page of recommended programmes follows, the odd ones       *)
(*   lost     pages that were not received                                 *)
(*   top      the BTT with the number of sub-pages was received            *)
(***************************************************************************)
Programmes(s) == 1 .. Len(s.starts)
DayOf(t)  == t \div DayMin
HourOf(t) == (t % DayMin) \div 60
MinOf(t)  == t % 60

Titles(s, k) ==
  s.first[k] .. (IF k = Len(s.pages) THEN Len(s.starts)
                 ELSE IF s.repeated THEN s.first[k + 1] ELSE s.first[k + 1] - 1)

HeaderDate(s, k) ==
  LET t == s.starts[s.first[k]] IN
  CASE s.dates = "calendar"  -> [day |-> DayOf(t), off |-> 0]
    [] s.dates = "broadcast" -> [day |-> DayOf(t - 6 * 60), off |-> 0]
    [] s.dates = "once"      -> IF k = 1 THEN [day |-> DayOf(t), off |-> 0] ELSE NoDate

Slot(s, i, end) ==
  [hour |-> HourOf(s.starts[i]), min |-> MinOf(s.starts[i]), end |-> end,
   title |-> i, start |-> NoTime, stop |-> NoTime]

EndShown(s, k, i) ==
  IF s.ends /\ (i + 1) \notin Titles(s, k) /\ i < Len(s.starts)
  THEN s.starts[i + 1] % DayMin ELSE NoTime

Shown(s, k) ==
  LET lo == s.first[k] IN
  [page |-> s.pages[k][1], sub |-> s.pages[k][2], skip |-> 0,
   date |-> HeaderDate(s, k),
   slots |-> [j \in 1 .. Cardinality(Titles(s, k)) |->
                Slot(s, lo + j - 1, EndShown(s, k, lo + j - 1))]]

TipsPage(s) ==
  [page |-> TipsPageNo, sub |-> 0, skip |-> 0,
   date |-> [day |-> DayOf(s.starts[1]), off |-> 0],
   slots |-> [j \in 1 .. (Len(s.starts) + 1) \div 2 |-> Slot(s, 2 * j - 1, NoTime)]]

(* At most one page is not received; the BTT is taken to be received if so *)
(* (without it a missing last sub-page cannot be noticed).                 *)
IsService(s) ==
  \E starts \in Schedules, pages \in Layouts, dates \in Dates, extra \in Extras :
  \E first \in [1 .. Len(pages) -> 1 .. Len(starts)],
     lost \in {{}} \union {{k} : k \in 1 .. Len(pages)} :
    /\ first[1] = 1
    /\ \A k \in 2 .. Len(pages) : first[k - 1] < first[k]
    /\ s = [starts |-> starts, pages |-> pages, first |-> first, dates |-> dates,
            repeated |-> "repeated" \in extra, ends |-> "ends" \in extra,
            tips |-> "tips" \in extra, lost |-> lost, top |-> lost # {}]

(* The overview pages in the database, in the order of the map.            *)
Received(s) ==
  LET got    == (1 .. Len(s.pages)) \ s.lost
      nth(n) == CHOOSE k \in got : Cardinality({j \in got : j < k}) = n - 1
  IN [n \in 1 .. Cardinality(got) |-> Shown(s, nth(n))]
       \o (IF s.tips THEN <<TipsPage(s)>> ELSE <<>>)

-----------------------------------------------------------------------------
VARIABLES
  service,    \* the service received, never changes
  phase,      \* step of the calculation
  db,         \* overview pages in the database not looked at yet
  ov,         \* ov_pages
  idx,        \* position in ov_pages
  slots,      \* slots not yet looked at by the filter that runs
  kept,       \* slots it has kept
  prev_stop,  \* stop time of the last of them
  now         \* current time

vars == <<service, phase, db, ov, idx, slots, kept, prev_stop, now>>

(* Number of the last sub-page: from the BTT, which counts one sub-page    *)
(* as none, else the last one received.                                    *)
LastSubPageNo(page) ==
  LET all  == {k \in 1 .. Len(service.pages) : service.pages[k][1] = page}
      seen == IF service.top THEN all ELSE all \ service.lost
      subs == {service.pages[k][2] : k \in seen}
  IN IF subs = {} THEN -1 ELSE CHOOSE m \in subs : \A n \in subs : n <= m

Adjacent(p, q) ==
  \/ p.page = q.page /\ p.sub + p.skip + 1 = q.sub
  \/ /\ GetNextPageNumber(p.page) = q.page
     /\ p.sub + p.skip = LastSubPageNo(p.page)
     /\ q.sub <= 1

Delta(d, e) == (e.day + e.off) - (d.day + d.off)

-----------------------------------------------------------------------------
(* First pass: pages with a plausible table that is not the same as that   *)
(* of the sub-page before it.                                              *)

Minutes(x) == 60 * x.hour + x.min

Plausible(pg) ==
  Cardinality({j \in 2 .. Len(pg.slots) :
                 Minutes(pg.slots[j]) < Minutes(pg.slots[j - 1])}) < 2

Redundant(pg, prev) ==
  /\ pg.page = prev.page
  /\ pg.sub > 1
  /\ pg.sub = prev.sub + prev.skip + 1
  /\ Len(pg.slots) = Len(prev.slots)
  /\ \A j \in 1 .. Len(pg.slots) : Minutes(pg.slots[j]) = Minutes(prev.slots[j])

ParsePage ==
  /\ phase = "parse" /\ db # <<>>
  /\ db' = Tail(db)
  /\ LET pg == Head(db) IN
     ov' = IF pg.slots = <<>> \/ ~Plausible(pg) THEN ov
           ELSE IF ov # <<>> /\ Redundant(pg, Last(ov))
           THEN [ov EXCEPT ![Len(ov)].skip = @ + 1]
           ELSE Append(ov, pg)
  /\ UNCHANGED <<service, phase, idx, slots, kept, prev_stop, now>>

-----------------------------------------------------------------------------
(* Second pass: dates and start times, page by page.                       *)

\* Mutant: the offset found for a page without a date is not remembered.
CalcDateForgetful(i) ==
  IF ov[i].date # NoDate THEN ov[i].date
  ELSE IF i > 1 THEN ov[i - 1].date ELSE NoDate

(* calc_date_off(): the date of page i, NoDate if it cannot be told.  The  *)
(* date of the page before it is used where the pages are adjacent.        *)
CalcDate(i) ==
  LET pg      == ov[i]
      prev    == ov[i - 1]
      known   == i > 1 /\ prev.slots # <<>>
      delta   == IF pg.date # NoDate THEN Delta(prev.date, pg.date) ELSE 0
      outlier == known /\ \/ delta >= MaxOvPageDateDelta
                          \/ delta < 0 /\ Delta(ov[1].date, pg.date) < 0
      follows == /\ known /\ ~outlier /\ Adjacent(prev, pg)
                 /\ delta = 0 \/ (delta = -1 /\ prev.date.off = 1)
      newDay  == follows /\ (delta = -1 \/ pg.slots[1].hour < prev.slots[1].hour)
      off     == IF newDay THEN 1 ELSE 0
  IN IF pg.date # NoDate /\ ~outlier THEN [pg.date EXCEPT !.off = @ + off]
     ELSE IF follows \/ (i > 1 /\ prev.slots = <<>>)
     THEN [prev.date EXCEPT !.off = @ + off]
     ELSE NoDate

(* calculate_start_times(): a smaller hour than in the line before is one  *)
(* of the next day.                                                        *)
StartTime(pg, date, k) ==
  LET wraps == Cardinality({j \in 2 .. k : pg.slots[j - 1].hour > pg.slots[j].hour})
  IN (date.day + date.off + wraps) * DayMin + Minutes(pg.slots[k])

Dated(pg, date) ==
  [pg EXCEPT !.date = date,
     !.slots = [k \in DOMAIN @ |-> [@[k] EXCEPT !.start = StartTime(pg, date, k)]]]

SameSlot(x, y) == x.start = y.start /\ x.title = y.title

(* A slot repeated at the top of the next page is dropped from the first.  *)
DropRepeated(prev, pg) ==
  IF prev.slots # <<>> /\ pg.slots # <<>> /\ SameSlot(Last(prev.slots), pg.slots[1])
  THEN [prev EXCEPT !.slots = Front(@)] ELSE prev

\* Mutant: the index is advanced after a page was erased.
DatePageSkips ==
  /\ phase = "date" /\ idx <= Len(ov)
  /\ LET date == CalcDate(idx)
         pg   == Dated(ov[idx], date)
     IN ov' = IF date = NoDate THEN RemoveAt(ov, idx)
              ELSE [i \in DOMAIN ov |->
                      IF i = idx THEN pg
                      ELSE IF i = idx - 1 THEN DropRepeated(ov[i], pg) ELSE ov[i]]
  /\ idx' = idx + 1
  /\ UNCHANGED <<service, phase, db, slots, kept, prev_stop, now>>

(* A page is dated, or erased from the list when its date is not known.    *)
DatePage ==
  /\ phase = "date" /\ idx <= Len(ov)
  /\ LET date == CalcDate(idx)
         pg   == Dated(ov[idx], date)
     IN IF date = NoDate
        THEN ov' = RemoveAt(ov, idx) /\ UNCHANGED idx
        ELSE /\ ov' = [i \in DOMAIN ov |->
                         IF i = idx THEN pg
                         ELSE IF i = idx - 1 THEN DropRepeated(ov[i], pg) ELSE ov[i]]
             /\ idx' = idx + 1
  /\ UNCHANGED <<service, phase, db, slots, kept, prev_stop, now>>

-----------------------------------------------------------------------------
(* Third pass: stop times.                                                 *)

\* Mutant: the first slot of the next page in the list ends the last one.
StopTimeAnyPage(i, k) ==
  LET x == ov[i].slots[k] IN
  IF k < Len(ov[i].slots) THEN ov[i].slots[k + 1].start
  ELSE IF i < Len(ov) /\ ov[i + 1].slots # <<>> THEN ov[i + 1].slots[1].start
  ELSE NoTime

(* calc_stop_times(): the end time shown, else the start of the next slot, *)
(* on the next page only if that is adjacent and less than 9 hours away.   *)
StopTime(i, k) ==
  LET x == ov[i].slots[k]
      midnight == DayOf(x.start) * DayMin
      next == IF k < Len(ov[i].slots) THEN ov[i].slots[k + 1].start
              ELSE IF i < Len(ov) /\ ov[i + 1].slots # <<>> /\ Adjacent(ov[i], ov[i + 1])
                      /\ ov[i + 1].slots[1].start - x.start \in 1 .. 9 * 60 - 1
              THEN ov[i + 1].slots[1].start ELSE NoTime
  IN IF x.end # NoTime
     THEN midnight + x.end + (IF x.end < Minutes(x) THEN DayMin ELSE 0)
     ELSE IF next # x.start THEN next ELSE NoTime

StopPage ==
  /\ phase = "stop" /\ idx <= Len(ov)
  /\ ov' = [ov EXCEPT ![idx].slots =
              [k \in DOMAIN @ |-> [@[k] EXCEPT !.stop = StopTime(idx, k)]]]
  /\ idx' = idx + 1
  /\ UNCHANGED <<service, phase, db, slots, kept, prev_stop, now>>

-----------------------------------------------------------------------------
(* Filters                                                                 *)

(* get_ov_slots(): the slots of all pages, each at its page and line.      *)
Places == UNION {{i} \X DOMAIN ov[i].slots : i \in DOMAIN ov}

OvSlot(p) ==
  LET x == ov[p[1]].slots[p[2]]
  IN [start |-> x.start, stop |-> x.stop, title |-> x.title, page |-> ov[p[1]].page]

(* Order of slots: by start time, then by page number.                     *)
ByStart(x, y) == x.start < y.start \/ (x.start = y.start /\ x.page < y.page)

(* list::sort() is stable: equal slots stay in the order of the pages.     *)
Before(p, q) ==
  \/ ByStart(OvSlot(p), OvSlot(q))
  \/ /\ ~ByStart(OvSlot(q), OvSlot(p))
     /\ p[1] < q[1] \/ (p[1] = q[1] /\ p[2] < q[2])

SortedSlots ==
  LET nth(n) == CHOOSE p \in Places : Cardinality({q \in Places : Before(q, p)}) = n - 1
  IN [n \in 1 .. Cardinality(Places) |-> OvSlot(nth(n))]

StopOrSecond(x) == IF x.stop = NoTime THEN x.start + 1 ELSE x.stop

\* Mutant: a slot of unknown duration does not hide its duplicate.
FilterOverlappingNoDup ==
  LET x == Head(slots) IN
  /\ phase = "overlap" /\ slots # <<>>
  /\ slots' = Tail(slots)
  /\ IF x.start >= prev_stop
     THEN kept' = Append(kept, x)
          /\ prev_stop' = IF x.stop = NoTime THEN x.start ELSE x.stop
     ELSE UNCHANGED <<kept, prev_stop>>
  /\ UNCHANGED <<service, phase, db, ov, idx, now>>

(* One turn of the loop of FilterOverlappingSlots().  (The second it adds  *)
(* to the start is one minute here; starts are full minutes.)              *)
FilterOverlapping ==
  LET x == Head(slots) IN
  /\ phase = "overlap" /\ slots # <<>>
  /\ slots' = Tail(slots)
  /\ IF x.start >= prev_stop
     THEN kept' = Append(kept, x) /\ prev_stop' = StopOrSecond(x)
     ELSE UNCHANGED <<kept, prev_stop>>
  /\ UNCHANGED <<service, phase, db, ov, idx, now>>

\* Mutant: only the start time counts.
UnexpiredByStart(x) == x.start + 120 >= now - ExpireMin

Unexpired(x) ==
  LET thresh == now - ExpireMin IN
  (x.stop # NoTime /\ x.stop >= thresh) \/ x.start + 120 >= thresh

FilterExpired ==
  LET x == Head(slots) IN
  /\ phase = "expire" /\ slots # <<>>
  /\ slots' = Tail(slots)
  /\ kept' = IF Unexpired(x) THEN Append(kept, x) ELSE kept
  /\ UNCHANGED <<service, phase, db, ov, idx, prev_stop, now>>

-----------------------------------------------------------------------------
(* The passes follow each other.                                           *)

StartDates ==
  /\ phase = "parse" /\ db = <<>>
  /\ phase' = "date" /\ idx' = 1
  /\ UNCHANGED <<service, db, ov, slots, kept, prev_stop, now>>

StartStops ==
  /\ phase = "date" /\ idx > Len(ov)
  /\ phase' = "stop" /\ idx' = 1
  /\ UNCHANGED <<service, db, ov, slots, kept, prev_stop, now>>

StartOverlap ==
  /\ phase = "stop" /\ idx > Len(ov)
  /\ phase' = "overlap"
  /\ slots' = SortedSlots /\ kept' = <<>> /\ prev_stop' = 0
  /\ UNCHANGED <<service, db, ov, idx, now>>

StartExpire ==
  /\ phase = "overlap" /\ slots = <<>>
  /\ phase' = "expire"
  /\ slots' = kept /\ kept' = <<>>
  /\ now' \in {0} \union {service.starts[i] + ExpireMin + 180 : i \in Programmes(service)}
  /\ UNCHANGED <<service, db, ov, idx, prev_stop>>

Finish ==
  /\ phase = "expire" /\ slots = <<>>
  /\ phase' = "done"
  /\ UNCHANGED <<service, db, ov, idx, slots, kept, prev_stop, now>>

Init ==
  /\ IsService(service)
  /\ phase = "parse"
  /\ db = Received(service)
  /\ ov = <<>> /\ idx = 1
  /\ slots = <<>> /\ kept = <<>> /\ prev_stop = 0
  /\ now = 0

Next ==
  \/ ParsePage \/ StartDates
  \/ DatePage \/ StartStops
  \/ StopPage \/ StartOverlap
  \/ FilterOverlapping \/ StartExpire
  \/ FilterExpired \/ Finish

Spec == Init /\ [][Next]_vars
-----------------------------------------------------------------------------
(* Properties                                                              *)

SlotOk(x) ==
  /\ x.hour \in 0 .. 23 /\ x.min \in 0 .. 59 /\ x.end \in -1 .. DayMin - 1
  /\ x.start \in Nat \union {NoTime} /\ x.stop \in Nat \union {NoTime}

(* Pages are dated once all of them were looked at: a page that cannot be  *)
(* dated is erased from the list without skipping the one behind it.       *)
TypeOK ==
  /\ phase \in {"parse", "date", "stop", "overlap", "expire", "done"}
  /\ idx \in 1 .. Len(ov) + 1
  /\ \A i \in DOMAIN ov : \A k \in DOMAIN ov[i].slots : SlotOk(ov[i].slots[k])
  /\ phase \notin {"parse", "date"} =>
       \A i \in DOMAIN ov : /\ ov[i].date # NoDate
                           /\ \A k \in DOMAIN ov[i].slots : ov[i].slots[k].start # NoTime

(* Services whose dates can be told: from one line to the next on a page,  *)
(* and from the first line of a page to that of the next, less than a day  *)
(* passes, and it does not end within the hour it began in.                *)
WithinDay(t, u) == (u - t < DayMin) /\ (DayOf(u) # DayOf(t) => HourOf(u) < HourOf(t))

Regular(s) ==
  /\ \A i \in 1 .. Len(s.starts) - 1 : WithinDay(s.starts[i], s.starts[i + 1])
  /\ \A k \in 1 .. Len(s.pages) - 1 :
       WithinDay(s.starts[s.first[k]], s.starts[s.first[k + 1]])
  /\ s.tips => \A i \in 1 .. Len(s.starts) - 2 : WithinDay(s.starts[i], s.starts[i + 2])

(* Missing pages must be noticed, which takes the number of sub-pages from *)
(* the BTT, and pages with the date of the broadcast day must be complete. *)
Datable(s) ==
  /\ Regular(s)
  /\ s.lost # {} => s.top /\ s.dates # "broadcast"
  /\ s.dates = "broadcast" => HourOf(s.starts[1]) >= 6

(* Every start time calculated is the one of the true schedule, whether a  *)
(* page has its own date, shows the date of the broadcast day after        *)
(* midnight, or has no date and takes it from the page before; pages that  *)
(* were not received do not shift the ones behind them to another day.     *)
TrueTimes ==
  Datable(service) =>
    \A i \in DOMAIN ov : \A k \in DOMAIN ov[i].slots :
      LET x == ov[i].slots[k] IN x.start \in {NoTime, service.starts[x.title]}

(* A stop time is where the next programme of the true schedule begins:    *)
(* never across a page that is missing, or from a page that is no part of  *)
(* the schedule.                                                           *)
TrueStops ==
  Datable(service) =>
    \A i \in DOMAIN ov : \A k \in DOMAIN ov[i].slots :
      LET x == ov[i].slots[k] IN
      ov[i].page # TipsPageNo =>
        x.stop = NoTime \/ (x.title < Len(service.starts)
                            /\ x.stop = service.starts[x.title + 1])

(* Nothing is lost from a service that was received completely: of every   *)
(* programme that was still running ExpireMin ago, and the next of which   *)
(* starts within 9 hours, exactly one slot is left, though it may have     *)
(* been listed on two pages; of the others at most one.                    *)
FewWraps(s) ==
  \A k \in 1 .. Len(s.pages) : Plausible(Shown(s, k))

CompleteSchedule ==
  phase = "done" /\ Datable(service) /\ service.lost = {} /\ FewWraps(service) =>
    \A i \in Programmes(service) :
      LET found == {n \in DOMAIN kept : kept[n].title = i}
          next  == service.starts[i + 1]
      IN /\ Cardinality(found) <= 1
         /\ i < Len(service.starts) /\ next - service.starts[i] < 9 * 60
              /\ next >= now - ExpireMin => found # {}

(* The schedule is in order and programmes do not overlap, whatever the    *)
(* pages said; the only exception are slots that end before they start.    *)
NoOverlap ==
  phase \in {"overlap", "expire", "done"} =>
    \A m, n \in DOMAIN kept : m < n =>
      /\ kept[m].start <= kept[n].start
      /\ StopOrSecond(kept[m]) > kept[m].start => StopOrSecond(kept[m]) <= kept[n].start
=============================================================================
