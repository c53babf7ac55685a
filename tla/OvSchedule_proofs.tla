-------------------------- MODULE OvSchedule_proofs --------------------------
(* Proofs about the schedule made of overview pages: for any schedule of a *)
(* broadcaster, any layout of its pages, any page that is missing.         *)
EXTENDS OvSchedule, SequenceLemmas

DateSet == {NoDate} \union [day : Nat, off : Nat]

SlotSet ==
  [hour : 0 .. 23, min : 0 .. 59, end : -1 .. DayMin - 1, title : Nat,
   start : Nat \union {NoTime}, stop : Nat \union {NoTime}]

PageSet ==
  [page : Nat, sub : Nat, skip : Nat, date : DateSet, slots : Seq(SlotSet)]

(* A page whose date was found.                                            *)
IsDated(pg) ==
  /\ pg.date \in [day : Nat, off : Nat]
  /\ \A k \in 1 .. Len(pg.slots) : pg.slots[k].start \in Nat

(* A slot of the combined list.                                            *)
OutSet ==
  [start : Nat, stop : Nat \union {NoTime}, title : Nat, page : Nat]

(* Pages in front of idx are dated, and all of them once the second pass   *)
(* is over.                                                                *)
PagesInv ==
  /\ phase \in {"parse", "date", "stop", "overlap", "expire", "done"}
  /\ IsService(service)
  /\ db \in Seq(PageSet) /\ ov \in Seq(PageSet)
  /\ idx \in 1 .. Len(ov) + 1
  /\ phase = "date" => \A i \in 1 .. idx - 1 : IsDated(ov[i])
  /\ phase \notin {"parse", "date"} => \A i \in 1 .. Len(ov) : IsDated(ov[i])

(* x may be followed by y in the schedule.                                 *)
Follows(x, y) ==
  /\ x.start <= y.start
  /\ StopOrSecond(x) > x.start => StopOrSecond(x) <= y.start

AllFollow(s) == \A m, n \in 1 .. Len(s) : m < n => Follows(s[m], s[n])

(* What the filters have kept and what they have not looked at.  The       *)
(* second filter needs that nothing kept overlaps what is still to come.   *)
FilterInv ==
  /\ slots \in Seq(OutSet) /\ kept \in Seq(OutSet)
  /\ prev_stop \in Nat
  /\ AllFollow(kept)
  /\ phase = "overlap" =>
       /\ \A m, n \in 1 .. Len(slots) : m < n => slots[m].start <= slots[n].start
       /\ \A m \in 1 .. Len(kept), n \in 1 .. Len(slots) : kept[m].start <= slots[n].start
       /\ kept # <<>> => prev_stop = StopOrSecond(kept[Len(kept)])
  /\ phase = "expire" =>
       /\ AllFollow(slots)
       /\ \A m \in 1 .. Len(kept), n \in 1 .. Len(slots) : Follows(kept[m], slots[n])

-----------------------------------------------------------------------------
(* Times and services                                                      *)

(* A time is told by its day, hour and minute.                             *)
LEMMA TimeParts ==
  ASSUME NEW t \in Nat
  PROVE  /\ DayOf(t) \in Nat /\ HourOf(t) \in 0 .. 23 /\ MinOf(t) \in 0 .. 59
         /\ t = DayOf(t) * DayMin + 60 * HourOf(t) + MinOf(t)
         /\ t % DayMin \in 0 .. DayMin - 1
         /\ (t % DayMin) = 60 * HourOf(t) + MinOf(t)
         /\ (t % DayMin) \in Nat /\ HourOf(t) \in Nat
         /\ t = DayOf(t) * DayMin + (t % DayMin)
<1>1. /\ t \div DayMin \in Nat /\ t % DayMin \in 0 .. DayMin - 1
      /\ t = DayMin * (t \div DayMin) + (t % DayMin)
  BY DEF DayMin
<1>. DEFINE m == t % DayMin
<1>2. m \in 0 .. 1439
  BY <1>1 DEF DayMin
<1>. HIDE DEF m
<1>3. m \div 60 \in 0 .. 23 /\ m % 60 \in 0 .. 59 /\ m = 60 * (m \div 60) + (m % 60)
  BY <1>2
<1>4. t % 60 = m % 60
  BY <1>1, <1>2 DEF m, DayMin
<1>5. (t % DayMin) \in Nat /\ m \div 60 \in Nat
  <2>1. m \in Nat /\ m \div 60 \in Nat
    BY <1>2, <1>3
  <2>. QED
    BY <2>1 DEF m
<1>6. t = (t \div DayMin) * DayMin + (t % DayMin)
  BY <1>1 DEF DayMin
<1>. QED
  BY <1>1, <1>3, <1>4, <1>5, <1>6 DEF m, DayOf, HourOf, MinOf, DayMin

(* What a service consists of.                                             *)
LEMMA ServiceParts ==
  ASSUME NEW s, IsService(s)
  PROVE  /\ s.starts \in Seq(Nat)
         /\ \A i \in 1 .. Len(s.starts) : s.starts[i] \in Nat /\ s.starts[i] >= DayMin
         /\ \A i, j \in 1 .. Len(s.starts) : i < j => s.starts[i] < s.starts[j]
         /\ s.pages \in Seq(Nat \X Nat) /\ s.pages # <<>>
         /\ s.dates \in {"calendar", "broadcast", "once"}
         /\ s.repeated \in BOOLEAN /\ s.ends \in BOOLEAN /\ s.tips \in BOOLEAN
         /\ s.lost \subseteq 1 .. Len(s.pages)
         /\ s.first \in [1 .. Len(s.pages) -> 1 .. Len(s.starts)]
         /\ s.first[1] = 1
         /\ \A k \in 2 .. Len(s.pages) : s.first[k - 1] < s.first[k]
<1>1. PICK starts \in Schedules, pages \in Layouts, dates \in Dates, extra \in Extras :
        \E first \in [1 .. Len(pages) -> 1 .. Len(starts)],
           lost \in {{}} \union {{k} : k \in 1 .. Len(pages)} :
          /\ first[1] = 1
          /\ \A k \in 2 .. Len(pages) : first[k - 1] < first[k]
          /\ s = [starts |-> starts, pages |-> pages, first |-> first, dates |-> dates,
                  repeated |-> "repeated" \in extra, ends |-> "ends" \in extra,
                  tips |-> "tips" \in extra, lost |-> lost, top |-> lost # {}]
  BY DEF IsService
<1>2. PICK first \in [1 .. Len(pages) -> 1 .. Len(starts)],
           lost \in {{}} \union {{k} : k \in 1 .. Len(pages)} :
          /\ first[1] = 1
          /\ \A k \in 2 .. Len(pages) : first[k - 1] < first[k]
          /\ s = [starts |-> starts, pages |-> pages, first |-> first, dates |-> dates,
                  repeated |-> "repeated" \in extra, ends |-> "ends" \in extra,
                  tips |-> "tips" \in extra, lost |-> lost, top |-> lost # {}]
  BY <1>1
<1>3. /\ s.starts = starts /\ s.pages = pages /\ s.first = first /\ s.dates = dates
      /\ s.repeated \in BOOLEAN /\ s.ends \in BOOLEAN /\ s.tips \in BOOLEAN
      /\ s.lost = lost
  BY <1>2
<1>4. /\ starts \in Seq(Nat)
      /\ \A i \in 1 .. Len(starts) : starts[i] \in Nat /\ starts[i] >= DayMin
      /\ \A i, j \in 1 .. Len(starts) : i < j => starts[i] < starts[j]
      /\ pages \in Seq(Nat \X Nat) /\ pages # <<>>
      /\ dates \in {"calendar", "broadcast", "once"}
  <2>1. starts \in Seq(Nat)
    BY <1>1, ScheduleAssumption
  <2>2. /\ \A i \in 1 .. Len(starts) : starts[i] >= DayMin
        /\ \A i, j \in 1 .. Len(starts) : i < j => starts[i] < starts[j]
    BY <1>1, ScheduleAssumption
  <2>3. pages \in Seq(Nat \X Nat) /\ pages # <<>>
    BY <1>1, ScheduleAssumption
  <2>4. dates \in {"calendar", "broadcast", "once"}
    BY <1>1, ScheduleAssumption
  <2>. QED
    BY <2>1, <2>2, <2>3, <2>4
<1>. QED
  BY <1>2, <1>3, <1>4

(* The programmes listed on a page, which lists at least one.              *)
LastTitle(s, k) ==
  IF k = Len(s.pages) THEN Len(s.starts)
  ELSE IF s.repeated THEN s.first[k + 1] ELSE s.first[k + 1] - 1

LEMMA PageTitles ==
  ASSUME NEW s, IsService(s), NEW k \in 1 .. Len(s.pages)
  PROVE  /\ Titles(s, k) = s.first[k] .. LastTitle(s, k)
         /\ s.first[k] \in 1 .. Len(s.starts)
         /\ LastTitle(s, k) \in s.first[k] .. Len(s.starts)
         /\ Cardinality(Titles(s, k)) = LastTitle(s, k) - s.first[k] + 1
<1>1. Titles(s, k) = s.first[k] .. LastTitle(s, k)
  BY DEF Titles, LastTitle
<1>2. Len(s.pages) \in Nat /\ Len(s.starts) \in Nat
  BY ServiceParts
<1>3. /\ s.first[k] \in 1 .. Len(s.starts)
      /\ k # Len(s.pages) => s.first[k + 1] \in 1 .. Len(s.starts) /\ s.first[k] < s.first[k + 1]
  <2>1. /\ s.first \in [1 .. Len(s.pages) -> 1 .. Len(s.starts)]
        /\ \A j \in 2 .. Len(s.pages) : s.first[j - 1] < s.first[j]
    BY ServiceParts
  <2>2. CASE k # Len(s.pages)
    <3>1. k + 1 \in 2 .. Len(s.pages) /\ (k + 1) - 1 = k /\ k + 1 \in 1 .. Len(s.pages)
      BY <1>2, <2>2
    <3>2. s.first[(k + 1) - 1] < s.first[k + 1]
      BY <2>1, <3>1
    <3>. QED
      BY <2>1, <3>1, <3>2
  <2>. QED
    BY <2>1, <2>2
<1>4. LastTitle(s, k) \in s.first[k] .. Len(s.starts)
  BY <1>2, <1>3 DEF LastTitle
<1>5. Cardinality(s.first[k] .. LastTitle(s, k)) = LastTitle(s, k) - s.first[k] + 1
  <2>1. s.first[k] \in Int /\ LastTitle(s, k) \in Int /\ s.first[k] <= LastTitle(s, k)
    BY <1>2, <1>3, <1>4
  <2>. QED
    BY <2>1, FS_Interval
<1>. QED
  BY <1>1, <1>3, <1>4, <1>5

LEMMA SlotType ==
  ASSUME NEW s, IsService(s), NEW i \in 1 .. Len(s.starts), NEW end \in -1 .. DayMin - 1
  PROVE  Slot(s, i, end) \in SlotSet
<1>1. s.starts[i] \in Nat /\ i \in Nat
  BY ServiceParts
<1>2. HourOf(s.starts[i]) \in 0 .. 23 /\ MinOf(s.starts[i]) \in 0 .. 59
  BY <1>1, TimeParts
<1>. QED
  BY <1>1, <1>2 DEF Slot, SlotSet

LEMMA EndShownType ==
  ASSUME NEW s, IsService(s), NEW k \in 1 .. Len(s.pages), NEW i \in 1 .. Len(s.starts)
  PROVE  EndShown(s, k, i) \in -1 .. DayMin - 1
<1>1. Len(s.starts) \in Nat
  BY ServiceParts
<1>2. i < Len(s.starts) => s.starts[i + 1] % DayMin \in 0 .. DayMin - 1
  <2>1. SUFFICES ASSUME i < Len(s.starts) PROVE s.starts[i + 1] % DayMin \in 0 .. DayMin - 1
    OBVIOUS
  <2>2. i + 1 \in 1 .. Len(s.starts)
    BY <1>1, <2>1
  <2>. QED
    BY <2>2, ServiceParts, TimeParts
<1>3. EndShown(s, k, i) = NoTime \/ (i < Len(s.starts) /\ EndShown(s, k, i) = s.starts[i + 1] % DayMin)
  BY DEF EndShown
<1>4. NoTime \in -1 .. DayMin - 1 /\ 0 .. DayMin - 1 \subseteq -1 .. DayMin - 1
  BY DEF NoTime, DayMin
<1>. QED
  BY <1>2, <1>3, <1>4

(* A page as it is broadcast.                                              *)
LEMMA ShownPage ==
  ASSUME NEW s, IsService(s), NEW k \in 1 .. Len(s.pages)
  PROVE  /\ Shown(s, k) \in PageSet
         /\ Shown(s, k).page = s.pages[k][1] /\ Shown(s, k).sub = s.pages[k][2]
         /\ Shown(s, k).skip = 0 /\ Shown(s, k).date = HeaderDate(s, k)
         /\ Len(Shown(s, k).slots) = LastTitle(s, k) - s.first[k] + 1
         /\ \A j \in 1 .. Len(Shown(s, k).slots) :
              LET i == s.first[k] + j - 1
              IN Shown(s, k).slots[j] = Slot(s, i, EndShown(s, k, i))
<1>. DEFINE n == LastTitle(s, k) - s.first[k] + 1
            e(j) == Slot(s, s.first[k] + j - 1, EndShown(s, k, s.first[k] + j - 1))
            q == [j \in 1 .. n |-> e(j)]
<1>1. s.first[k] \in 1 .. Len(s.starts) /\ LastTitle(s, k) \in s.first[k] .. Len(s.starts)
      /\ Len(s.starts) \in Nat
  BY PageTitles, ServiceParts
<1>2. n \in Nat
  BY <1>1
<1>3. ASSUME NEW j \in 1 .. n PROVE e(j) \in SlotSet
  <2>1. s.first[k] + j - 1 \in 1 .. Len(s.starts)
    BY <1>1
  <2>. QED
    BY <2>1, EndShownType, SlotType
<1>4. q \in [1 .. n -> SlotSet]
  BY <1>3
<1>. HIDE DEF e
<1>5. q \in Seq(SlotSet) /\ Len(q) = n
  <2>. HIDE DEF n, q
  <2>1. q \in Seq(SlotSet)
    BY <1>2, <1>4, SeqDef
  <2>. QED
    BY <1>2, <1>4, <2>1, LenProperties
<1>6. s.pages[k][1] \in Nat /\ s.pages[k][2] \in Nat
  BY ServiceParts
<1>7. HeaderDate(s, k) \in DateSet
  <2>1. s.starts[s.first[k]] \in Nat /\ s.starts[s.first[k]] >= DayMin
    BY <1>1, ServiceParts
  <2>2. s.starts[s.first[k]] - 6 * 60 \in Nat
    BY <2>1 DEF DayMin
  <2>3. /\ DayOf(s.starts[s.first[k]]) \in Nat
        /\ DayOf(s.starts[s.first[k]] - 6 * 60) \in Nat
    BY <2>1, <2>2, TimeParts
  <2>. QED
    BY <2>3, ServiceParts DEF HeaderDate, DateSet
<1>8. Shown(s, k) = [page |-> s.pages[k][1], sub |-> s.pages[k][2], skip |-> 0,
                     date |-> HeaderDate(s, k), slots |-> q]
  BY PageTitles DEF Shown, e
<1>. HIDE DEF q
<1>9. Shown(s, k) \in PageSet
  BY <1>5, <1>6, <1>7, <1>8 DEF PageSet
<1>10. \A j \in 1 .. n : q[j] = e(j)
  BY DEF q
<1>. QED
  BY <1>5, <1>8, <1>9, <1>10 DEF e

LEMMA HalfOf ==
  ASSUME NEW m \in Nat
  PROVE  /\ (m + 1) \div 2 \in Nat /\ 2 * ((m + 1) \div 2) <= m + 1
         /\ m >= 1 => (m + 1) \div 2 >= 1
OBVIOUS

(* The page of tips lists every other programme.                           *)
LEMMA TipsShown ==
  ASSUME NEW s, IsService(s)
  PROVE  /\ TipsPage(s) \in PageSet
         /\ TipsPage(s).page = TipsPageNo /\ TipsPage(s).skip = 0
         /\ TipsPage(s).date = [day |-> DayOf(s.starts[1]), off |-> 0]
         /\ Len(TipsPage(s).slots) = (Len(s.starts) + 1) \div 2
         /\ \A j \in 1 .. Len(TipsPage(s).slots) :
              /\ 2 * j - 1 \in 1 .. Len(s.starts)
              /\ TipsPage(s).slots[j] = Slot(s, 2 * j - 1, NoTime)
<1>. DEFINE n == (Len(s.starts) + 1) \div 2
            e(j) == Slot(s, 2 * j - 1, NoTime)
            q == [j \in 1 .. n |-> e(j)]
<1>1. Len(s.starts) \in Nat
  BY ServiceParts
<1>2. n \in Nat /\ \A j \in 1 .. n : 2 * j - 1 \in 1 .. Len(s.starts)
  <2>1. n \in Nat /\ 2 * n <= Len(s.starts) + 1
    BY <1>1, HalfOf
  <2>. HIDE DEF n
  <2>2. ASSUME NEW j \in 1 .. n PROVE 2 * j - 1 \in 1 .. Len(s.starts)
    <3>1. j \in Nat /\ 1 <= j /\ j <= n
      BY <2>1
    <3>. QED
      BY <1>1, <2>1, <3>1
  <2>. QED
    BY <2>1, <2>2
<1>3. ASSUME NEW j \in 1 .. n PROVE e(j) \in SlotSet
  <2>1. NoTime \in -1 .. DayMin - 1
    BY DEF NoTime, DayMin
  <2>. QED
    BY <1>2, <2>1, SlotType
<1>4. q \in [1 .. n -> SlotSet]
  BY <1>3
<1>. HIDE DEF e
<1>5. q \in Seq(SlotSet) /\ Len(q) = n
  <2>. HIDE DEF n, q
  <2>1. q \in Seq(SlotSet)
    BY <1>2, <1>4, SeqDef
  <2>. QED
    BY <1>2, <1>4, <2>1, LenProperties
<1>6. DayOf(s.starts[1]) \in Nat
  <2>1. 1 \in 1 .. Len(s.starts)
    <3>1. s.first \in [1 .. Len(s.pages) -> 1 .. Len(s.starts)] /\ s.first[1] = 1
          /\ s.pages # <<>> /\ s.pages \in Seq(Nat \X Nat)
      BY ServiceParts
    <3>2. 1 \in 1 .. Len(s.pages)
      BY <3>1, EmptySeq
    <3>. QED
      BY <3>1, <3>2
  <2>. QED
    BY <2>1, ServiceParts, TimeParts
<1>7. TipsPage(s) = [page |-> TipsPageNo, sub |-> 0, skip |-> 0,
                     date |-> [day |-> DayOf(s.starts[1]), off |-> 0], slots |-> q]
  BY DEF TipsPage, e
<1>. HIDE DEF q
<1>8. TipsPage(s) \in PageSet
  <2>1. [day |-> DayOf(s.starts[1]), off |-> 0] \in DateSet /\ TipsPageNo \in Nat
    BY <1>6 DEF DateSet, TipsPageNo
  <2>. QED
    BY <1>5, <1>7, <2>1 DEF PageSet
<1>9. \A j \in 1 .. n : q[j] = e(j)
  BY DEF q
<1>10. n = (Len(s.starts) + 1) \div 2
  OBVIOUS
<1>. HIDE DEF n
<1>11. \A j \in 1 .. n : q[j] = Slot(s, 2 * j - 1, NoTime)
  BY <1>9 DEF e
<1>12. /\ TipsPage(s).slots = q /\ TipsPage(s).page = TipsPageNo /\ TipsPage(s).skip = 0
       /\ TipsPage(s).date = [day |-> DayOf(s.starts[1]), off |-> 0]
  BY <1>7
<1>. QED
  BY <1>2, <1>5, <1>8, <1>10, <1>11, <1>12

(* The pages received are those that are not lost, in their order, and the *)
(* page of tips.                                                           *)
LEMMA ReceivedPages ==
  ASSUME NEW s, IsService(s)
  PROVE  /\ Received(s) \in Seq(PageSet)
         /\ \E g \in Seq((1 .. Len(s.pages)) \ s.lost) :
              /\ Range(g) = (1 .. Len(s.pages)) \ s.lost
              /\ \A i, j \in 1 .. Len(g) : i < j => g[i] < g[j]
              /\ s.lost = {} => \A i \in 1 .. Len(g) : g[i] = i
              /\ Len(Received(s)) = Len(g) + (IF s.tips THEN 1 ELSE 0)
              /\ \A n \in 1 .. Len(g) : Received(s)[n] = Shown(s, g[n])
              /\ s.tips => Received(s)[Len(g) + 1] = TipsPage(s)
<1>. DEFINE got == (1 .. Len(s.pages)) \ s.lost
            R == {ij \in got \X got : ij[1] < ij[2]}
            nth(n) == CHOOSE k \in got : Cardinality({j \in got : j < k}) = n - 1
            g == [n \in 1 .. Cardinality(got) |-> nth(n)]
            a == [n \in 1 .. Cardinality(got) |-> Shown(s, nth(n))]
            b == IF s.tips THEN <<TipsPage(s)>> ELSE <<>>
<1>1. Received(s) = a \o b
  BY DEF Received
<1>2. IsFiniteSet(got) /\ got \subseteq 1 .. Len(s.pages) /\ Len(s.pages) \in Nat
  <2>1. Len(s.pages) \in Nat /\ IsFiniteSet(1 .. Len(s.pages))
    BY ServiceParts, FS_Interval
  <2>. QED
    BY <2>1, FS_Difference
<1>3. TotalOrder(R, got)
  BY <1>2 DEF TotalOrder
<1>4. \A k \in got : Rank(k, R, got) = Cardinality({j \in got : j < k})
  <2>1. \A k \in got : {j \in got : <<j, k>> \in R} = {j \in got : j < k}
    OBVIOUS
  <2>. QED
    BY <2>1 DEF Rank
<1>5. Cardinality(got) \in Nat
  BY <1>2, FS_CardinalityType
<1>6. ASSUME NEW n \in 1 .. Cardinality(got)
      PROVE  nth(n) \in got /\ Rank(nth(n), R, got) = n - 1
  <2>1. n - 1 \in 0 .. Cardinality(got) - 1
    BY <1>5
  <2>2. \E k \in got : Cardinality({j \in got : j < k}) = n - 1
    <3>. HIDE DEF got, R
    <3>1. \E k \in got : Rank(k, R, got) = n - 1
      BY <1>2, <1>3, <2>1, RankOccurs
    <3>. QED
      BY <1>4, <3>1
  <2>3. nth(n) \in got /\ Cardinality({j \in got : j < nth(n)}) = n - 1
    BY <2>2
  <2>. QED
    BY <1>4, <2>3
<1>. HIDE DEF nth, R
<1>7. g \in [1 .. Cardinality(got) -> got] /\ \A n \in 1 .. Cardinality(got) : g[n] = nth(n)
  BY <1>6
<1>8. /\ g \in Seq(got) /\ Len(g) = Cardinality(got)
      /\ Range(g) = got
      /\ \A i, j \in 1 .. Len(g) : i < j => <<g[i], g[j]>> \in R
  <2>. HIDE DEF g, got
  <2>1. \A n \in 1 .. Cardinality(got) : Rank(g[n], R, got) = n - 1
    BY <1>6, <1>7
  <2>. QED
    BY <1>2, <1>3, <1>7, <2>1, Listing
<1>9. \A i, j \in 1 .. Len(g) : i < j => g[i] < g[j]
  BY <1>8 DEF R
<1>16. ASSUME s.lost = {}, NEW i \in 1 .. Len(g) PROVE g[i] = i
  <2>1. got = 1 .. Len(s.pages) /\ g[i] \in got /\ i \in 1 .. Cardinality(got)
    BY <1>7, <1>8, <1>16
  <2>2. Cardinality({j \in got : j < g[i]}) = i - 1
    BY <1>4, <1>6, <1>7, <2>1
  <2>3. {j \in got : j < g[i]} = 1 .. g[i] - 1
    BY <1>2, <2>1
  <2>4. g[i] \in Nat /\ 1 <= g[i]
    BY <1>2, <2>1
  <2>. HIDE DEF g, got
  <2>5. Cardinality(1 .. g[i] - 1) = g[i] - 1
    <3>1. 1 \in Int /\ g[i] - 1 \in Int
      BY <2>4
    <3>2. Cardinality(1 .. g[i] - 1) = (IF 1 > g[i] - 1 THEN 0 ELSE (g[i] - 1) - 1 + 1)
      BY <3>1, FS_Interval
    <3>. QED
      BY <2>4, <3>2
  <2>6. g[i] - 1 = i - 1
    BY <2>2, <2>3, <2>5, Zenon
  <2>7. i \in Nat
    BY <1>5, <2>1
  <2>. QED
    BY <2>4, <2>6, <2>7
<1>10. a \in Seq(PageSet) /\ Len(a) = Len(g) /\ \A n \in 1 .. Len(g) : a[n] = Shown(s, g[n])
  <2>1. \A n \in 1 .. Cardinality(got) : Shown(s, nth(n)) \in PageSet
    BY <1>2, <1>6, ShownPage
  <2>2. a \in [1 .. Cardinality(got) -> PageSet]
    BY <2>1
  <2>3. a \in Seq(PageSet)
    BY <1>5, <2>2, SeqDef
  <2>4. Len(a) = Cardinality(got)
    BY <1>5, <2>2, <2>3, LenProperties
  <2>5. \A n \in 1 .. Cardinality(got) : a[n] = Shown(s, g[n])
    OBVIOUS
  <2>. QED
    BY <1>8, <2>3, <2>4, <2>5
<1>11. /\ b \in Seq(PageSet) /\ Len(b) = (IF s.tips THEN 1 ELSE 0)
       /\ s.tips => b[1] = TipsPage(s)
  <2>1. TipsPage(s) \in PageSet
    BY TipsShown
  <2>. HIDE DEF got
  <2>2. CASE s.tips
    BY <2>1, <2>2
  <2>3. CASE ~s.tips
    BY <2>3, EmptySeq
  <2>. QED
    BY <2>2, <2>3
<1>. HIDE DEF a, b, g, got
<1>12. /\ a \o b \in Seq(PageSet) /\ Len(a \o b) = Len(a) + Len(b)
       /\ \A i \in 1 .. Len(a) + Len(b) :
            (a \o b)[i] = IF i <= Len(a) THEN a[i] ELSE b[i - Len(a)]
  <2>1. a \in Seq(PageSet) /\ b \in Seq(PageSet)
    BY <1>10, <1>11
  <2>. QED
    BY <2>1, ConcatProperties
<1>13. Len(g) \in Nat
  BY <1>5, <1>8
<1>14. \A n \in 1 .. Len(g) : (a \o b)[n] = Shown(s, g[n])
  BY <1>10, <1>11, <1>12, <1>13
<1>15. s.tips => (a \o b)[Len(g) + 1] = TipsPage(s)
  <2>1. (Len(g) + 1) - Len(g) = 1 /\ ~(Len(g) + 1 <= Len(g))
    BY <1>13
  <2>. QED
    BY <1>10, <1>11, <1>12, <1>13, <2>1
<1>. QED
  BY <1>1, <1>8, <1>9, <1>10, <1>11, <1>12, <1>14, <1>15, <1>16 DEF got

-----------------------------------------------------------------------------
(* Pages                                                                   *)

LEMMA PageParts ==
  ASSUME NEW pg \in PageSet
  PROVE  /\ pg.page \in Nat /\ pg.sub \in Nat /\ pg.skip \in Nat /\ pg.date \in DateSet
         /\ pg.slots \in Seq(SlotSet) /\ Len(pg.slots) \in Nat
         /\ \A k \in 1 .. Len(pg.slots) : pg.slots[k] \in SlotSet
         /\ DOMAIN pg.slots = 1 .. Len(pg.slots)
<1>1. pg.slots \in Seq(SlotSet)
  BY DEF PageSet
<1>. QED
  BY <1>1, LenProperties DEF PageSet

LEMMA SlotParts ==
  ASSUME NEW x \in SlotSet
  PROVE  /\ x.hour \in 0 .. 23 /\ x.min \in 0 .. 59
         /\ x.end \in -1 .. DayMin - 1 /\ (x.end # NoTime => x.end \in Nat)
         /\ x.title \in Nat
         /\ x.start \in Nat \union {NoTime} /\ x.stop \in Nat \union {NoTime}
         /\ Minutes(x) \in Nat
<1>1. /\ x.hour \in 0 .. 23 /\ x.min \in 0 .. 59 /\ x.end \in -1 .. DayMin - 1
      /\ x.title \in Nat
      /\ x.start \in Nat \union {NoTime} /\ x.stop \in Nat \union {NoTime}
  BY DEF SlotSet
<1>2. Minutes(x) \in Nat
  BY <1>1 DEF Minutes
<1>3. x.end # NoTime => x.end \in Nat
  <2>1. x.end \in -1 .. DayMin - 1
    BY <1>1
  <2>2. x.end \in Int /\ -1 <= x.end
    BY <2>1 DEF DayMin
  <2>. QED
    BY <2>2 DEF NoTime
<1>. QED
  BY <1>1, <1>2, <1>3

(* Start times are added to the lines of a page when its date is known.    *)
LEMMA DatedPage ==
  ASSUME NEW pg \in PageSet, NEW date \in [day : Nat, off : Nat]
  PROVE  /\ Dated(pg, date) \in PageSet /\ IsDated(Dated(pg, date))
         /\ Dated(pg, date).page = pg.page /\ Dated(pg, date).sub = pg.sub
         /\ Dated(pg, date).skip = pg.skip /\ Dated(pg, date).date = date
         /\ Len(Dated(pg, date).slots) = Len(pg.slots)
         /\ \A k \in 1 .. Len(pg.slots) :
              Dated(pg, date).slots[k] = [pg.slots[k] EXCEPT !.start = StartTime(pg, date, k)]
<1>. DEFINE e(k) == [pg.slots[k] EXCEPT !.start = StartTime(pg, date, k)]
            q == [k \in DOMAIN pg.slots |-> e(k)]
            n == Len(pg.slots)
<1>1. /\ n \in Nat /\ DOMAIN pg.slots = 1 .. n
      /\ \A k \in 1 .. n : pg.slots[k] \in SlotSet
  BY PageParts
<1>2. ASSUME NEW k \in 1 .. n PROVE StartTime(pg, date, k) \in Nat
  <2>. DEFINE T == {j \in 2 .. k : pg.slots[j - 1].hour > pg.slots[j].hour}
  <2>1. IsFiniteSet(2 .. k)
    BY <1>1, FS_Interval
  <2>2. Cardinality(T) \in Nat
    BY <2>1, FS_Subset, FS_CardinalityType
  <2>. HIDE DEF T
  <2>3. Minutes(pg.slots[k]) \in Nat
    BY <1>1, SlotParts
  <2>4. date.day + date.off + Cardinality(T) \in Nat
    BY <2>2
  <2>5. (date.day + date.off + Cardinality(T)) * DayMin \in Nat
    BY <2>4 DEF DayMin
  <2>. QED
    BY <2>3, <2>5 DEF StartTime, T
<1>3. ASSUME NEW k \in 1 .. n PROVE e(k) \in SlotSet /\ e(k).start \in Nat
  BY <1>1, <1>2 DEF SlotSet
<1>. HIDE DEF e
<1>4. q \in [1 .. n -> SlotSet] /\ \A k \in 1 .. n : q[k] = e(k)
  BY <1>1, <1>3
<1>. HIDE DEF q
<1>5. q \in Seq(SlotSet) /\ Len(q) = n
  <2>1. q \in Seq(SlotSet)
    BY <1>1, <1>4, SeqDef
  <2>. HIDE DEF n
  <2>. QED
    BY <1>1, <1>4, <2>1, LenProperties
<1>6. Dated(pg, date) = [pg EXCEPT !.date = date, !.slots = q]
  BY DEF Dated, q, e
<1>7. Dated(pg, date) = [page |-> pg.page, sub |-> pg.sub, skip |-> pg.skip,
                         date |-> date, slots |-> q]
  BY <1>6 DEF PageSet
<1>8. Dated(pg, date) \in PageSet
  BY <1>5, <1>7, PageParts DEF PageSet, DateSet
<1>9. IsDated(Dated(pg, date))
  BY <1>3, <1>4, <1>5, <1>7 DEF IsDated
<1>. QED
  BY <1>4, <1>5, <1>7, <1>8, <1>9 DEF e

(* At most the last slot of the page before is dropped.                    *)
LEMMA DroppedPage ==
  ASSUME NEW prev \in PageSet, IsDated(prev), NEW pg
  PROVE  LET p == DropRepeated(prev, pg) IN
         /\ p \in PageSet /\ IsDated(p)
         /\ p.page = prev.page /\ p.sub = prev.sub /\ p.skip = prev.skip /\ p.date = prev.date
         /\ Len(p.slots) <= Len(prev.slots)
         /\ \A k \in 1 .. Len(p.slots) : p.slots[k] = prev.slots[k]
         /\ prev.slots # <<>> /\ pg.slots # <<>> /\ SameSlot(Last(prev.slots), pg.slots[1])
              => Len(p.slots) = Len(prev.slots) - 1
<1>. DEFINE drop == prev.slots # <<>> /\ pg.slots # <<>> /\ SameSlot(Last(prev.slots), pg.slots[1])
            p == DropRepeated(prev, pg)
            q == Front(prev.slots)
<1>1. /\ prev.slots \in Seq(SlotSet) /\ Len(prev.slots) \in Nat
      /\ \A k \in 1 .. Len(prev.slots) : prev.slots[k] \in SlotSet
  BY PageParts
<1>2. CASE ~drop
  <2>1. p = prev
    BY <1>2 DEF DropRepeated
  <2>. HIDE DEF p
  <2>. QED
    BY <1>1, <1>2, <2>1 DEF p
<1>3. CASE drop
  <2>1. p = [prev EXCEPT !.slots = q]
    BY <1>3 DEF DropRepeated
  <2>2. p = [page |-> prev.page, sub |-> prev.sub, skip |-> prev.skip,
             date |-> prev.date, slots |-> q]
    BY <2>1 DEF PageSet
  <2>3. Len(prev.slots) > 0
    BY <1>1, <1>3, EmptySeq
  <2>4. /\ q \in Seq(SlotSet) /\ Len(q) = Len(prev.slots) - 1
        /\ \A k \in 1 .. Len(q) : q[k] = prev.slots[k]
    <3>1. \A k \in 1 .. Len(prev.slots) - 1 : prev.slots[k] \in SlotSet
      BY <1>1
    <3>2. /\ q \in Seq(SlotSet)
          /\ Len(q) = (IF 1 <= Len(prev.slots) - 1 THEN (Len(prev.slots) - 1) - 1 + 1 ELSE 0)
          /\ \A k \in 1 .. (Len(prev.slots) - 1) - 1 + 1 : q[k] = prev.slots[1 + k - 1]
      BY <1>1, <3>1, SubSeqProperties DEF Front
    <3>. QED
      BY <1>1, <2>3, <3>2
  <2>. HIDE DEF q, p
  <2>5. p \in PageSet
    BY <2>2, <2>4, PageParts DEF PageSet
  <2>6. IsDated(p)
    BY <1>1, <2>2, <2>3, <2>4 DEF IsDated
  <2>. QED
    BY <1>1, <2>2, <2>3, <2>4, <2>5, <2>6 DEF p
<1>. QED
  BY <1>2, <1>3

(* The date found for a page, or none.                                     *)
LEMMA CalcDateType ==
  ASSUME PagesInv, phase = "date", idx <= Len(ov)
  PROVE  CalcDate(idx) \in DateSet
<1>1. ov[idx] \in PageSet /\ idx \in 1 .. Len(ov)
  BY DEF PagesInv
<1>2. idx > 1 => ov[idx - 1].date \in [day : Nat, off : Nat]
  <2>1. idx > 1 => idx - 1 \in 1 .. idx - 1
    BY <1>1
  <2>. QED
    BY <2>1 DEF PagesInv, IsDated
<1>3. ov[idx].date = NoDate \/ ov[idx].date \in [day : Nat, off : Nat]
  BY <1>1, PageParts DEF DateSet
<1>4. \A d \in [day : Nat, off : Nat], o \in {0, 1} : [d EXCEPT !.off = @ + o] \in DateSet
  BY DEF DateSet
<1>5. NoDate \in DateSet
  BY DEF DateSet
<1>6. \E o \in {0, 1} :
        \/ ov[idx].date # NoDate /\ CalcDate(idx) = [ov[idx].date EXCEPT !.off = @ + o]
        \/ idx > 1 /\ CalcDate(idx) = [ov[idx - 1].date EXCEPT !.off = @ + o]
        \/ CalcDate(idx) = NoDate
  BY DEF CalcDate
<1>7. PICK o \in {0, 1} :
        \/ ov[idx].date # NoDate /\ CalcDate(idx) = [ov[idx].date EXCEPT !.off = @ + o]
        \/ idx > 1 /\ CalcDate(idx) = [ov[idx - 1].date EXCEPT !.off = @ + o]
        \/ CalcDate(idx) = NoDate
  BY <1>6
<1>8. CASE ov[idx].date # NoDate /\ CalcDate(idx) = [ov[idx].date EXCEPT !.off = @ + o]
  BY <1>3, <1>4, <1>8
<1>9. CASE idx > 1 /\ CalcDate(idx) = [ov[idx - 1].date EXCEPT !.off = @ + o]
  BY <1>2, <1>4, <1>9
<1>. QED
  BY <1>5, <1>7, <1>8, <1>9

LEMMA StopTimeType ==
  ASSUME PagesInv, phase = "stop", NEW i \in 1 .. Len(ov), NEW k \in 1 .. Len(ov[i].slots)
  PROVE  StopTime(i, k) \in Nat \union {NoTime}
<1>. DEFINE x == ov[i].slots[k]
<1>1. /\ ov[i] \in PageSet /\ IsDated(ov[i])
      /\ i < Len(ov) => i + 1 \in 1 .. Len(ov) /\ ov[i + 1] \in PageSet /\ IsDated(ov[i + 1])
  <2>1. Len(ov) \in Nat /\ \A j \in 1 .. Len(ov) : ov[j] \in PageSet /\ IsDated(ov[j])
    BY DEF PagesInv
  <2>. QED
    BY <2>1
<1>2. x \in SlotSet /\ x.start \in Nat
  BY <1>1, PageParts DEF IsDated
<1>3. x.end # NoTime => DayOf(x.start) * DayMin + x.end + (IF x.end < Minutes(x) THEN DayMin ELSE 0) \in Nat
  <2>1. DayOf(x.start) \in Nat
    BY <1>2, TimeParts
  <2>2. DayOf(x.start) * DayMin \in Nat
    BY <2>1 DEF DayMin
  <2>3. x.end # NoTime => x.end \in Nat
    BY <1>2, SlotParts
  <2>. QED
    BY <2>2, <2>3 DEF DayMin
<1>4. k < Len(ov[i].slots) => ov[i].slots[k + 1].start \in Nat
  <2>1. Len(ov[i].slots) \in Nat
    BY <1>1, PageParts
  <2>2. k < Len(ov[i].slots) => k + 1 \in 1 .. Len(ov[i].slots)
    BY <2>1
  <2>. QED
    BY <1>1, <2>2 DEF IsDated
<1>5. i < Len(ov) /\ ov[i + 1].slots # <<>> => ov[i + 1].slots[1].start \in Nat
  <2>1. SUFFICES ASSUME i < Len(ov), ov[i + 1].slots # <<>>
                 PROVE  ov[i + 1].slots[1].start \in Nat
    OBVIOUS
  <2>2. 1 \in 1 .. Len(ov[i + 1].slots)
    BY <1>1, <2>1, PageParts, EmptySeq
  <2>. QED
    BY <1>1, <2>1, <2>2 DEF IsDated
<1>. QED
  BY <1>3, <1>4, <1>5 DEF StopTime

-----------------------------------------------------------------------------
(* The passes over the pages                                               *)

LEMMA PagesInit == Init => PagesInv
<1>1. SUFFICES ASSUME Init PROVE PagesInv
  OBVIOUS
<1>2. db \in Seq(PageSet)
  BY <1>1, ReceivedPages DEF Init
<1>3. ov \in Seq(PageSet) /\ Len(ov) = 0
  BY <1>1, EmptySeq DEF Init
<1>. QED
  BY <1>1, <1>2, <1>3 DEF Init, PagesInv

LEMMA ParsePageStep == PagesInv /\ ParsePage => PagesInv'
<1>1. SUFFICES ASSUME PagesInv, ParsePage PROVE PagesInv'
  OBVIOUS
<1>2. db \in Seq(PageSet) /\ ov \in Seq(PageSet) /\ idx \in 1 .. Len(ov) + 1 /\ Len(ov) \in Nat
  BY <1>1 DEF PagesInv
<1>3. Head(db) \in PageSet /\ db' \in Seq(PageSet)
  BY <1>1, <1>2, HeadTailProperties DEF ParsePage
<1>4. ov' \in Seq(PageSet) /\ Len(ov') >= Len(ov) /\ Len(ov') \in Nat
  <2>1. CASE ov' = ov
    BY <1>2, <2>1
  <2>2. CASE ov # <<>> /\ ov' = [ov EXCEPT ![Len(ov)].skip = @ + 1]
    <3>1. Len(ov) \in 1 .. Len(ov)
      BY <1>2, <2>2, EmptySeq
    <3>. DEFINE p == [ov[Len(ov)] EXCEPT !.skip = @ + 1]
    <3>2. ov[Len(ov)] \in PageSet
      BY <1>2, <3>1
    <3>3. p \in PageSet
      BY <3>2 DEF PageSet
    <3>4. ov' = [ov EXCEPT ![Len(ov)] = p]
      BY <2>2
    <3>. HIDE DEF p
    <3>. QED
      BY <1>2, <3>1, <3>3, <3>4, ExceptSeq
  <2>3. CASE ov' = Append(ov, Head(db))
    BY <1>2, <1>3, <2>3, AppendProperties
  <2>. QED
    BY <1>1, <2>1, <2>2, <2>3 DEF ParsePage
<1>5. idx' \in 1 .. Len(ov') + 1
  BY <1>1, <1>2, <1>4 DEF ParsePage
<1>. QED
  BY <1>1, <1>3, <1>4, <1>5 DEF ParsePage, PagesInv

LEMMA DatePageStep == PagesInv /\ DatePage => PagesInv'
<1>1. SUFFICES ASSUME PagesInv, DatePage PROVE PagesInv'
  OBVIOUS
<1>. DEFINE date == CalcDate(idx)
            pg   == Dated(ov[idx], date)
<1>2. /\ phase = "date" /\ ov \in Seq(PageSet) /\ Len(ov) \in Nat
      /\ idx \in 1 .. Len(ov)
      /\ \A i \in 1 .. Len(ov) : ov[i] \in PageSet
      /\ \A i \in 1 .. idx - 1 : IsDated(ov[i])
  BY <1>1 DEF PagesInv, DatePage
<1>3. date \in DateSet
  BY <1>1, <1>2, CalcDateType
<1>4. CASE date = NoDate
  <2>1. ov' = RemoveAt(ov, idx) /\ idx' = idx
    BY <1>1, <1>4 DEF DatePage
  <2>2. /\ ov' \in Seq(PageSet) /\ Len(ov') = Len(ov) - 1
        /\ \A i \in 1 .. idx - 1 : ov'[i] = ov[i]
    BY <1>2, <2>1, SequenceRemoved
  <2>3. \A i \in 1 .. idx' - 1 : IsDated(ov'[i])
    BY <1>2, <2>1, <2>2
  <2>4. idx' \in 1 .. Len(ov') + 1
    BY <1>2, <2>1, <2>2
  <2>. QED
    BY <1>1, <2>2, <2>3, <2>4 DEF PagesInv, DatePage
<1>5. CASE date # NoDate
  <2>0. date \in [day : Nat, off : Nat]
    BY <1>3, <1>5 DEF DateSet
  <2>1. /\ idx' = idx + 1
        /\ ov' = [i \in 1 .. Len(ov) |->
                   IF i = idx THEN pg
                   ELSE IF i = idx - 1 THEN DropRepeated(ov[i], pg) ELSE ov[i]]
    BY <1>1, <1>2, <1>5, LenProperties DEF DatePage
  <2>2. pg \in PageSet /\ IsDated(pg)
    BY <1>2, <2>0, DatedPage
  <2>. HIDE DEF pg, date
  <2>3. idx > 1 => idx - 1 \in 1 .. idx - 1 /\ idx - 1 \in 1 .. Len(ov)
    BY <1>2
  <2>4. idx > 1 => DropRepeated(ov[idx - 1], pg) \in PageSet /\ IsDated(DropRepeated(ov[idx - 1], pg))
    BY <1>2, <2>3, DroppedPage
  <2>5. \A i \in 1 .. Len(ov) : ov'[i] \in PageSet
    BY <1>2, <2>1, <2>2, <2>4
  <2>6. ov' \in Seq(PageSet) /\ Len(ov') = Len(ov)
    <3>1. ov' \in [1 .. Len(ov) -> PageSet]
      BY <2>1, <2>5
    <3>2. ov' \in Seq(PageSet)
      BY <1>2, <3>1, SeqDef
    <3>. QED
      BY <1>2, <3>1, <3>2, LenProperties
  <2>7. \A i \in 1 .. idx' - 1 : IsDated(ov'[i])
    BY <1>2, <2>1, <2>2, <2>4
  <2>8. idx' \in 1 .. Len(ov') + 1
    BY <1>2, <2>1, <2>6
  <2>. QED
    BY <1>1, <2>6, <2>7, <2>8 DEF PagesInv, DatePage
<1>. QED
  BY <1>4, <1>5

LEMMA StopPageStep == PagesInv /\ StopPage => PagesInv'
<1>1. SUFFICES ASSUME PagesInv, StopPage PROVE PagesInv'
  OBVIOUS
<1>2. /\ phase = "stop" /\ ov \in Seq(PageSet) /\ Len(ov) \in Nat /\ idx \in 1 .. Len(ov)
      /\ \A i \in 1 .. Len(ov) : ov[i] \in PageSet /\ IsDated(ov[i])
  BY <1>1 DEF PagesInv, StopPage
<1>. DEFINE pg == ov[idx]
            e(k) == [pg.slots[k] EXCEPT !.stop = StopTime(idx, k)]
            q == [k \in 1 .. Len(pg.slots) |-> e(k)]
            p == [pg EXCEPT !.slots = q]
<1>3. /\ pg \in PageSet /\ Len(pg.slots) \in Nat /\ DOMAIN pg.slots = 1 .. Len(pg.slots)
      /\ \A k \in 1 .. Len(pg.slots) : pg.slots[k] \in SlotSet /\ pg.slots[k].start \in Nat
  BY <1>2, PageParts DEF IsDated
<1>4. ov' = [ov EXCEPT ![idx] = p] /\ idx' = idx + 1
  BY <1>1, <1>3 DEF StopPage
<1>5. ASSUME NEW k \in 1 .. Len(pg.slots) PROVE e(k) \in SlotSet /\ e(k).start \in Nat
  <2>1. StopTime(idx, k) \in Nat \union {NoTime}
    BY <1>1, <1>2, StopTimeType
  <2>. QED
    BY <1>3, <2>1 DEF SlotSet
<1>. HIDE DEF e
<1>6. q \in [1 .. Len(pg.slots) -> SlotSet] /\ \A k \in 1 .. Len(pg.slots) : q[k].start \in Nat
  BY <1>5
<1>. HIDE DEF q
<1>7. q \in Seq(SlotSet) /\ Len(q) = Len(pg.slots)
  <2>1. q \in Seq(SlotSet)
    BY <1>3, <1>6, SeqDef
  <2>. QED
    BY <1>3, <1>6, <2>1, LenProperties
<1>8. p \in PageSet /\ p.slots = q /\ p.date = pg.date
  BY <1>3, <1>7 DEF PageSet
<1>9. IsDated(p)
  BY <1>2, <1>6, <1>7, <1>8 DEF IsDated
<1>. HIDE DEF p
<1>10. /\ ov' \in Seq(PageSet) /\ Len(ov') = Len(ov)
       /\ \A i \in 1 .. Len(ov) : ov'[i] = IF i = idx THEN p ELSE ov[i]
  BY <1>2, <1>4, <1>8, ExceptSeq
<1>11. \A i \in 1 .. Len(ov') : IsDated(ov'[i])
  BY <1>2, <1>9, <1>10
<1>12. idx' \in 1 .. Len(ov') + 1
  BY <1>2, <1>4, <1>10
<1>. QED
  BY <1>1, <1>10, <1>11, <1>12 DEF PagesInv, StopPage

LEMMA PagesStep == PagesInv /\ [Next]_vars => PagesInv'
<1>. SUFFICES ASSUME PagesInv, [Next]_vars PROVE PagesInv'
  OBVIOUS
<1>1. CASE UNCHANGED vars
  BY <1>1 DEF vars, PagesInv
<1>2. CASE ParsePage
  BY <1>2, ParsePageStep
<1>3. CASE StartDates
  BY <1>3 DEF StartDates, PagesInv
<1>4. CASE DatePage
  BY <1>4, DatePageStep
<1>5. CASE StartStops
  <2>1. idx = Len(ov) + 1
    BY <1>5 DEF StartStops, PagesInv
  <2>2. Len(ov) \in Nat /\ (Len(ov) + 1) - 1 = Len(ov)
    BY DEF PagesInv
  <2>. QED
    BY <1>5, <2>1, <2>2 DEF StartStops, PagesInv
<1>6. CASE StopPage
  BY <1>6, StopPageStep
<1>7. CASE StartOverlap
  BY <1>7 DEF StartOverlap, PagesInv
<1>8. CASE FilterOverlapping
  BY <1>8 DEF FilterOverlapping, PagesInv
<1>9. CASE StartExpire
  BY <1>9 DEF StartExpire, PagesInv
<1>10. CASE FilterExpired
  BY <1>10 DEF FilterExpired, PagesInv
<1>11. CASE Finish
  BY <1>11 DEF Finish, PagesInv
<1>. QED
  BY <1>1, <1>2, <1>3, <1>4, <1>5, <1>6, <1>7, <1>8, <1>9, <1>10, <1>11 DEF Next

LEMMA PagesInvariant == Spec => []PagesInv
BY PagesInit, PagesStep, PTL DEF Spec

(* Type correctness.  The second pass erases pages it cannot date from the *)
(* list it runs over: when it is over, all that are left are dated.        *)
THEOREM SlotsAreDated == Spec => []TypeOK
<1>1. PagesInv => TypeOK
  <2>1. SUFFICES ASSUME PagesInv PROVE TypeOK
    OBVIOUS
  <2>2. /\ DOMAIN ov = 1 .. Len(ov)
        /\ \A i \in 1 .. Len(ov) : ov[i] \in PageSet
    BY <2>1, LenProperties DEF PagesInv
  <2>3. ASSUME NEW i \in DOMAIN ov, NEW k \in DOMAIN ov[i].slots
        PROVE  SlotOk(ov[i].slots[k])
    BY <2>2, <2>3, PageParts, SlotParts DEF SlotOk
  <2>4. ASSUME phase \notin {"parse", "date"}, NEW i \in DOMAIN ov
        PROVE  /\ ov[i].date # NoDate
               /\ \A k \in DOMAIN ov[i].slots : ov[i].slots[k].start # NoTime
    <3>1. IsDated(ov[i]) /\ DOMAIN ov[i].slots = 1 .. Len(ov[i].slots)
      BY <2>1, <2>2, <2>4, PageParts DEF PagesInv
    <3>2. \A d \in [day : Nat, off : Nat] : d # NoDate
      <4>1. \A d \in [day : Nat, off : Nat] : d.day \in Nat
        OBVIOUS
      <4>. QED
        BY <4>1 DEF NoDate
    <3>. QED
      BY <3>1, <3>2 DEF IsDated, NoTime
  <2>. QED
    BY <2>1, <2>3, <2>4 DEF TypeOK, PagesInv
<1>. QED
  BY <1>1, PagesInvariant, PTL

-----------------------------------------------------------------------------
(* The filters                                                             *)

LEMMA PlaceParts ==
  ASSUME PagesInv, phase \notin {"parse", "date"}, NEW p \in Places
  PROVE  /\ p = <<p[1], p[2]>> /\ p[1] \in 1 .. Len(ov) /\ p[1] \in Nat
         /\ p[2] \in 1 .. Len(ov[p[1]].slots) /\ p[2] \in Nat
         /\ OvSlot(p) \in OutSet
<1>1. /\ DOMAIN ov = 1 .. Len(ov) /\ Len(ov) \in Nat
      /\ \A i \in 1 .. Len(ov) : ov[i] \in PageSet /\ IsDated(ov[i])
  BY LenProperties DEF PagesInv
<1>2. PICK i \in 1 .. Len(ov) : p \in {i} \X DOMAIN ov[i].slots
  BY <1>1 DEF Places
<1>3. /\ p = <<p[1], p[2]>> /\ p[1] = i /\ p[2] \in DOMAIN ov[i].slots
  BY <1>2
<1>4. p[2] \in 1 .. Len(ov[i].slots) /\ p[2] \in Nat /\ ov[i].page \in Nat
      /\ ov[i].slots[p[2]] \in SlotSet /\ ov[i].slots[p[2]].start \in Nat
  BY <1>1, <1>3, PageParts DEF IsDated
<1>5. OvSlot(p) \in OutSet
  BY <1>3, <1>4, SlotParts DEF OvSlot, OutSet
<1>. QED
  BY <1>1, <1>3, <1>4, <1>5

LEMMA PlacesFinite ==
  ASSUME PagesInv
  PROVE  IsFiniteSet(Places)
<1>1. /\ DOMAIN ov = 1 .. Len(ov) /\ Len(ov) \in Nat
      /\ \A i \in 1 .. Len(ov) : ov[i] \in PageSet
  BY LenProperties DEF PagesInv
<1>. DEFINE f == [i \in 1 .. Len(ov) |-> {i} \X DOMAIN ov[i].slots]
            T == {f[i] : i \in 1 .. Len(ov)}
<1>2. Places = UNION T
  BY <1>1 DEF Places
<1>3. \A i \in 1 .. Len(ov) : IsFiniteSet(f[i])
  <2>1. ASSUME NEW i \in 1 .. Len(ov) PROVE IsFiniteSet({i} \X DOMAIN ov[i].slots)
    <3>1. DOMAIN ov[i].slots = 1 .. Len(ov[i].slots) /\ Len(ov[i].slots) \in Nat
      BY <1>1, PageParts
    <3>2. IsFiniteSet({i})
      BY FS_Singleton
    <3>3. IsFiniteSet(1 .. Len(ov[i].slots))
      <4>1. 1 \in Int /\ Len(ov[i].slots) \in Int
        BY <3>1
      <4>. QED
        BY <4>1, FS_Interval
    <3>. QED
      BY <3>1, <3>2, <3>3, FS_Product
  <2>. QED
    BY <2>1
<1>. HIDE DEF f
<1>4. f \in Surjection(1 .. Len(ov), T)
  BY DEF Surjection, f
<1>5. IsFiniteSet(T)
  BY <1>1, <1>4, FS_Interval, FS_Surjection
<1>. HIDE DEF T
<1>6. \A t \in T : IsFiniteSet(t)
  BY <1>3 DEF T
<1>. QED
  BY <1>2, <1>5, <1>6, FS_UNION

(* The order in which slots are sorted tells any two of them apart.        *)
LEMMA BeforeOrder ==
  ASSUME PagesInv, phase \notin {"parse", "date"}
  PROVE  TotalOrder({pq \in Places \X Places : Before(pq[1], pq[2])}, Places)
<1>. DEFINE R == {pq \in Places \X Places : Before(pq[1], pq[2])}
<1>1. \A p, q \in Places : <<p, q>> \in R <=> Before(p, q)
  OBVIOUS
<1>. HIDE DEF R
<1>2. \A p \in Places : /\ p = <<p[1], p[2]>> /\ p[1] \in Nat /\ p[2] \in Nat
                        /\ OvSlot(p).start \in Nat /\ OvSlot(p).page \in Nat
  BY PlaceParts DEF OutSet
<1>3. \A p \in Places : ~Before(p, p)
  BY <1>2 DEF Before, ByStart
<1>4. \A p, q, r \in Places : Before(p, q) /\ Before(q, r) => Before(p, r)
  BY <1>2 DEF Before, ByStart
<1>5. \A p, q \in Places : p = q \/ Before(p, q) \/ Before(q, p)
  BY <1>2 DEF Before, ByStart
<1>. QED
  BY <1>1, <1>3, <1>4, <1>5 DEF TotalOrder, R

(* The combined list has the slots of all places, in the order of their    *)
(* start times and, where these are equal, of their pages.                 *)
LEMMA SortedSlotsAscend ==
  ASSUME PagesInv, phase \notin {"parse", "date"}
  PROVE  /\ SortedSlots \in Seq(OutSet)
         /\ \A m, n \in 1 .. Len(SortedSlots) : m < n =>
              /\ SortedSlots[m].start <= SortedSlots[n].start
              /\ SortedSlots[m].start = SortedSlots[n].start
                   => SortedSlots[m].page <= SortedSlots[n].page
         /\ \A n \in 1 .. Len(SortedSlots) : \E p \in Places : SortedSlots[n] = OvSlot(p)
         /\ \A p \in Places : \E n \in 1 .. Len(SortedSlots) : SortedSlots[n] = OvSlot(p)
<1>. DEFINE R == {pq \in Places \X Places : Before(pq[1], pq[2])}
            c == Cardinality(Places)
            nth(n) == CHOOSE p \in Places : Cardinality({q \in Places : Before(q, p)}) = n - 1
            g == [n \in 1 .. c |-> nth(n)]
            s == [n \in 1 .. c |-> OvSlot(nth(n))]
<1>1. SortedSlots = s
  BY DEF SortedSlots
<1>2. IsFiniteSet(Places) /\ TotalOrder(R, Places) /\ c \in Nat
  BY PlacesFinite, BeforeOrder, FS_CardinalityType
<1>3. \A p \in Places : Rank(p, R, Places) = Cardinality({q \in Places : Before(q, p)})
  <2>1. \A p \in Places : {q \in Places : <<q, p>> \in R} = {q \in Places : Before(q, p)}
    OBVIOUS
  <2>. QED
    BY <2>1 DEF Rank
<1>. HIDE DEF R
<1>4. ASSUME NEW n \in 1 .. c
      PROVE  nth(n) \in Places /\ Rank(nth(n), R, Places) = n - 1
  <2>1. n - 1 \in 0 .. Cardinality(Places) - 1
    BY <1>2
  <2>2. \E p \in Places : Rank(p, R, Places) = n - 1
    BY <1>2, <2>1, RankOccurs
  <2>3. \E p \in Places : Cardinality({q \in Places : Before(q, p)}) = n - 1
    BY <1>3, <2>2
  <2>4. nth(n) \in Places /\ Cardinality({q \in Places : Before(q, nth(n))}) = n - 1
    BY <2>3
  <2>. QED
    BY <1>3, <2>4
<1>. HIDE DEF nth
<1>5. g \in [1 .. c -> Places] /\ \A n \in 1 .. c : g[n] = nth(n)
  BY <1>4
<1>6. /\ Len(g) = c /\ Range(g) = Places
      /\ \A i, j \in 1 .. Len(g) : i < j => <<g[i], g[j]>> \in R
  <2>. HIDE DEF g
  <2>1. \A n \in 1 .. c : Rank(g[n], R, Places) = n - 1
    BY <1>4, <1>5
  <2>. QED
    BY <1>2, <1>5, <2>1, Listing
<1>7. s \in [1 .. c -> OutSet]
  <2>1. \A n \in 1 .. c : OvSlot(nth(n)) \in OutSet
    BY <1>4, PlaceParts
  <2>. QED
    BY <2>1
<1>8. s \in Seq(OutSet) /\ Len(s) = c
  <2>. HIDE DEF s, c
  <2>1. s \in Seq(OutSet)
    BY <1>2, <1>7, SeqDef
  <2>. QED
    BY <1>2, <1>7, <2>1, LenProperties
<1>9. ASSUME NEW m \in 1 .. c, NEW n \in 1 .. c, m < n
      PROVE  /\ s[m].start <= s[n].start
             /\ s[m].start = s[n].start => s[m].page <= s[n].page
  <2>1. Before(nth(m), nth(n))
    BY <1>5, <1>6, <1>9 DEF R
  <2>2. /\ OvSlot(nth(m)).start \in Nat /\ OvSlot(nth(n)).start \in Nat
        /\ OvSlot(nth(m)).page \in Nat /\ OvSlot(nth(n)).page \in Nat
    BY <1>4, PlaceParts DEF OutSet
  <2>3. /\ OvSlot(nth(m)).start <= OvSlot(nth(n)).start
        /\ OvSlot(nth(m)).start = OvSlot(nth(n)).start
             => OvSlot(nth(m)).page <= OvSlot(nth(n)).page
    BY <2>1, <2>2 DEF Before, ByStart
  <2>. QED
    BY <2>3
<1>10. ASSUME NEW p \in Places PROVE \E n \in 1 .. c : s[n] = OvSlot(p)
  <2>1. \E n \in DOMAIN g : g[n] = p
    BY <1>6 DEF Range
  <2>2. PICK n \in 1 .. c : g[n] = p
    BY <1>5, <2>1
  <2>3. s[n] = OvSlot(p)
    BY <1>5, <2>2
  <2>. QED
    BY <2>3
<1>11. \A n \in 1 .. c : s[n] = OvSlot(nth(n)) /\ nth(n) \in Places
  BY <1>4
<1>. HIDE DEF s, c
<1>. QED
  BY <1>1, <1>8, <1>9, <1>10, <1>11

LEMMA StopType ==
  ASSUME NEW x \in OutSet
  PROVE  /\ x.start \in Nat /\ x.stop \in Nat \union {NoTime}
         /\ StopOrSecond(x) \in Nat
BY DEF OutSet, StopOrSecond

(* A sequence in which each slot may be followed by all later ones stays   *)
(* one when its head is moved to the end of what is kept.                  *)
LEMMA KeptLonger ==
  ASSUME NEW k \in Seq(OutSet), AllFollow(k), NEW x \in OutSet,
         \A m \in 1 .. Len(k) : Follows(k[m], x)
  PROVE  /\ Append(k, x) \in Seq(OutSet) /\ AllFollow(Append(k, x))
         /\ Append(k, x) # <<>> /\ Append(k, x)[Len(Append(k, x))] = x
         /\ Len(Append(k, x)) = Len(k) + 1
         /\ \A m \in 1 .. Len(Append(k, x)) :
              Append(k, x)[m] = IF m = Len(k) + 1 THEN x ELSE k[m]
<1>1. /\ Append(k, x) \in Seq(OutSet) /\ Len(Append(k, x)) = Len(k) + 1 /\ Len(k) \in Nat
      /\ Append(k, x) # <<>>
      /\ \A m \in 1 .. Len(k) : Append(k, x)[m] = k[m]
      /\ Append(k, x)[Len(k) + 1] = x
  BY AppendProperties
<1>2. \A m \in 1 .. Len(k) + 1 : Append(k, x)[m] = IF m = Len(k) + 1 THEN x ELSE k[m]
  BY <1>1
<1>3. AllFollow(Append(k, x))
  <2>1. SUFFICES ASSUME NEW m \in 1 .. Len(k) + 1, NEW n \in 1 .. Len(k) + 1, m < n
                 PROVE  Follows(Append(k, x)[m], Append(k, x)[n])
    BY <1>1 DEF AllFollow
  <2>2. m \in 1 .. Len(k) /\ (n \in 1 .. Len(k) \/ n = Len(k) + 1)
    BY <1>1, <2>1
  <2>. QED
    BY <1>1, <1>2, <2>1, <2>2 DEF AllFollow
<1>. QED
  BY <1>1, <1>2, <1>3

LEMMA FilterInit == Init => FilterInv
<1>1. SUFFICES ASSUME Init PROVE FilterInv
  OBVIOUS
<1>2. slots = <<>> /\ kept = <<>> /\ prev_stop = 0 /\ phase = "parse"
  BY <1>1 DEF Init
<1>. QED
  BY <1>2, EmptySeq DEF FilterInv, AllFollow

LEMMA StartOverlapStep == PagesInv /\ FilterInv /\ StartOverlap => FilterInv'
<1>1. SUFFICES ASSUME PagesInv, FilterInv, StartOverlap PROVE FilterInv'
  OBVIOUS
<1>2. /\ phase = "stop" /\ phase' = "overlap"
      /\ slots' = SortedSlots /\ kept' = <<>> /\ prev_stop' = 0
  BY <1>1 DEF StartOverlap
<1>3. /\ slots' \in Seq(OutSet)
      /\ \A m, n \in 1 .. Len(slots') : m < n => slots'[m].start <= slots'[n].start
  BY <1>1, <1>2, SortedSlotsAscend
<1>4. kept' \in Seq(OutSet) /\ Len(kept') = 0
  BY <1>2, EmptySeq
<1>. QED
  BY <1>2, <1>3, <1>4 DEF FilterInv, AllFollow

LEMMA FilterOverlappingStep == FilterInv /\ FilterOverlapping => FilterInv'
<1>1. SUFFICES ASSUME FilterInv, FilterOverlapping PROVE FilterInv'
  OBVIOUS
<1>. DEFINE x == Head(slots)
<1>2. /\ phase = "overlap" /\ phase' = "overlap" /\ slots' = Tail(slots)
      /\ slots \in Seq(OutSet) /\ slots # <<>> /\ kept \in Seq(OutSet) /\ Len(kept) \in Nat
      /\ AllFollow(kept) /\ prev_stop \in Nat
      /\ \A m, n \in 1 .. Len(slots) : m < n => slots[m].start <= slots[n].start
      /\ \A m \in 1 .. Len(kept), n \in 1 .. Len(slots) : kept[m].start <= slots[n].start
      /\ kept # <<>> => prev_stop = StopOrSecond(kept[Len(kept)])
  BY <1>1 DEF FilterInv, FilterOverlapping
<1>3. /\ x \in OutSet /\ x = slots[1] /\ 1 \in 1 .. Len(slots) /\ Len(slots) \in Nat
      /\ slots' \in Seq(OutSet) /\ Len(slots') = Len(slots) - 1
      /\ \A n \in 1 .. Len(slots') : slots'[n] = slots[n + 1] /\ n + 1 \in 1 .. Len(slots)
  BY <1>2, HeadTailProperties, EmptySeq
<1>4. /\ \A m, n \in 1 .. Len(slots') : m < n => slots'[m].start <= slots'[n].start
      /\ \A m \in 1 .. Len(kept), n \in 1 .. Len(slots') : kept[m].start <= slots'[n].start
      /\ \A n \in 1 .. Len(slots') : x.start <= slots'[n].start
  <2>1. \A m, n \in 1 .. Len(slots') : m < n => m + 1 < n + 1
    BY <1>3
  <2>2. \A n \in 1 .. Len(slots') : 1 < n + 1
    BY <1>3
  <2>. HIDE DEF x
  <2>. QED
    BY <1>2, <1>3, <2>1, <2>2
<1>. HIDE DEF x
<1>5. CASE x.start < prev_stop
  <2>1. kept' = kept /\ prev_stop' = prev_stop
    BY <1>1, <1>2, <1>3, <1>5, StopType DEF FilterOverlapping, x
  <2>. QED
    BY <1>2, <1>3, <1>4, <2>1 DEF FilterInv
<1>6. CASE x.start >= prev_stop
  <2>1. kept' = Append(kept, x) /\ prev_stop' = StopOrSecond(x)
    BY <1>1, <1>6 DEF FilterOverlapping, x
  <2>2. ASSUME NEW m \in 1 .. Len(kept) PROVE Follows(kept[m], x)
    <3>1. kept # <<>> /\ Len(kept) \in 1 .. Len(kept)
      BY <1>2, EmptySeq
    <3>2. kept[m] \in OutSet /\ kept[Len(kept)] \in OutSet
      BY <1>2, <3>1
    <3>3. kept[m].start <= x.start
      BY <1>2, <1>3
    <3>4. StopOrSecond(kept[Len(kept)]) <= x.start
      BY <1>2, <1>3, <1>6, <3>1, StopType
    <3>5. CASE m = Len(kept)
      BY <3>3, <3>4, <3>5 DEF Follows
    <3>6. CASE m < Len(kept)
      <4>1. Follows(kept[m], kept[Len(kept)])
        BY <1>2, <3>1, <3>6 DEF AllFollow
      <4>2. kept[Len(kept)].start <= x.start
        BY <1>2, <1>3, <3>1
      <4>3. /\ StopOrSecond(kept[m]) \in Nat /\ kept[Len(kept)].start \in Nat /\ x.start \in Nat
        BY <1>3, <3>2, StopType
      <4>. QED
        BY <3>3, <4>1, <4>2, <4>3 DEF Follows
    <3>. QED
      BY <1>2, <3>5, <3>6
  <2>3. /\ kept' \in Seq(OutSet) /\ AllFollow(kept') /\ kept'[Len(kept')] = x
        /\ Len(kept') = Len(kept) + 1
        /\ \A m \in 1 .. Len(kept') : kept'[m] = IF m = Len(kept) + 1 THEN x ELSE kept[m]
    BY <1>2, <1>3, <2>1, <2>2, KeptLonger
  <2>4. \A m \in 1 .. Len(kept'), n \in 1 .. Len(slots') : kept'[m].start <= slots'[n].start
    <3>1. \A m \in 1 .. Len(kept') : m = Len(kept) + 1 \/ m \in 1 .. Len(kept)
      BY <1>2, <2>3
    <3>. QED
      BY <1>4, <2>3, <3>1
  <2>5. prev_stop' \in Nat
    BY <1>3, <2>1, StopType
  <2>. QED
    BY <1>2, <1>3, <1>4, <2>1, <2>3, <2>4, <2>5 DEF FilterInv
<1>. QED
  BY <1>2, <1>3, <1>5, <1>6, StopType

LEMMA FilterExpiredStep == FilterInv /\ FilterExpired => FilterInv'
<1>1. SUFFICES ASSUME FilterInv, FilterExpired PROVE FilterInv'
  OBVIOUS
<1>. DEFINE x == Head(slots)
<1>2. /\ phase = "expire" /\ phase' = "expire" /\ slots' = Tail(slots) /\ prev_stop' = prev_stop
      /\ kept' \in {kept, Append(kept, x)}
      /\ slots \in Seq(OutSet) /\ slots # <<>> /\ kept \in Seq(OutSet) /\ Len(kept) \in Nat
      /\ AllFollow(kept) /\ AllFollow(slots) /\ prev_stop \in Nat
      /\ \A m \in 1 .. Len(kept), n \in 1 .. Len(slots) : Follows(kept[m], slots[n])
  BY <1>1 DEF FilterInv, FilterExpired
<1>3. /\ x \in OutSet /\ x = slots[1] /\ 1 \in 1 .. Len(slots) /\ Len(slots) \in Nat
      /\ slots' \in Seq(OutSet) /\ Len(slots') = Len(slots) - 1
      /\ \A n \in 1 .. Len(slots') : slots'[n] = slots[n + 1] /\ n + 1 \in 1 .. Len(slots)
  BY <1>2, HeadTailProperties, EmptySeq
<1>4. /\ AllFollow(slots')
      /\ \A m \in 1 .. Len(kept), n \in 1 .. Len(slots') : Follows(kept[m], slots'[n])
      /\ \A n \in 1 .. Len(slots') : Follows(x, slots'[n])
      /\ \A m \in 1 .. Len(kept) : Follows(kept[m], x)
  <2>1. \A m, n \in 1 .. Len(slots') : m < n => m + 1 < n + 1
    BY <1>3
  <2>2. \A n \in 1 .. Len(slots') : 1 < n + 1
    BY <1>3
  <2>. HIDE DEF x
  <2>. QED
    BY <1>2, <1>3, <2>1, <2>2 DEF AllFollow
<1>. HIDE DEF x
<1>5. CASE kept' = kept
  BY <1>2, <1>3, <1>4, <1>5 DEF FilterInv
<1>6. CASE kept' = Append(kept, x)
  <2>1. /\ kept' \in Seq(OutSet) /\ AllFollow(kept') /\ Len(kept') = Len(kept) + 1
        /\ \A m \in 1 .. Len(kept') : kept'[m] = IF m = Len(kept) + 1 THEN x ELSE kept[m]
    BY <1>2, <1>3, <1>4, <1>6, KeptLonger
  <2>2. \A m \in 1 .. Len(kept'), n \in 1 .. Len(slots') : Follows(kept'[m], slots'[n])
    <3>1. \A m \in 1 .. Len(kept') : m = Len(kept) + 1 \/ m \in 1 .. Len(kept)
      BY <1>2, <2>1
    <3>. QED
      BY <1>4, <2>1, <3>1
  <2>. QED
    BY <1>2, <1>3, <1>4, <2>1, <2>2 DEF FilterInv
<1>. QED
  BY <1>2, <1>5, <1>6

LEMMA StartExpireStep == FilterInv /\ StartExpire => FilterInv'
<1>1. SUFFICES ASSUME FilterInv, StartExpire PROVE FilterInv'
  OBVIOUS
<1>2. phase' = "expire" /\ slots' = kept /\ kept' = <<>> /\ prev_stop' = prev_stop
  BY <1>1 DEF StartExpire
<1>3. kept' \in Seq(OutSet) /\ Len(kept') = 0
  BY <1>2, EmptySeq
<1>. QED
  BY <1>1, <1>2, <1>3 DEF FilterInv, AllFollow

LEMMA FilterStep == PagesInv /\ FilterInv /\ [Next]_vars => FilterInv'
<1>. SUFFICES ASSUME PagesInv, FilterInv, [Next]_vars PROVE FilterInv'
  OBVIOUS
<1>1. CASE phase' \notin {"overlap", "expire"} /\ UNCHANGED <<slots, kept, prev_stop>>
  BY <1>1 DEF FilterInv
<1>2. CASE UNCHANGED vars
  BY <1>2 DEF vars, FilterInv
<1>3. CASE ParsePage
  BY <1>1, <1>3 DEF ParsePage
<1>4. CASE StartDates
  BY <1>1, <1>4 DEF StartDates
<1>5. CASE DatePage
  BY <1>1, <1>5 DEF DatePage
<1>6. CASE StartStops
  BY <1>1, <1>6 DEF StartStops
<1>7. CASE StopPage
  BY <1>1, <1>7 DEF StopPage
<1>8. CASE StartOverlap
  BY <1>8, StartOverlapStep
<1>9. CASE FilterOverlapping
  BY <1>9, FilterOverlappingStep
<1>10. CASE StartExpire
  BY <1>10, StartExpireStep
<1>11. CASE FilterExpired
  BY <1>11, FilterExpiredStep
<1>12. CASE Finish
  BY <1>1, <1>12 DEF Finish
<1>. QED
  BY <1>2, <1>3, <1>4, <1>5, <1>6, <1>7, <1>8, <1>9, <1>10, <1>11, <1>12 DEF Next

(* Whatever the pages say, the schedule that is left is in order and no    *)
(* programme overlaps a later one, after both filters: sorting and the     *)
(* comparison with the end of the last programme kept are enough.          *)
THEOREM ScheduleHasNoOverlap == Spec => []NoOverlap
<1>1. PagesInv /\ FilterInv => NoOverlap
  BY LenProperties DEF FilterInv, AllFollow, Follows, NoOverlap
<1>2. Spec => []FilterInv
  BY FilterInit, FilterStep, PagesInvariant, PTL DEF Spec
<1>. QED
  BY <1>1, <1>2, PagesInvariant, PTL
=============================================================================
