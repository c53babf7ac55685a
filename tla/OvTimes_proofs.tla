--------------------------- MODULE OvTimes_proofs ---------------------------
(* The times of the schedule are true and nothing is lost: of a service    *)
(* whose dates can be told, the start and stop times found are those of    *)
(* the broadcaster, and when all its pages were received, each programme   *)
(* that is not over is in the schedule once.                               *)
(*                                                                         *)
(* The invariant, TimesInv, says of each page in the list which page of    *)
(* the service it is (OriginInv), that those to come are behind it         *)
(* (WaitingInv), what is left of a page when the next one repeats its last *)
(* slot (RepetitionInv), and that none is missing where the dates of the   *)
(* broadcast day are shown (BroadcastInv).  The second one, WholeInv,      *)
(* follows a programme of a complete service from its page to the schedule.*)
EXTENDS OvSchedule_proofs

-----------------------------------------------------------------------------
(* The invariant                                                           *)

(* The pages of a service by number: the last is the page of tips.         *)
OnAir(s, k) == IF k <= Len(s.pages) THEN Shown(s, k) ELSE TipsPage(s)

(* Those that were received.                                               *)
PageNumbers(s) ==
  {k \in 1 .. Len(s.pages) + 1 : k \notin s.lost /\ (k = Len(s.pages) + 1 => s.tips)}

(* When the first programme of a page begins.                              *)
FirstStart(s, k) == s.starts[IF k <= Len(s.pages) THEN s.first[k] ELSE 1]

(* d is the date of page k.  Of pages with the date of the broadcast day,  *)
(* the offset is needed to tell the next page.                             *)
TrueDate(s, d, k) ==
  /\ d.day + d.off = DayOf(FirstStart(s, k))
  /\ s.dates = "broadcast" /\ k <= Len(s.pages) =>
       d.off = IF HourOf(FirstStart(s, k)) < 6 THEN 1 ELSE 0

(* The stop time of a slot is not known or is the true one.                *)
TrueStop(s, x) ==
  x.stop = NoTime \/ (x.title < Len(s.starts) /\ x.stop = s.starts[x.title + 1])

(* pg is page k of the service.                                            *)
IsFrom(s, pg, k) ==
  /\ pg.page = OnAir(s, k).page /\ pg.sub = OnAir(s, k).sub /\ pg.skip = 0

(* Page k after it was dated: slots at its end may have been dropped.      *)
TrulyDated(s, pg, k) ==
  /\ IsFrom(s, pg, k)
  /\ TrueDate(s, pg.date, k)
  /\ Len(pg.slots) <= Len(OnAir(s, k).slots)
  /\ \A j \in 1 .. Len(pg.slots) :
       LET x == pg.slots[j]
           y == OnAir(s, k).slots[j]
       IN /\ x.hour = y.hour /\ x.min = y.min /\ x.end = y.end /\ x.title = y.title
          /\ x.start = s.starts[y.title]
          /\ k <= Len(s.pages) => TrueStop(s, x)

(* The order of pages in the database.                                     *)
PageBefore(p, q) == p.page < q.page \/ (p.page = q.page /\ p.sub < q.sub)

(* The slots of page p, the next page being q: what is repeated is gone.   *)
NoRepetition(s, p, q) ==
  \A k \in 1 .. Len(s.pages) - 1 :
    IsFrom(s, p, k) /\ IsFrom(s, q, k + 1) => Len(p.slots) = s.first[k + 1] - s.first[k]

(* The pages not looked at yet are behind those that were.                 *)
WaitingInv ==
  /\ \A n \in 1 .. Len(db) : \E k \in PageNumbers(service) : db[n] = OnAir(service, k)
  /\ \A m, n \in 1 .. Len(db) : m < n => PageBefore(db[m], db[n])
  /\ \A m \in 1 .. Len(ov), n \in 1 .. Len(db) : PageBefore(ov[m], db[n])

(* Pages from number idx on are as they were broadcast, the others dated.  *)
Untouched(n) == phase = "parse" \/ (phase = "date" /\ n >= idx)

OriginInv ==
  /\ \A m, n \in 1 .. Len(ov) : m < n => PageBefore(ov[m], ov[n])
  /\ \A n \in 1 .. Len(ov) : \E k \in PageNumbers(service) :
       IF Untouched(n) THEN ov[n] = OnAir(service, k) ELSE TrulyDated(service, ov[n], k)

(* Of dated pages, the last one still has all its slots, the others have   *)
(* none that is on the next page too.                                      *)
RepetitionInv ==
  /\ phase = "date" /\ idx > 1 =>
       \E k \in PageNumbers(service) :
         IsFrom(service, ov[idx - 1], k) /\ Len(ov[idx - 1].slots) = Len(OnAir(service, k).slots)
  /\ \A n \in 1 .. Len(ov) - 1 : Untouched(n + 1) \/ NoRepetition(service, ov[n], ov[n + 1])

(* Pages dated by the broadcast day are all there.                         *)
BroadcastInv ==
  service.dates = "broadcast" =>
    /\ \A n \in 1 .. Len(ov) : ov[n].page = TipsPageNo \/ IsFrom(service, ov[n], n)
    /\ \A n \in 1 .. Len(db) :
         db[n].page = TipsPageNo \/ IsFrom(service, db[n], Len(ov) + n)

(* All of it, for services whose dates can be told.                        *)
TimesInv ==
  Datable(service) => WaitingInv /\ OriginInv /\ RepetitionInv /\ BroadcastInv

-----------------------------------------------------------------------------
(* Order of pages                                                          *)

LEMMA NextNumber ==
  ASSUME NEW p \in Nat
  PROVE  GetNextPageNumber(p) \in Nat /\ p < GetNextPageNumber(p)
BY DEF GetNextPageNumber

(* How the pages of a service follow each other.                           *)
LEMMA LayoutParts ==
  ASSUME NEW s, IsService(s)
  PROVE  /\ s.top = (s.lost # {})
         /\ \A k \in 1 .. Len(s.pages) :
              /\ s.pages[k][1] \in Nat /\ s.pages[k][2] \in Nat
              /\ GetNextPageNumber(s.pages[k][1]) < TipsPageNo
         /\ \A k \in 1 .. Len(s.pages) - 1 :
              \/ /\ s.pages[k][2] > 0
                 /\ s.pages[k + 1][1] = s.pages[k][1]
                 /\ s.pages[k + 1][2] = s.pages[k][2] + 1
              \/ /\ s.pages[k + 1][1] = GetNextPageNumber(s.pages[k][1])
                 /\ s.pages[k + 1][2] <= 1
<1>1. PICK starts \in Schedules, pages \in Layouts, dates \in Dates, extra \in Extras :
        \E first \in [1 .. Len(pages) -> 1 .. Len(starts)],
           lost \in {{}} \union {{k} : k \in 1 .. Len(pages)} :
          /\ first[1] = 1
          /\ \A k \in 2 .. Len(pages) : first[k - 1] < first[k]
          /\ s = [starts |-> starts, pages |-> pages, first |-> first, dates |-> dates,
                  repeated |-> "repeated" \in extra, ends |-> "ends" \in extra,
                  tips |-> "tips" \in extra, lost |-> lost, top |-> lost # {}]
  BY DEF IsService
<1>2. s.pages = pages /\ s.top = (s.lost # {})
  BY <1>1
<1>3. \A k \in 1 .. Len(pages) : GetNextPageNumber(pages[k][1]) < TipsPageNo
  BY <1>1, ScheduleAssumption
<1>4. \A k \in 1 .. Len(pages) - 1 :
         LET p == pages[k]
             q == pages[k + 1]
         IN \/ p[2] > 0 /\ q = <<p[1], p[2] + 1>>
            \/ q[1] = GetNextPageNumber(p[1]) /\ q[2] <= 1
  BY <1>1, ScheduleAssumption
<1>5. \A k \in 1 .. Len(s.pages) : s.pages[k][1] \in Nat /\ s.pages[k][2] \in Nat
  BY ServiceParts
<1>. QED
  BY <1>2, <1>3, <1>4, <1>5

(* Pages ascend; sub-pages of a page are counted without a gap.            *)
LEMMA PagesAscend ==
  ASSUME NEW s, IsService(s),
         NEW k \in 1 .. Len(s.pages), NEW l \in 1 .. Len(s.pages), k < l
  PROVE  \/ s.pages[k][1] < s.pages[l][1]
         \/ /\ s.pages[k][1] = s.pages[l][1]
            /\ s.pages[k][2] > 0
            /\ s.pages[l][2] = s.pages[k][2] + (l - k)
<1>. DEFINE Up(m) == \/ s.pages[k][1] < s.pages[m][1]
                     \/ /\ s.pages[k][1] = s.pages[m][1]
                        /\ s.pages[k][2] > 0
                        /\ s.pages[m][2] = s.pages[k][2] + (m - k)
            T == {m \in k + 1 .. Len(s.pages) : ~Up(m)}
<1>1. Len(s.pages) \in Nat
  BY ServiceParts
<1>2. ASSUME NEW m \in k .. Len(s.pages) - 1
      PROVE  /\ s.pages[m][1] \in Nat /\ s.pages[m][2] \in Nat
             /\ s.pages[m + 1][1] \in Nat /\ s.pages[m + 1][2] \in Nat
             /\ \/ /\ s.pages[m][2] > 0
                   /\ s.pages[m + 1][1] = s.pages[m][1]
                   /\ s.pages[m + 1][2] = s.pages[m][2] + 1
                \/ s.pages[m][1] < s.pages[m + 1][1]
  <2>1. m \in 1 .. Len(s.pages) - 1 /\ m \in 1 .. Len(s.pages) /\ m + 1 \in 1 .. Len(s.pages)
    BY <1>1
  <2>2. /\ s.pages[m][1] \in Nat /\ s.pages[m][2] \in Nat
        /\ s.pages[m + 1][1] \in Nat /\ s.pages[m + 1][2] \in Nat
    BY <2>1, LayoutParts
  <2>3. s.pages[m][1] < GetNextPageNumber(s.pages[m][1])
    BY <2>2, NextNumber
  <2>4. \/ /\ s.pages[m][2] > 0
           /\ s.pages[m + 1][1] = s.pages[m][1]
           /\ s.pages[m + 1][2] = s.pages[m][2] + 1
        \/ s.pages[m + 1][1] = GetNextPageNumber(s.pages[m][1])
    BY <2>1, LayoutParts
  <2>. QED
    BY <2>2, <2>3, <2>4
<1>3. ASSUME T # {} PROVE FALSE
  <2>. DEFINE m == Min(T)
  <2>1. m \in T /\ \A y \in T : m <= y
    <3>1. T \in SUBSET Nat
      OBVIOUS
    <3>. HIDE DEF T
    <3>. QED
      BY <1>3, <3>1, LeastInSet
  <2>. HIDE DEF m
  <2>2. m \in k + 1 .. Len(s.pages) /\ ~Up(m)
    BY <2>1
  <2>3. m - 1 \in k .. Len(s.pages) - 1 /\ (m - 1) + 1 = m /\ m - 1 < m
    BY <1>1, <2>2
  <2>4. CASE m = k + 1
    <3>1. k \in k .. Len(s.pages) - 1 /\ m - k = 1
      BY <2>3, <2>4
    <3>2. \/ /\ s.pages[k][2] > 0
             /\ s.pages[m][1] = s.pages[k][1]
             /\ s.pages[m][2] = s.pages[k][2] + 1
          \/ s.pages[k][1] < s.pages[m][1]
      BY <1>2, <2>4, <3>1
    <3>. QED
      BY <2>2, <3>1, <3>2
  <2>5. CASE m # k + 1
    <3>1. m - 1 \in k + 1 .. Len(s.pages)
      BY <1>1, <2>2, <2>5
    <3>2. Up(m - 1)
      <4>1. m - 1 \notin T
        <5>1. ~(m <= m - 1)
          BY <2>2
        <5>. HIDE DEF T
        <5>. QED
          BY <2>1, <5>1
      <4>. HIDE DEF Up
      <4>. QED
        BY <3>1, <4>1
    <3>3. s.pages[k][1] \in Nat /\ s.pages[k][2] \in Nat
      BY LayoutParts
    <3>4. /\ s.pages[m - 1][1] \in Nat /\ s.pages[m - 1][2] \in Nat
          /\ s.pages[m][1] \in Nat /\ s.pages[m][2] \in Nat
          /\ \/ /\ s.pages[m - 1][2] > 0
                /\ s.pages[m][1] = s.pages[m - 1][1]
                /\ s.pages[m][2] = s.pages[m - 1][2] + 1
             \/ s.pages[m - 1][1] < s.pages[m][1]
      BY <1>2, <2>3
    <3>5. m \in Int /\ k \in Int
      BY <2>2
    <3>6. CASE s.pages[k][1] < s.pages[m - 1][1]
      <4>1. s.pages[k][1] < s.pages[m][1]
        BY <3>3, <3>4, <3>6
      <4>. QED
        BY <2>2, <4>1
    <3>7. CASE /\ s.pages[k][1] = s.pages[m - 1][1]
               /\ s.pages[k][2] > 0
               /\ s.pages[m - 1][2] = s.pages[k][2] + ((m - 1) - k)
      <4>1. CASE s.pages[m - 1][1] < s.pages[m][1]
        BY <2>2, <3>7, <4>1
      <4>2. CASE s.pages[m][1] = s.pages[m - 1][1] /\ s.pages[m][2] = s.pages[m - 1][2] + 1
        <5>1. s.pages[m][2] = s.pages[k][2] + (m - k)
          BY <3>3, <3>5, <3>7, <4>2
        <5>. QED
          BY <2>2, <3>7, <4>2, <5>1
      <4>. QED
        BY <3>4, <4>1, <4>2
    <3>. QED
      BY <3>2, <3>6, <3>7
  <2>. QED
    BY <2>4, <2>5
<1>4. l \in k + 1 .. Len(s.pages)
  OBVIOUS
<1>. QED
  BY <1>3, <1>4

(* There is a page, and a programme on it.                                 *)
LEMMA FirstTitle ==
  ASSUME NEW s, IsService(s)
  PROVE  Len(s.pages) \in Nat /\ 1 \in 1 .. Len(s.pages) /\ 1 \in 1 .. Len(s.starts)
<1>1. s.pages # <<>> /\ s.pages \in Seq(Nat \X Nat) /\ s.first[1] = 1
  BY ServiceParts
<1>2. 1 \in 1 .. Len(s.pages)
  BY <1>1, EmptySeq
<1>3. s.first[1] \in 1 .. Len(s.starts)
  BY <1>2, PageTitles
<1>. QED
  BY <1>1, <1>2, <1>3

(* A page on the air, with one line at least.                              *)
LEMMA OnAirParts ==
  ASSUME NEW s, IsService(s), NEW k \in PageNumbers(s)
  PROVE  /\ k \in 1 .. Len(s.pages) + 1
         /\ OnAir(s, k) \in PageSet /\ OnAir(s, k).skip = 0
         /\ Len(OnAir(s, k).slots) > 0
         /\ OnAir(s, k).page \in Nat /\ OnAir(s, k).sub \in Nat
         /\ k \in 1 .. Len(s.pages) =>
              /\ OnAir(s, k) = Shown(s, k)
              /\ OnAir(s, k).page = s.pages[k][1] /\ OnAir(s, k).sub = s.pages[k][2]
              /\ OnAir(s, k).page < TipsPageNo
         /\ k \notin 1 .. Len(s.pages) =>
              /\ k = Len(s.pages) + 1 /\ s.tips
              /\ OnAir(s, k) = TipsPage(s)
              /\ OnAir(s, k).page = TipsPageNo /\ OnAir(s, k).sub = 0
<1>1. k \in 1 .. Len(s.pages) + 1 /\ Len(s.pages) \in Nat /\ (k = Len(s.pages) + 1 => s.tips)
  BY ServiceParts DEF PageNumbers
<1>2. CASE k <= Len(s.pages)
  <2>1. k \in 1 .. Len(s.pages)
    BY <1>1, <1>2
  <2>2. OnAir(s, k) = Shown(s, k)
    BY <1>2 DEF OnAir
  <2>3. Len(OnAir(s, k).slots) > 0
    <3>1. Len(OnAir(s, k).slots) = LastTitle(s, k) - s.first[k] + 1
      BY <2>1, <2>2, ShownPage
    <3>2. s.first[k] \in 1 .. Len(s.starts) /\ LastTitle(s, k) \in s.first[k] .. Len(s.starts)
      BY <2>1, PageTitles
    <3>. QED
      BY <3>1, <3>2
  <2>4. OnAir(s, k).page < TipsPageNo
    <3>1. s.pages[k][1] \in Nat /\ GetNextPageNumber(s.pages[k][1]) < TipsPageNo
      BY <2>1, LayoutParts
    <3>2. s.pages[k][1] < GetNextPageNumber(s.pages[k][1]) /\ GetNextPageNumber(s.pages[k][1]) \in Nat
      BY <3>1, NextNumber
    <3>. QED
      BY <2>1, <2>2, <3>1, <3>2, ShownPage DEF TipsPageNo
  <2>. QED
    BY <1>1, <2>1, <2>2, <2>3, <2>4, ShownPage, LayoutParts
<1>3. CASE ~(k <= Len(s.pages))
  <2>1. k = Len(s.pages) + 1 /\ k \notin 1 .. Len(s.pages) /\ s.tips
    BY <1>1, <1>3
  <2>2. OnAir(s, k) = TipsPage(s)
    BY <1>3 DEF OnAir
  <2>3. TipsPage(s).sub = 0
    BY DEF TipsPage
  <2>4. Len(TipsPage(s).slots) > 0
    <3>1. Len(s.starts) \in Nat /\ 1 \in 1 .. Len(s.starts)
      BY FirstTitle, ServiceParts
    <3>2. Len(TipsPage(s).slots) = (Len(s.starts) + 1) \div 2
      BY TipsShown
    <3>3. (Len(s.starts) + 1) \div 2 >= 1 /\ (Len(s.starts) + 1) \div 2 \in Nat
      <4>1. Len(s.starts) >= 1
        BY <3>1
      <4>. QED
        BY <3>1, <4>1, HalfOf
    <3>4. \A n \in Nat : n >= 1 => n > 0
      OBVIOUS
    <3>. QED
      BY <3>2, <3>3, <3>4, Zenon
  <2>5. TipsPageNo \in Nat
    BY DEF TipsPageNo
  <2>6. TipsPage(s) \in PageSet /\ TipsPage(s).page = TipsPageNo /\ TipsPage(s).skip = 0
    BY TipsShown
  <2>. QED
    BY <1>1, <2>1, <2>2, <2>3, <2>4, <2>5, <2>6
<1>. QED
  BY <1>2, <1>3

(* The order of pages tells which page of the service each is.             *)
LEMMA FromOrder ==
  ASSUME NEW s, IsService(s), NEW k \in PageNumbers(s), NEW l \in PageNumbers(s),
         NEW p, NEW q, IsFrom(s, p, k), IsFrom(s, q, l)
  PROVE  PageBefore(p, q) <=> k < l
<1>1. ASSUME NEW i \in PageNumbers(s), NEW j \in PageNumbers(s),
             NEW a, NEW b, IsFrom(s, a, i), IsFrom(s, b, j), i < j
      PROVE  PageBefore(a, b)
  <2>1. /\ a.page = OnAir(s, i).page /\ a.sub = OnAir(s, i).sub
        /\ b.page = OnAir(s, j).page /\ b.sub = OnAir(s, j).sub
    BY <1>1 DEF IsFrom
  <2>2. i \in 1 .. Len(s.pages) + 1 /\ j \in 1 .. Len(s.pages) + 1 /\ Len(s.pages) \in Nat
    BY OnAirParts, FirstTitle
  <2>3. i \in 1 .. Len(s.pages)
    BY <1>1, <2>2
  <2>4. OnAir(s, i).page = s.pages[i][1] /\ OnAir(s, i).sub = s.pages[i][2] /\ OnAir(s, i).page < TipsPageNo
    BY <2>3, OnAirParts
  <2>5. CASE j \in 1 .. Len(s.pages)
    <3>1. OnAir(s, j).page = s.pages[j][1] /\ OnAir(s, j).sub = s.pages[j][2]
      BY <2>5, OnAirParts
    <3>2. \/ s.pages[i][1] < s.pages[j][1]
          \/ /\ s.pages[i][1] = s.pages[j][1]
             /\ s.pages[j][2] = s.pages[i][2] + (j - i)
      BY <1>1, <2>3, <2>5, PagesAscend
    <3>3. s.pages[i][2] \in Nat /\ s.pages[j][2] \in Nat /\ j - i > 0 /\ j - i \in Int
      BY <1>1, <2>2, <2>3, <2>5, LayoutParts
    <3>. QED
      BY <2>1, <2>4, <3>1, <3>2, <3>3 DEF PageBefore
  <2>6. CASE j \notin 1 .. Len(s.pages)
    <3>1. OnAir(s, j).page = TipsPageNo
      BY <2>6, OnAirParts
    <3>. QED
      BY <2>1, <2>4, <3>1 DEF PageBefore
  <2>. QED
    BY <2>5, <2>6
<1>2. k \in Int /\ l \in Int
  BY OnAirParts
<1>3. /\ p.page \in Nat /\ p.sub \in Nat /\ q.page \in Nat /\ q.sub \in Nat
  BY OnAirParts DEF IsFrom
<1>4. CASE k < l
  BY <1>1, <1>4
<1>5. CASE k = l
  <2>1. p.page = q.page /\ p.sub = q.sub
    BY <1>5 DEF IsFrom
  <2>2. ~PageBefore(p, q)
    BY <1>3, <2>1 DEF PageBefore
  <2>. QED
    BY <1>2, <1>5, <2>2
<1>6. CASE l < k
  <2>1. PageBefore(q, p)
    BY <1>1, <1>6
  <2>2. ~PageBefore(p, q)
    BY <1>3, <2>1 DEF PageBefore
  <2>. QED
    BY <1>2, <1>6, <2>2
<1>. QED
  BY <1>2, <1>4, <1>5, <1>6

LEMMA FromOnePage ==
  ASSUME NEW s, IsService(s), NEW k \in PageNumbers(s), NEW l \in PageNumbers(s),
         NEW p, IsFrom(s, p, k), IsFrom(s, p, l)
  PROVE  k = l
<1>1. ~PageBefore(p, p)
  <2>1. p.page \in Nat /\ p.sub \in Nat
    BY OnAirParts DEF IsFrom
  <2>. QED
    BY <2>1 DEF PageBefore
<1>2. k \in Int /\ l \in Int
  BY OnAirParts
<1>3. ~(k < l) /\ ~(l < k)
  BY <1>1, FromOrder
<1>. QED
  BY <1>2, <1>3

-----------------------------------------------------------------------------
(* Adjacent pages                                                          *)

(* The number of the last sub-page is that of the last page of its number, *)
(* also when this is the page that was not received.                       *)
LEMMA LastSub ==
  ASSUME IsService(service), NEW l \in 1 .. Len(service.pages)
  PROVE  \E k \in 1 .. Len(service.pages) :
           /\ service.pages[k][1] = service.pages[l][1]
           /\ LastSubPageNo(service.pages[l][1]) = service.pages[k][2]
           /\ \A j \in 1 .. Len(service.pages) :
                service.pages[j][1] = service.pages[l][1] => j <= k
<1>. DEFINE pages == service.pages
            page == pages[l][1]
            all == {j \in 1 .. Len(pages) : pages[j][1] = page}
            seen == IF service.top THEN all ELSE all \ service.lost
            subs == {pages[j][2] : j \in seen}
            T == {m \in 1 .. Len(pages) + 1 : \A j \in m .. Len(pages) : pages[j][1] # page}
            m == Min(T)
<1>1. Len(pages) \in Nat
  BY FirstTitle
<1>2. m \in T /\ \A y \in T : m <= y
  <2>1. Len(pages) + 1 \in T /\ T \in SUBSET Nat
    BY <1>1
  <2>. HIDE DEF T
  <2>. QED
    BY <2>1, LeastInSet
<1>. HIDE DEF m
<1>3. m \in 1 .. Len(pages) + 1 /\ \A j \in m .. Len(pages) : pages[j][1] # page
  BY <1>2
<1>4. m # 1 /\ m - 1 \in 1 .. Len(pages)
  BY <1>1, <1>3
<1>5. m - 1 \notin T
  <2>1. ~(m <= m - 1)
    BY <1>3
  <2>. HIDE DEF T
  <2>. QED
    BY <1>2, <2>1
<1>6. pages[m - 1][1] = page
  <2>1. PICK j \in m - 1 .. Len(pages) : pages[j][1] = page
    BY <1>1, <1>4, <1>5
  <2>2. j = m - 1 \/ j \in m .. Len(pages)
    BY <1>1, <1>3, <2>1
  <2>. QED
    BY <1>3, <2>1, <2>2
<1>7. \A j \in all : j <= m - 1
  BY <1>1, <1>3
<1>8. ASSUME NEW j \in all PROVE pages[j][2] <= pages[m - 1][2]
  <2>1. j \in 1 .. Len(pages) /\ pages[j][1] = page /\ j <= m - 1
    BY <1>7
  <2>2. pages[j][2] \in Nat /\ pages[m - 1][2] \in Nat /\ pages[m - 1][1] \in Nat
    BY <1>4, <2>1, LayoutParts
  <2>3. CASE j = m - 1
    BY <2>2, <2>3
  <2>4. CASE j < m - 1
    <3>1. \/ pages[j][1] < pages[m - 1][1]
          \/ pages[m - 1][2] = pages[j][2] + ((m - 1) - j)
      BY <1>4, <2>1, <2>4, PagesAscend
    <3>2. ~(pages[j][1] < pages[m - 1][1])
      BY <1>6, <2>1, <2>2
    <3>3. (m - 1) - j > 0 /\ (m - 1) - j \in Int
      BY <1>3, <2>1, <2>4
    <3>4. pages[m - 1][2] = pages[j][2] + ((m - 1) - j)
      BY <3>1, <3>2
    <3>. QED
      BY <2>2, <3>3, <3>4
  <2>. QED
    BY <1>3, <2>1, <2>3, <2>4
<1>9. LastSubPageNo(page) = IF subs = {} THEN -1 ELSE CHOOSE n \in subs : \A o \in subs : o <= n
  BY DEF LastSubPageNo
<1>10. pages[m - 1][2] \in subs /\ \A o \in subs : o <= pages[m - 1][2] /\ o \in Nat
  <2>0. seen = all
    <3>1. service.top = (service.lost # {})
      BY LayoutParts
    <3>. QED
      BY <3>1
  <2>1. m - 1 \in all
    BY <1>4, <1>6
  <2>2. \A j \in all : pages[j][2] \in Nat
    BY LayoutParts
  <2>. HIDE DEF all, pages, seen
  <2>. QED
    BY <1>8, <2>0, <2>1, <2>2
<1>11. LastSubPageNo(page) = pages[m - 1][2]
  <2>. HIDE DEF subs, page
  <2>1. LastSubPageNo(page) \in subs /\ \A o \in subs : o <= LastSubPageNo(page)
    BY <1>9, <1>10
  <2>. QED
    BY <1>10, <2>1
<1>. QED
  BY <1>4, <1>6, <1>7, <1>11

(* Of the pages in order, only the next one is adjacent; tips never are.   *)
LEMMA AdjacentPages ==
  ASSUME IsService(service),
         NEW l \in PageNumbers(service), NEW k \in PageNumbers(service), l < k,
         NEW p, NEW q, IsFrom(service, p, l), IsFrom(service, q, k)
  PROVE  Adjacent(p, q) <=> k = l + 1 /\ k \in 1 .. Len(service.pages)
<1>. DEFINE pages == service.pages
<1>1. Len(pages) \in Nat /\ l \in 1 .. Len(pages) + 1 /\ k \in 1 .. Len(pages) + 1
  BY FirstTitle, OnAirParts
<1>2. l \in 1 .. Len(pages)
  BY <1>1
<1>3. /\ p.page = pages[l][1] /\ p.sub = pages[l][2] /\ p.skip = 0
      /\ pages[l][1] \in Nat /\ pages[l][2] \in Nat
      /\ p.page < TipsPageNo
  BY <1>2, OnAirParts, LayoutParts DEF IsFrom
<1>4. Adjacent(p, q) <=> \/ p.page = q.page /\ p.sub + 1 = q.sub
                         \/ /\ GetNextPageNumber(p.page) = q.page
                            /\ p.sub = LastSubPageNo(p.page)
                            /\ q.sub <= 1
  <2>1. p.sub + p.skip = p.sub /\ p.sub + p.skip + 1 = p.sub + 1
    BY <1>3
  <2>. QED
    BY <2>1 DEF Adjacent
<1>5. PICK last \in 1 .. Len(pages) :
        /\ pages[last][1] = pages[l][1]
        /\ LastSubPageNo(pages[l][1]) = pages[last][2]
        /\ \A j \in 1 .. Len(pages) : pages[j][1] = pages[l][1] => j <= last
  BY <1>2, LastSub
<1>6. CASE k \notin 1 .. Len(pages)
  <2>1. q.page = TipsPageNo
    BY <1>6, OnAirParts DEF IsFrom
  <2>2. GetNextPageNumber(p.page) < TipsPageNo
    BY <1>2, <1>3, LayoutParts
  <2>3. TipsPageNo \in Nat
    BY DEF TipsPageNo
  <2>4. p.page \in Nat
    BY <1>3
  <2>5. GetNextPageNumber(p.page) \in Nat
    BY <2>4, NextNumber
  <2>. QED
    BY <1>3, <1>4, <1>6, <2>1, <2>2, <2>3, <2>5
<1>7. CASE k \in 1 .. Len(pages)
  <2>1. /\ q.page = pages[k][1] /\ q.sub = pages[k][2]
        /\ pages[k][1] \in Nat /\ pages[k][2] \in Nat
    BY <1>7, OnAirParts, LayoutParts DEF IsFrom
  <2>2. l \in 1 .. Len(pages) - 1 /\ l + 1 \in 1 .. Len(pages) /\ l + 1 \in Nat /\ l < l + 1
    BY <1>1, <1>2, <1>7
  <2>3. \/ /\ pages[l][2] > 0
           /\ pages[l + 1][1] = pages[l][1]
           /\ pages[l + 1][2] = pages[l][2] + 1
        \/ /\ pages[l + 1][1] = GetNextPageNumber(pages[l][1])
           /\ pages[l + 1][2] <= 1
    BY <2>2, LayoutParts
  <2>4. pages[l][1] < GetNextPageNumber(pages[l][1]) /\ GetNextPageNumber(pages[l][1]) \in Nat
    BY <1>3, NextNumber
  <2>5. \/ pages[l][1] < pages[k][1]
        \/ /\ pages[l][1] = pages[k][1]
           /\ pages[k][2] = pages[l][2] + (k - l)
    BY <1>2, <1>7, PagesAscend
  <2>6. pages[last][1] \in Nat /\ pages[last][2] \in Nat
    BY <1>5, LayoutParts
  <2>7. last \in Int /\ l <= last
    BY <1>2, <1>5
  <2>8. ASSUME k = l + 1 PROVE Adjacent(p, q)
    <3>1. CASE pages[l + 1][1] = pages[l][1] /\ pages[l + 1][2] = pages[l][2] + 1
      BY <1>3, <1>4, <2>1, <2>8, <3>1
    <3>2. CASE pages[l + 1][1] = GetNextPageNumber(pages[l][1]) /\ pages[l + 1][2] <= 1
      <4>1. ~(l + 1 < last)
        <5>1. SUFFICES ASSUME l + 1 < last PROVE FALSE
          OBVIOUS
        <5>2. \/ pages[l + 1][1] < pages[last][1]
              \/ pages[l + 1][1] = pages[last][1]
          BY <1>5, <2>2, <5>1, PagesAscend
        <5>. QED
          BY <1>3, <1>5, <2>4, <3>2, <5>2
      <4>2. last # l + 1
        <5>1. pages[l + 1][1] # pages[l][1]
          BY <1>3, <2>4, <3>2
        <5>. QED
          BY <1>5, <5>1
      <4>3. last = l
        BY <1>2, <2>2, <2>7, <4>1, <4>2
      <4>. QED
        BY <1>3, <1>4, <1>5, <2>1, <2>8, <3>2, <4>3
    <3>. QED
      BY <2>3, <3>1, <3>2
  <2>9. ASSUME Adjacent(p, q), k # l + 1 PROVE FALSE
    <3>1. l + 1 < k
      BY <1>1, <2>2, <2>9
    <3>2. CASE p.page = q.page /\ p.sub + 1 = q.sub
      <4>1. pages[k][2] = pages[l][2] + (k - l)
        BY <1>3, <2>1, <2>5, <3>2
      <4>2. pages[k][2] = pages[l][2] + 1
        BY <1>3, <2>1, <3>2
      <4>3. k - l = 1
        BY <1>1, <1>3, <4>1, <4>2
      <4>. QED
        BY <1>1, <2>9, <4>3
    <3>3. CASE /\ GetNextPageNumber(p.page) = q.page
               /\ p.sub = LastSubPageNo(p.page)
               /\ q.sub <= 1
      <4>1. CASE pages[l + 1][1] = pages[l][1]
        <5>1. l + 1 <= last /\ l < last
          BY <1>5, <2>2, <2>7, <4>1
        <5>2. \/ pages[l][1] < pages[last][1]
              \/ pages[last][2] = pages[l][2] + (last - l)
          BY <1>2, <1>5, <5>1, PagesAscend
        <5>3. pages[last][2] = pages[l][2] + (last - l)
          BY <1>3, <1>5, <5>2
        <5>4. pages[last][2] = pages[l][2]
          BY <1>3, <1>5, <3>3
        <5>5. last - l > 0 /\ last - l \in Int
          BY <1>1, <2>7, <5>1
        <5>. QED
          BY <1>3, <5>3, <5>4, <5>5
      <4>2. CASE pages[l + 1][1] = GetNextPageNumber(pages[l][1])
        <5>1. pages[l + 1][1] = pages[k][1]
          BY <1>3, <2>1, <3>3, <4>2
        <5>2. pages[l + 1][1] \in Nat /\ pages[l + 1][2] \in Nat
          BY <2>2, LayoutParts
        <5>3. \/ pages[l + 1][1] < pages[k][1]
              \/ /\ pages[l + 1][2] > 0
                 /\ pages[k][2] = pages[l + 1][2] + (k - (l + 1))
          BY <1>7, <2>2, <3>1, PagesAscend
        <5>4. pages[l + 1][2] > 0 /\ pages[k][2] = pages[l + 1][2] + (k - (l + 1))
          BY <5>1, <5>2, <5>3
        <5>5. k - (l + 1) > 0 /\ k - (l + 1) \in Int
          BY <1>1, <3>1
        <5>6. pages[k][2] > 1
          BY <5>2, <5>4, <5>5
        <5>. QED
          BY <2>1, <3>3, <5>6
      <4>. QED
        BY <2>3, <4>1, <4>2
    <3>. QED
      BY <1>4, <2>9, <3>2, <3>3
  <2>. QED
    BY <1>7, <2>8, <2>9
<1>. QED
  BY <1>6, <1>7

-----------------------------------------------------------------------------
(* Days                                                                    *)

(* From a time to one less than a day later, the hour tells whether it is  *)
(* on the same day.                                                        *)
LEMMA NextDay ==
  ASSUME NEW t \in Nat, NEW u \in Nat, t < u, WithinDay(t, u)
  PROVE  \/ /\ DayOf(u) = DayOf(t) /\ HourOf(t) <= HourOf(u)
            /\ (t % DayMin) < (u % DayMin)
         \/ /\ DayOf(u) = DayOf(t) + 1 /\ HourOf(u) < HourOf(t)
            /\ (u % DayMin) < (t % DayMin)
<1>. DEFINE a == DayOf(t)
            b == DayOf(u)
            h == HourOf(t)
            i == HourOf(u)
            f == t % DayMin
            g == u % DayMin
<1>1. /\ a \in Nat /\ h \in 0 .. 23 /\ MinOf(t) \in 0 .. 59
      /\ t = a * DayMin + 60 * h + MinOf(t)
      /\ f = 60 * h + MinOf(t)
  BY TimeParts
<1>2. /\ b \in Nat /\ i \in 0 .. 23 /\ MinOf(u) \in 0 .. 59
      /\ u = b * DayMin + 60 * i + MinOf(u)
      /\ g = 60 * i + MinOf(u)
  BY TimeParts
<1>3. u - t < DayMin /\ (b # a => i < h)
  BY DEF WithinDay
<1>. HIDE DEF a, b, f, g, h, i
<1>4. /\ t = a * 1440 + f /\ u = b * 1440 + g /\ u - t < 1440
      /\ f \in 0 .. 1439 /\ g \in 0 .. 1439
  BY <1>1, <1>2, <1>3 DEF DayMin
<1>5. (f < g => h <= i) /\ (i < h => g < f)
  BY <1>1, <1>2
<1>6. (a = b /\ f < g) \/ b = a + 1
  <2>1. a \in Nat /\ b \in Nat
    BY <1>1, <1>2
  <2>2. a <= b
    BY <1>4, <2>1
  <2>3. b <= a + 1
    BY <1>4, <2>1
  <2>4. a = b => f < g
    BY <1>4, <2>1
  <2>. QED
    BY <2>1, <2>2, <2>3, <2>4
<1>7. \/ b = a /\ h <= i /\ f < g
      \/ b = a + 1 /\ i < h /\ g < f
  BY <1>1, <1>3, <1>5, <1>6
<1>. QED
  BY <1>7 DEF a, b, f, g, h, i

-----------------------------------------------------------------------------
(* Lines of a page                                                         *)

(* The programme on line j of page k.                                      *)
TitleOn(s, k, j) == IF k <= Len(s.pages) THEN s.first[k] + j - 1 ELSE 2 * j - 1

LEMMA OnAirSlots ==
  ASSUME NEW s, IsService(s), NEW k \in PageNumbers(s),
         NEW j \in 1 .. Len(OnAir(s, k).slots)
  PROVE  LET x == OnAir(s, k).slots[j] IN
         /\ x.title = TitleOn(s, k, j) /\ x.title \in 1 .. Len(s.starts)
         /\ x.start = NoTime /\ x.stop = NoTime
         /\ x.hour = HourOf(s.starts[x.title])
         /\ Minutes(x) = s.starts[x.title] % DayMin
         /\ x.end # NoTime => /\ k <= Len(s.pages) /\ x.title < Len(s.starts)
                              /\ x.end = s.starts[x.title + 1] % DayMin
<1>. DEFINE x == OnAir(s, k).slots[j]
            i == TitleOn(s, k, j)
<1>1. k \in 1 .. Len(s.pages) + 1 /\ Len(s.pages) \in Nat /\ Len(s.starts) \in Nat
  BY OnAirParts, FirstTitle, ServiceParts
<1>2. /\ i \in 1 .. Len(s.starts)
      /\ \E end : /\ x = Slot(s, i, end)
                  /\ end # NoTime => /\ k <= Len(s.pages) /\ i < Len(s.starts)
                                     /\ end = s.starts[i + 1] % DayMin
  <2>1. CASE k \in 1 .. Len(s.pages)
    <3>1. OnAir(s, k) = Shown(s, k) /\ k <= Len(s.pages)
      BY <2>1, OnAirParts
    <3>2. j \in 1 .. Len(Shown(s, k).slots)
      BY <3>1
    <3>3. i = s.first[k] + j - 1
      BY <3>1 DEF TitleOn
    <3>4. x = Slot(s, i, EndShown(s, k, i))
      BY <2>1, <3>1, <3>2, <3>3, ShownPage
    <3>5. i \in 1 .. Len(s.starts)
      <4>1. Len(Shown(s, k).slots) = LastTitle(s, k) - s.first[k] + 1
        BY <2>1, ShownPage
      <4>2. s.first[k] \in 1 .. Len(s.starts) /\ LastTitle(s, k) \in s.first[k] .. Len(s.starts)
        BY <2>1, PageTitles
      <4>. QED
        BY <1>1, <3>2, <3>3, <4>1, <4>2
    <3>6. EndShown(s, k, i) # NoTime => i < Len(s.starts) /\ EndShown(s, k, i) = s.starts[i + 1] % DayMin
      BY DEF EndShown
    <3>. QED
      BY <3>1, <3>4, <3>5, <3>6
  <2>2. CASE k \notin 1 .. Len(s.pages)
    <3>1. OnAir(s, k) = TipsPage(s) /\ ~(k <= Len(s.pages))
      BY <1>1, <2>2, OnAirParts
    <3>2. i = 2 * j - 1
      BY <3>1 DEF TitleOn
    <3>3. i \in 1 .. Len(s.starts) /\ x = Slot(s, i, NoTime)
      BY <3>1, <3>2, TipsShown
    <3>. QED
      BY <3>3
  <2>. QED
    BY <2>1, <2>2
<1>. HIDE DEF i, x
<1>3. PICK end : /\ x = Slot(s, i, end)
                 /\ end # NoTime => /\ k <= Len(s.pages) /\ i < Len(s.starts)
                                    /\ end = s.starts[i + 1] % DayMin
  BY <1>2
<1>4. /\ x.title = i /\ x.start = NoTime /\ x.stop = NoTime /\ x.end = end
      /\ x.hour = HourOf(s.starts[i]) /\ x.min = MinOf(s.starts[i])
  BY <1>3 DEF Slot
<1>5. Minutes(x) = (s.starts[i] % DayMin)
  <2>1. s.starts[i] \in Nat
    BY <1>2, ServiceParts
  <2>2. (s.starts[i] % DayMin) = 60 * HourOf(s.starts[i]) + MinOf(s.starts[i])
    BY <2>1, TimeParts
  <2>. QED
    BY <1>4, <2>2 DEF Minutes
<1>. QED
  BY <1>2, <1>3, <1>4, <1>5 DEF x, i

(* From one line to the next less than a day passes.                       *)
LEMMA NextLine ==
  ASSUME NEW s, IsService(s), Regular(s), NEW k \in PageNumbers(s),
         NEW j \in 2 .. Len(OnAir(s, k).slots)
  PROVE  LET t == s.starts[TitleOn(s, k, j - 1)]
             u == s.starts[TitleOn(s, k, j)]
         IN t \in Nat /\ u \in Nat /\ t < u /\ WithinDay(t, u)
<1>. DEFINE h == TitleOn(s, k, j - 1)
            i == TitleOn(s, k, j)
<1>1. k \in 1 .. Len(s.pages) + 1 /\ Len(s.pages) \in Nat /\ Len(s.starts) \in Nat
      /\ Len(OnAir(s, k).slots) \in Nat
  BY OnAirParts, FirstTitle, ServiceParts, PageParts
<1>2. j - 1 \in 1 .. Len(OnAir(s, k).slots) /\ j \in 1 .. Len(OnAir(s, k).slots)
  BY <1>1
<1>3. h \in 1 .. Len(s.starts) /\ i \in 1 .. Len(s.starts)
  BY <1>2, OnAirSlots
<1>4. /\ k \in 1 .. Len(s.pages) => i = h + 1
      /\ k \notin 1 .. Len(s.pages) => i = h + 2 /\ s.tips
  <2>1. CASE k \in 1 .. Len(s.pages)
    <3>1. h = s.first[k] + (j - 1) - 1 /\ i = s.first[k] + j - 1
      BY <1>1, <2>1 DEF TitleOn
    <3>2. s.first[k] \in Int
      BY <2>1, PageTitles
    <3>. QED
      BY <2>1, <3>1, <3>2
  <2>2. CASE k \notin 1 .. Len(s.pages)
    <3>1. h = 2 * (j - 1) - 1 /\ i = 2 * j - 1
      BY <1>1, <2>2 DEF TitleOn
    <3>2. s.tips
      BY <2>2, OnAirParts
    <3>. QED
      BY <2>2, <3>1, <3>2
  <2>. QED
    BY <2>1, <2>2
<1>. HIDE DEF h, i
<1>5. s.starts[h] \in Nat /\ s.starts[i] \in Nat
  BY <1>3, ServiceParts
<1>6. s.starts[h] < s.starts[i]
  <2>1. h < i
    BY <1>3, <1>4
  <2>. QED
    BY <1>3, <2>1, ServiceParts
<1>7. WithinDay(s.starts[h], s.starts[i])
  <2>1. CASE k \in 1 .. Len(s.pages)
    <3>1. h \in 1 .. Len(s.starts) - 1 /\ i = h + 1
      BY <1>1, <1>3, <1>4, <2>1
    <3>. QED
      BY <3>1 DEF Regular
  <2>2. CASE k \notin 1 .. Len(s.pages)
    <3>1. h \in 1 .. Len(s.starts) - 2 /\ i = h + 2 /\ s.tips
      BY <1>1, <1>3, <1>4, <2>2
    <3>. QED
      BY <3>1 DEF Regular
  <2>. QED
    BY <2>1, <2>2
<1>. QED
  BY <1>5, <1>6, <1>7 DEF h, i

(* The first line of a page.                                               *)
LEMMA FirstLine ==
  ASSUME NEW s, IsService(s), NEW k \in PageNumbers(s)
  PROVE  /\ s.starts[TitleOn(s, k, 1)] = FirstStart(s, k)
         /\ FirstStart(s, k) \in Nat /\ FirstStart(s, k) >= DayMin
         /\ OnAir(s, k).slots[1].hour = HourOf(FirstStart(s, k))
         /\ Minutes(OnAir(s, k).slots[1]) = FirstStart(s, k) % DayMin
<1>1. 1 \in 1 .. Len(OnAir(s, k).slots)
  BY OnAirParts, PageParts
<1>2. TitleOn(s, k, 1) = IF k <= Len(s.pages) THEN s.first[k] ELSE 1
  <2>1. k \in 1 .. Len(s.pages) + 1 /\ Len(s.pages) \in Nat
    BY OnAirParts, FirstTitle
  <2>2. k <= Len(s.pages) => s.first[k] \in Int
    BY <2>1, PageTitles
  <2>. QED
    BY <2>2 DEF TitleOn
<1>3. s.starts[TitleOn(s, k, 1)] = FirstStart(s, k)
  BY <1>2 DEF FirstStart
<1>. DEFINE x == OnAir(s, k).slots[1]
            i == TitleOn(s, k, 1)
<1>4. /\ x.title = i /\ i \in 1 .. Len(s.starts)
      /\ x.hour = HourOf(s.starts[x.title])
      /\ Minutes(x) = (s.starts[x.title] % DayMin)
  <2>1. /\ x.title = i /\ x.title \in 1 .. Len(s.starts)
        /\ x.hour = HourOf(s.starts[x.title])
        /\ Minutes(x) = (s.starts[x.title] % DayMin)
    BY <1>1, OnAirSlots
  <2>. QED
    BY <2>1
<1>. HIDE DEF x, i
<1>5. s.starts[i] \in Nat /\ s.starts[i] >= DayMin
  BY <1>4, ServiceParts
<1>6. s.starts[i] = FirstStart(s, k)
  BY <1>3 DEF i
<1>7. x.hour = HourOf(FirstStart(s, k)) /\ Minutes(x) = (FirstStart(s, k) % DayMin)
  BY <1>4, <1>6
<1>. QED
  BY <1>5, <1>6, <1>7 DEF x, i

(* Days are counted right from line to line.                               *)
LEMMA DaysOnPage ==
  ASSUME NEW s, IsService(s), Regular(s), NEW k \in PageNumbers(s),
         NEW B \in SUBSET (2 .. Len(OnAir(s, k).slots)),
         \A j \in 2 .. Len(OnAir(s, k).slots) :
           \/ j \in B /\ OnAir(s, k).slots[j].hour < OnAir(s, k).slots[j - 1].hour
           \/ j \in B /\ Minutes(OnAir(s, k).slots[j]) < Minutes(OnAir(s, k).slots[j - 1])
           \/ j \notin B /\ OnAir(s, k).slots[j].hour >= OnAir(s, k).slots[j - 1].hour
           \/ j \notin B /\ Minutes(OnAir(s, k).slots[j]) >= Minutes(OnAir(s, k).slots[j - 1]),
         NEW l \in 1 .. Len(OnAir(s, k).slots)
  PROVE  Cardinality({j \in 2 .. l : j \in B}) =
           DayOf(s.starts[TitleOn(s, k, l)]) - DayOf(FirstStart(s, k))
<1>. DEFINE n == Len(OnAir(s, k).slots)
            start(j) == s.starts[TitleOn(s, k, j)]
            d == [j \in 1 .. n |-> DayOf(start(j))]
<1>1. n \in Nat
  BY OnAirParts, PageParts
<1>2. ASSUME NEW j \in 1 .. n
      PROVE  /\ start(j) \in Nat /\ DayOf(start(j)) \in Nat
             /\ OnAir(s, k).slots[j].hour = HourOf(start(j))
             /\ Minutes(OnAir(s, k).slots[j]) = (start(j) % DayMin)
             /\ HourOf(start(j)) \in Nat /\ (start(j) % DayMin) \in Nat
  <2>1. /\ OnAir(s, k).slots[j].title = TitleOn(s, k, j)
        /\ OnAir(s, k).slots[j].title \in 1 .. Len(s.starts)
        /\ OnAir(s, k).slots[j].hour = HourOf(s.starts[OnAir(s, k).slots[j].title])
        /\ Minutes(OnAir(s, k).slots[j]) = (s.starts[OnAir(s, k).slots[j].title] % DayMin)
    BY OnAirSlots
  <2>2. start(j) \in Nat
    BY <2>1, ServiceParts
  <2>3. DayOf(start(j)) \in Nat /\ HourOf(start(j)) \in Nat /\ (start(j) % DayMin) \in Nat
    BY <2>2, TimeParts
  <2>4. /\ OnAir(s, k).slots[j].hour = HourOf(start(j))
        /\ Minutes(OnAir(s, k).slots[j]) = (start(j) % DayMin)
    BY <2>1
  <2>. HIDE DEF start
  <2>. QED
    BY <2>2, <2>3, <2>4
<1>3. d \in [1 .. n -> Int]
  BY <1>2
<1>4. ASSUME NEW j \in 2 .. n
      PROVE  d[j] = d[j - 1] + (IF j \in B THEN 1 ELSE 0)
  <2>1. j \in 1 .. n /\ j - 1 \in 1 .. n
    BY <1>1
  <2>2. start(j - 1) \in Nat /\ start(j) \in Nat /\ start(j - 1) < start(j) /\ WithinDay(start(j - 1), start(j))
    BY NextLine
  <2>. DEFINE t == start(j - 1)
              u == start(j)
  <2>3. \/ /\ DayOf(u) = DayOf(t) /\ HourOf(t) <= HourOf(u)
           /\ (t % DayMin) < (u % DayMin)
        \/ /\ DayOf(u) = DayOf(t) + 1 /\ HourOf(u) < HourOf(t)
           /\ (u % DayMin) < (t % DayMin)
    BY <2>2, NextDay
  <2>4. /\ DayOf(t) \in Nat /\ HourOf(t) \in Nat /\ (t % DayMin) \in Nat
        /\ DayOf(u) \in Nat /\ HourOf(u) \in Nat /\ (u % DayMin) \in Nat
        /\ OnAir(s, k).slots[j - 1].hour = HourOf(t)
        /\ OnAir(s, k).slots[j].hour = HourOf(u)
        /\ Minutes(OnAir(s, k).slots[j - 1]) = (t % DayMin)
        /\ Minutes(OnAir(s, k).slots[j]) = (u % DayMin)
    BY <1>2, <2>1
  <2>5. d[j] = DayOf(u) /\ d[j - 1] = DayOf(t)
    BY <2>1
  <2>. HIDE DEF t, u, d, n
  <2>6. \/ j \in B /\ HourOf(u) < HourOf(t)
        \/ j \in B /\ (u % DayMin) < (t % DayMin)
        \/ j \notin B /\ HourOf(u) >= HourOf(t)
        \/ j \notin B /\ (u % DayMin) >= (t % DayMin)
    BY <2>4 DEF n
  <2>7. \/ j \notin B /\ DayOf(u) = DayOf(t)
        \/ j \in B /\ DayOf(u) = DayOf(t) + 1
    BY <2>3, <2>4, <2>6
  <2>. QED
    BY <2>4, <2>5, <2>7
<1>5. d[l] = DayOf(start(l)) /\ d[1] = DayOf(FirstStart(s, k))
  <2>1. 1 \in 1 .. n
    BY <1>1
  <2>. QED
    BY <2>1, FirstLine
<1>. HIDE DEF d
<1>6. Cardinality({j \in 2 .. l : j \in B}) = d[l] - d[1]
  <2>. HIDE DEF n
  <2>. QED
    BY <1>1, <1>3, <1>4, CountSteps DEF n
<1>. QED
  BY <1>5, <1>6

(* With the true date of the page all its start times are true.            *)
LEMMA TrueStart ==
  ASSUME NEW s, IsService(s), Regular(s), NEW k \in PageNumbers(s),
         NEW date \in [day : Nat, off : Nat],
         date.day + date.off = DayOf(FirstStart(s, k)),
         NEW l \in 1 .. Len(OnAir(s, k).slots)
  PROVE  StartTime(OnAir(s, k), date, l) = s.starts[TitleOn(s, k, l)]
<1>. DEFINE pg == OnAir(s, k)
            n == Len(pg.slots)
            t == s.starts[TitleOn(s, k, l)]
            B == {j \in 2 .. n : pg.slots[j - 1].hour > pg.slots[j].hour}
            W == {j \in 2 .. l : pg.slots[j - 1].hour > pg.slots[j].hour}
<1>1. n \in Nat /\ \A j \in 1 .. n : pg.slots[j].hour \in 0 .. 23
  <2>1. pg \in PageSet
    BY OnAirParts
  <2>. HIDE DEF pg
  <2>2. n \in Nat /\ \A j \in 1 .. n : pg.slots[j] \in SlotSet
    BY <2>1, PageParts
  <2>. QED
    BY <2>2, SlotParts
<1>2. \A j \in 2 .. n : \/ j \in B /\ pg.slots[j].hour < pg.slots[j - 1].hour
                        \/ j \notin B /\ pg.slots[j].hour >= pg.slots[j - 1].hour
  <2>1. SUFFICES ASSUME NEW j \in 2 .. n
                 PROVE  \/ j \in B /\ pg.slots[j].hour < pg.slots[j - 1].hour
                        \/ j \notin B /\ pg.slots[j].hour >= pg.slots[j - 1].hour
    OBVIOUS
  <2>2. pg.slots[j].hour \in 0 .. 23 /\ pg.slots[j - 1].hour \in 0 .. 23
    <3>1. j \in 1 .. n /\ j - 1 \in 1 .. n
      BY <1>1
    <3>. HIDE DEF pg
    <3>. QED
      BY <1>1, <3>1
  <2>. DEFINE h == pg.slots[j - 1].hour
              i == pg.slots[j].hour
  <2>3. j \in B <=> h > i
    OBVIOUS
  <2>4. h \in 0 .. 23 /\ i \in 0 .. 23
    BY <2>2
  <2>. HIDE DEF B, pg, h, i
  <2>5. (j \in B /\ i < h) \/ (j \notin B /\ i >= h)
    BY <2>3, <2>4
  <2>. QED
    BY <2>5 DEF h, i
<1>3. W = {j \in 2 .. l : j \in B}
  BY <1>1
<1>4. B \in SUBSET (2 .. n)
  OBVIOUS
<1>. HIDE DEF B
<1>5. Cardinality({j \in 2 .. l : j \in B}) = DayOf(t) - DayOf(FirstStart(s, k))
  BY <1>2, <1>4, DaysOnPage
<1>6. /\ t \in Nat /\ Minutes(pg.slots[l]) = (t % DayMin)
  <2>1. /\ pg.slots[l].title = TitleOn(s, k, l)
        /\ pg.slots[l].title \in 1 .. Len(s.starts)
        /\ Minutes(pg.slots[l]) = (s.starts[pg.slots[l].title] % DayMin)
    BY OnAirSlots
  <2>. QED
    BY <2>1, ServiceParts
<1>7. StartTime(pg, date, l) = (date.day + date.off + Cardinality(W)) * DayMin + Minutes(pg.slots[l])
  BY DEF StartTime
<1>. HIDE DEF W, t
<1>8. date.day + date.off + Cardinality(W) = DayOf(t)
  <2>1. DayOf(t) \in Nat /\ DayOf(FirstStart(s, k)) \in Nat
    BY <1>6, FirstLine, TimeParts
  <2>2. Cardinality(W) = DayOf(t) - DayOf(FirstStart(s, k))
    BY <1>3, <1>5 DEF t
  <2>. QED
    BY <2>1, <2>2
<1>9. t = DayOf(t) * DayMin + (t % DayMin)
  BY <1>6, TimeParts
<1>. QED
  BY <1>6, <1>7, <1>8, <1>9 DEF t

LEMMA DayAscends ==
  ASSUME NEW t \in Nat, NEW u \in Nat, t <= u
  PROVE  /\ DayOf(t) <= DayOf(u)
         /\ DayOf(t) = DayOf(u) => HourOf(t) <= HourOf(u)
<1>. DEFINE a == DayOf(t)
            b == DayOf(u)
            h == HourOf(t)
            i == HourOf(u)
<1>1. /\ a \in Nat /\ h \in 0 .. 23 /\ MinOf(t) \in 0 .. 59
      /\ t = a * DayMin + 60 * h + MinOf(t)
  BY TimeParts
<1>2. /\ b \in Nat /\ i \in 0 .. 23 /\ MinOf(u) \in 0 .. 59
      /\ u = b * DayMin + 60 * i + MinOf(u)
  BY TimeParts
<1>. HIDE DEF a, b, h, i
<1>3. t = a * 1440 + 60 * h + MinOf(t) /\ u = b * 1440 + 60 * i + MinOf(u)
  BY <1>1, <1>2 DEF DayMin
<1>4. a <= b
  BY <1>1, <1>2, <1>3
<1>5. a = b => h <= i
  BY <1>1, <1>2, <1>3
<1>. QED
  BY <1>4, <1>5 DEF a, b, h, i

(* Later pages begin later, and the next page within a day.                *)
LEMMA NextPageStart ==
  ASSUME NEW s, IsService(s),
         NEW l \in 1 .. Len(s.pages), NEW k \in 1 .. Len(s.pages), l < k
  PROVE  /\ s.first[l] < s.first[k]
         /\ FirstStart(s, l) \in Nat /\ FirstStart(s, k) \in Nat
         /\ FirstStart(s, l) < FirstStart(s, k)
         /\ Regular(s) /\ k = l + 1 => WithinDay(FirstStart(s, l), FirstStart(s, k))
<1>. DEFINE T == {m \in l + 1 .. Len(s.pages) : ~(s.first[l] < s.first[m])}
<1>1. Len(s.pages) \in Nat
  BY FirstTitle
<1>2. \A m \in l .. Len(s.pages) : s.first[m] \in Nat
  <2>1. \A m \in l .. Len(s.pages) : m \in 1 .. Len(s.pages)
    BY <1>1
  <2>2. \A m \in 1 .. Len(s.pages) : s.first[m] \in Nat
    <3>1. \A m \in 1 .. Len(s.pages) : s.first[m] \in 1 .. Len(s.starts)
      BY PageTitles
    <3>. QED
      BY <3>1
  <2>. QED
    BY <2>1, <2>2
<1>3. \A m \in l + 1 .. Len(s.pages) : s.first[m - 1] < s.first[m]
  BY ServiceParts
<1>4. ASSUME T # {} PROVE FALSE
  <2>. DEFINE m == Min(T)
  <2>1. m \in T /\ \A y \in T : m <= y
    <3>1. T \in SUBSET Nat
      OBVIOUS
    <3>. HIDE DEF T
    <3>. QED
      BY <1>4, <3>1, LeastInSet
  <2>. HIDE DEF m
  <2>2. m \in l + 1 .. Len(s.pages) /\ ~(s.first[l] < s.first[m])
    BY <2>1
  <2>3. m - 1 \in l .. Len(s.pages) /\ ~(m <= m - 1)
    BY <1>1, <2>2
  <2>4. m - 1 \notin T
    <3>. HIDE DEF T
    <3>. QED
      BY <2>1, <2>3
  <2>5. s.first[l] < s.first[m - 1] \/ m - 1 = l
    BY <2>3, <2>4
  <2>6. s.first[l] \in Nat /\ s.first[m - 1] \in Nat /\ s.first[m] \in Nat /\ s.first[m - 1] < s.first[m]
    BY <1>1, <1>2, <1>3, <2>2, <2>3
  <2>. QED
    BY <2>2, <2>5, <2>6
<1>5. s.first[l] < s.first[k]
  <2>1. k \in l + 1 .. Len(s.pages)
    OBVIOUS
  <2>. QED
    BY <1>4, <2>1
<1>6. FirstStart(s, l) = s.starts[s.first[l]] /\ FirstStart(s, k) = s.starts[s.first[k]]
  <2>1. l <= Len(s.pages) /\ k <= Len(s.pages)
    OBVIOUS
  <2>. QED
    BY <2>1 DEF FirstStart
<1>7. s.first[l] \in 1 .. Len(s.starts) /\ s.first[k] \in 1 .. Len(s.starts)
  BY PageTitles
<1>8. s.starts[s.first[l]] \in Nat /\ s.starts[s.first[k]] \in Nat
      /\ s.starts[s.first[l]] < s.starts[s.first[k]]
  BY <1>5, <1>7, ServiceParts
<1>9. Regular(s) /\ k = l + 1 => WithinDay(s.starts[s.first[l]], s.starts[s.first[k]])
  <2>1. k = l + 1 => l \in 1 .. Len(s.pages) - 1
    BY <1>1
  <2>. QED
    BY <2>1 DEF Regular
<1>. QED
  BY <1>5, <1>6, <1>8, <1>9

(* A page that is not the last has no more than one midnight on it.        *)
LEMMA PlausiblePage ==
  ASSUME NEW s, IsService(s), Regular(s), NEW k \in PageNumbers(s), k < Len(s.pages)
  PROVE  Plausible(OnAir(s, k))
<1>. DEFINE pg == OnAir(s, k)
            n == Len(pg.slots)
            B == {j \in 2 .. n : Minutes(pg.slots[j]) < Minutes(pg.slots[j - 1])}
            t == s.starts[TitleOn(s, k, n)]
            u == FirstStart(s, k + 1)
            f == FirstStart(s, k)
<1>1. k \in 1 .. Len(s.pages) /\ k + 1 \in 1 .. Len(s.pages) /\ k < k + 1 /\ k <= Len(s.pages)
  BY OnAirParts, FirstTitle
<1>2. n \in Nat /\ n \in 1 .. n
  BY OnAirParts, PageParts
<1>3. Cardinality(B) = DayOf(t) - DayOf(f)
  <2>1. \A j \in 1 .. n : Minutes(pg.slots[j]) \in Nat
    <3>1. pg \in PageSet
      BY OnAirParts
    <3>. HIDE DEF pg
    <3>2. n \in Nat /\ \A j \in 1 .. n : pg.slots[j] \in SlotSet
      BY <3>1, PageParts
    <3>. QED
      BY <3>2, SlotParts
  <2>2. \A j \in 2 .. n : \/ j \in B /\ Minutes(pg.slots[j]) < Minutes(pg.slots[j - 1])
                          \/ j \notin B /\ Minutes(pg.slots[j]) >= Minutes(pg.slots[j - 1])
    <3>1. SUFFICES ASSUME NEW j \in 2 .. n
                   PROVE  \/ j \in B /\ Minutes(pg.slots[j]) < Minutes(pg.slots[j - 1])
                          \/ j \notin B /\ Minutes(pg.slots[j]) >= Minutes(pg.slots[j - 1])
      OBVIOUS
    <3>2. j \in 1 .. n /\ j - 1 \in 1 .. n
      BY <1>2
    <3>. DEFINE h == Minutes(pg.slots[j - 1])
                i == Minutes(pg.slots[j])
    <3>3. j \in B <=> i < h
      OBVIOUS
    <3>4. h \in Nat /\ i \in Nat
      BY <2>1, <3>2
    <3>. HIDE DEF h, i, B
    <3>5. (j \in B /\ i < h) \/ (j \notin B /\ i >= h)
      BY <3>3, <3>4
    <3>. QED
      BY <3>5 DEF h, i
  <2>3. B \in SUBSET (2 .. n)
    OBVIOUS
  <2>4. B = {j \in 2 .. n : j \in B}
    OBVIOUS
  <2>. HIDE DEF B
  <2>5. Cardinality({j \in 2 .. n : j \in B}) = DayOf(t) - DayOf(f)
    BY <1>2, <2>2, <2>3, DaysOnPage
  <2>. QED
    BY <2>4, <2>5
<1>4. t \in Nat /\ t <= u
  <2>1. TitleOn(s, k, n) = LastTitle(s, k)
    <3>1. pg = Shown(s, k)
      BY <1>1, OnAirParts
    <3>2. n = LastTitle(s, k) - s.first[k] + 1
      BY <1>1, <3>1, ShownPage
    <3>3. s.first[k] \in Int /\ LastTitle(s, k) \in Int
      BY <1>1, PageTitles, ServiceParts
    <3>. QED
      BY <1>1, <3>2, <3>3 DEF TitleOn
  <2>2. LastTitle(s, k) \in 1 .. Len(s.starts)
    <3>1. s.first[k] \in 1 .. Len(s.starts) /\ LastTitle(s, k) \in s.first[k] .. Len(s.starts)
      BY <1>1, PageTitles
    <3>. QED
      BY <3>1
  <2>3. LastTitle(s, k) <= s.first[k + 1] /\ s.first[k + 1] \in 1 .. Len(s.starts)
    <3>1. s.first[k + 1] \in 1 .. Len(s.starts)
      BY <1>1, PageTitles
    <3>. QED
      BY <3>1 DEF LastTitle
  <2>4. u = s.starts[s.first[k + 1]]
    BY <1>1 DEF FirstStart
  <2>5. s.starts[LastTitle(s, k)] \in Nat /\ s.starts[s.first[k + 1]] \in Nat
    BY <2>2, <2>3, ServiceParts
  <2>6. s.starts[LastTitle(s, k)] <= s.starts[s.first[k + 1]]
    <3>1. CASE LastTitle(s, k) = s.first[k + 1]
      BY <2>5, <3>1
    <3>2. CASE LastTitle(s, k) < s.first[k + 1]
      <4>1. s.starts[LastTitle(s, k)] < s.starts[s.first[k + 1]]
        BY <2>2, <2>3, <3>2, ServiceParts
      <4>. QED
        BY <2>5, <4>1
    <3>. QED
      BY <2>2, <2>3, <3>1, <3>2
  <2>. QED
    BY <2>1, <2>4, <2>5, <2>6
<1>5. f \in Nat /\ u \in Nat /\ f < u /\ WithinDay(f, u)
  BY <1>1, NextPageStart
<1>. HIDE DEF t, u, f, B
<1>6. DayOf(u) <= DayOf(f) + 1 /\ DayOf(t) <= DayOf(u)
  <2>1. DayOf(u) = DayOf(f) \/ DayOf(u) = DayOf(f) + 1
    BY <1>5, NextDay
  <2>2. DayOf(f) \in Nat
    BY <1>5, TimeParts
  <2>3. DayOf(t) <= DayOf(u)
    BY <1>4, <1>5, DayAscends
  <2>. QED
    BY <2>1, <2>2, <2>3
<1>7. DayOf(t) \in Nat /\ DayOf(u) \in Nat /\ DayOf(f) \in Nat
  BY <1>4, <1>5, TimeParts
<1>8. Cardinality(B) < 2
  BY <1>3, <1>6, <1>7
<1>. QED
  BY <1>8 DEF Plausible, B

(* Pages that follow each other within a day are not taken for the same.   *)
LEMMA NotRedundant ==
  ASSUME NEW s, IsService(s), Regular(s),
         NEW l \in PageNumbers(s), NEW k \in PageNumbers(s), l < k
  PROVE  ~Redundant(OnAir(s, k), OnAir(s, l))
<1>1. SUFFICES ASSUME Redundant(OnAir(s, k), OnAir(s, l)) PROVE FALSE
  OBVIOUS
<1>. DEFINE pg == OnAir(s, k)
            prev == OnAir(s, l)
<1>2. k \in 1 .. Len(s.pages) + 1 /\ l \in 1 .. Len(s.pages) + 1 /\ Len(s.pages) \in Nat
  BY OnAirParts, FirstTitle
<1>3. /\ pg.page = prev.page /\ pg.sub > 1 /\ pg.sub = prev.sub + prev.skip + 1
      /\ \A j \in 1 .. Len(pg.slots) : Minutes(pg.slots[j]) = Minutes(prev.slots[j])
  BY <1>1 DEF Redundant
<1>4. k \in 1 .. Len(s.pages)
  <2>1. SUFFICES ASSUME k \notin 1 .. Len(s.pages) PROVE FALSE
    OBVIOUS
  <2>2. pg.sub = 0
    BY <2>1, OnAirParts
  <2>. QED
    BY <1>3, <2>2
<1>5. l \in 1 .. Len(s.pages)
  BY <1>2, <1>4
<1>6. /\ pg.page = s.pages[k][1] /\ pg.sub = s.pages[k][2]
      /\ prev.page = s.pages[l][1] /\ prev.sub = s.pages[l][2] /\ prev.skip = 0
      /\ s.pages[k][1] \in Nat /\ s.pages[l][2] \in Nat
  BY <1>4, <1>5, OnAirParts, LayoutParts
<1>7. \/ s.pages[l][1] < s.pages[k][1]
      \/ s.pages[k][2] = s.pages[l][2] + (k - l)
  BY <1>4, <1>5, PagesAscend
<1>8. k = l + 1
  <2>1. s.pages[k][1] = s.pages[l][1] /\ s.pages[k][2] = s.pages[l][2] + 0 + 1
    BY <1>3, <1>6
  <2>2. s.pages[k][2] = s.pages[l][2] + (k - l)
    BY <1>6, <1>7, <2>1
  <2>. QED
    BY <1>2, <1>6, <2>1, <2>2
<1>9. FirstStart(s, l) \in Nat /\ FirstStart(s, k) \in Nat
      /\ FirstStart(s, l) < FirstStart(s, k) /\ WithinDay(FirstStart(s, l), FirstStart(s, k))
  BY <1>4, <1>5, <1>8, NextPageStart
<1>10. 1 \in 1 .. Len(pg.slots)
  BY OnAirParts, PageParts
<1>11. Minutes(pg.slots[1]) = Minutes(prev.slots[1])
  BY <1>3, <1>10
<1>12. (FirstStart(s, k) % DayMin) = (FirstStart(s, l) % DayMin)
  BY <1>11, FirstLine
<1>13. (FirstStart(s, k) % DayMin) \in Nat
  BY <1>9, TimeParts
<1>. QED
  BY <1>9, <1>12, <1>13, NextDay

-----------------------------------------------------------------------------
(* Dates                                                                   *)

(* The date in the header of a page.                                       *)
LEMMA HeaderDates ==
  ASSUME NEW s, IsService(s), NEW k \in PageNumbers(s)
  PROVE  LET d == OnAir(s, k).date
             f == FirstStart(s, k)
         IN /\ DayOf(f) \in Nat /\ DayOf(f - 6 * 60) \in Nat
            /\ k \notin 1 .. Len(s.pages) \/ s.dates = "calendar" \/ (s.dates = "once" /\ k = 1)
                 => d = [day |-> DayOf(f), off |-> 0]
            /\ k \in 1 .. Len(s.pages) /\ s.dates = "broadcast"
                 => d = [day |-> DayOf(f - 6 * 60), off |-> 0]
            /\ k \in 1 .. Len(s.pages) /\ s.dates = "once" /\ k # 1 => d = NoDate
<1>. DEFINE f == FirstStart(s, k)
<1>1. f \in Nat /\ f >= DayMin
  BY FirstLine
<1>2. f - 6 * 60 \in Nat
  BY <1>1 DEF DayMin
<1>3. DayOf(f) \in Nat /\ DayOf(f - 6 * 60) \in Nat
  BY <1>1, <1>2, TimeParts
<1>4. CASE k \in 1 .. Len(s.pages)
  <2>1. OnAir(s, k).date = HeaderDate(s, k)
    BY <1>4, OnAirParts, ShownPage
  <2>2. s.starts[s.first[k]] = f
    <3>1. k <= Len(s.pages)
      BY <1>4
    <3>. QED
      BY <3>1 DEF FirstStart
  <2>3. s.dates \in {"calendar", "broadcast", "once"}
    BY ServiceParts
  <2>4. /\ s.dates = "calendar" => HeaderDate(s, k) = [day |-> DayOf(f), off |-> 0]
        /\ s.dates = "broadcast" => HeaderDate(s, k) = [day |-> DayOf(f - 6 * 60), off |-> 0]
        /\ s.dates = "once" => HeaderDate(s, k) = IF k = 1 THEN [day |-> DayOf(f), off |-> 0] ELSE NoDate
    <3>. HIDE DEF f
    <3>. QED
      BY <2>2, <2>3 DEF HeaderDate
  <2>. QED
    BY <1>3, <1>4, <2>1, <2>4
<1>5. CASE k \notin 1 .. Len(s.pages)
  <2>1. OnAir(s, k) = TipsPage(s) /\ k = Len(s.pages) + 1 /\ Len(s.pages) \in Nat
    BY <1>5, OnAirParts, FirstTitle
  <2>2. f = s.starts[1]
    BY <2>1 DEF FirstStart
  <2>3. TipsPage(s).date = [day |-> DayOf(s.starts[1]), off |-> 0]
    BY TipsShown
  <2>. QED
    BY <1>3, <1>5, <2>1, <2>2, <2>3
<1>. QED
  BY <1>4, <1>5

(* Before 6:00 it is still the broadcast day of the day before.            *)
LEMMA BroadcastDay ==
  ASSUME NEW t \in Nat, t >= DayMin
  PROVE  DayOf(t) = DayOf(t - 6 * 60) + (IF HourOf(t) < 6 THEN 1 ELSE 0)
<1>. DEFINE u == t - 6 * 60
            a == DayOf(t)
            b == DayOf(u)
            h == HourOf(t)
            i == HourOf(u)
<1>1. u \in Nat
  BY DEF DayMin
<1>2. /\ a \in Nat /\ h \in 0 .. 23 /\ MinOf(t) \in 0 .. 59
      /\ t = a * DayMin + 60 * h + MinOf(t)
  BY TimeParts
<1>3. /\ b \in Nat /\ i \in 0 .. 23 /\ MinOf(u) \in 0 .. 59
      /\ u = b * DayMin + 60 * i + MinOf(u)
  BY <1>1, TimeParts
<1>4. u = t - 360
  OBVIOUS
<1>. HIDE DEF a, b, h, i, u
<1>5. t = a * 1440 + 60 * h + MinOf(t) /\ u = b * 1440 + 60 * i + MinOf(u)
  BY <1>2, <1>3 DEF DayMin
<1>6. a = b + (IF h < 6 THEN 1 ELSE 0)
  BY <1>2, <1>3, <1>4, <1>5
<1>. QED
  BY <1>6 DEF a, b, h, u

(* The date of the first page in the list, and of one behind another.      *)
LEMMA CalcDateParts ==
  ASSUME NEW i, i = 1 \/ (i > 1 /\ ov[i - 1].slots # <<>>)
  PROVE  LET pg      == ov[i]
             prev    == ov[i - 1]
             delta   == IF pg.date # NoDate THEN Delta(prev.date, pg.date) ELSE 0
             outlier == delta >= MaxOvPageDateDelta \/ (delta < 0 /\ Delta(ov[1].date, pg.date) < 0)
             follows == ~outlier /\ Adjacent(prev, pg)
                        /\ (delta = 0 \/ (delta = -1 /\ prev.date.off = 1))
             newDay  == follows /\ (delta = -1 \/ pg.slots[1].hour < prev.slots[1].hour)
             off     == IF newDay THEN 1 ELSE 0
         IN IF i = 1
            THEN CalcDate(i) = IF pg.date # NoDate THEN [pg.date EXCEPT !.off = @ + 0] ELSE NoDate
            ELSE CalcDate(i) = IF pg.date # NoDate /\ ~outlier THEN [pg.date EXCEPT !.off = @ + off]
                               ELSE IF follows THEN [prev.date EXCEPT !.off = @ + off]
                               ELSE NoDate
<1>1. CASE i = 1
  BY <1>1 DEF CalcDate
<1>2. CASE i > 1 /\ ov[i - 1].slots # <<>>
  <2>1. i # 1
    BY <1>2
  <2>. QED
    BY <1>2, <2>1 DEF CalcDate
<1>. QED
  BY <1>1, <1>2

(* The date found for page k, if any, is true.  With the dates of the      *)
(* broadcast day there is always one.                                      *)
RightDate(s, d, k) ==
  \/ d = NoDate /\ (s.dates = "broadcast" => k \notin 1 .. Len(s.pages))
  \/ d \in [day : Nat, off : Nat] /\ TrueDate(s, d, k)

LEMMA FirstDate ==
  ASSUME IsService(service), Datable(service), NEW k \in PageNumbers(service),
         ov[1] = OnAir(service, k),
         service.dates = "broadcast" /\ k \in 1 .. Len(service.pages) => k = 1
  PROVE  RightDate(service, CalcDate(1), k)
<1>. DEFINE s == service
            f == FirstStart(s, k)
            d == ov[1].date
<1>1. CalcDate(1) = IF d # NoDate THEN [d EXCEPT !.off = @ + 0] ELSE NoDate
  BY CalcDateParts
<1>2. /\ DayOf(f) \in Nat /\ DayOf(f - 6 * 60) \in Nat
      /\ k \notin 1 .. Len(s.pages) \/ s.dates = "calendar" \/ (s.dates = "once" /\ k = 1)
           => d = [day |-> DayOf(f), off |-> 0]
      /\ k \in 1 .. Len(s.pages) /\ s.dates = "broadcast"
           => d = [day |-> DayOf(f - 6 * 60), off |-> 0]
      /\ k \in 1 .. Len(s.pages) /\ s.dates = "once" /\ k # 1 => d = NoDate
  BY HeaderDates
<1>3. k <= Len(s.pages) <=> k \in 1 .. Len(s.pages)
  BY OnAirParts, FirstTitle
<1>4. s.dates \in {"calendar", "broadcast", "once"}
  BY ServiceParts
<1>5. \A n \in Nat : /\ [day |-> n, off |-> 0] # NoDate
                     /\ [[day |-> n, off |-> 0] EXCEPT !.off = @ + 0] = [day |-> n, off |-> 0]
  BY DEF NoDate
<1>. HIDE DEF f, d
<1>6. CASE k \notin 1 .. Len(s.pages) \/ s.dates = "calendar" \/ (s.dates = "once" /\ k = 1)
  <2>1. CalcDate(1) = [day |-> DayOf(f), off |-> 0]
    BY <1>1, <1>2, <1>5, <1>6
  <2>2. k <= Len(s.pages) => s.dates # "broadcast"
    BY <1>3, <1>6
  <2>. QED
    BY <1>2, <2>1, <2>2 DEF RightDate, TrueDate, f
<1>7. CASE k \in 1 .. Len(s.pages) /\ s.dates = "broadcast"
  <2>1. k = 1 /\ f = s.starts[1] /\ HourOf(s.starts[1]) >= 6
    <3>1. k = 1
      BY <1>7
    <3>2. s.first[1] = 1
      BY ServiceParts
    <3>3. 1 <= Len(s.pages)
      BY <1>3, <1>7, <3>1
    <3>. QED
      BY <1>7, <3>1, <3>2, <3>3 DEF Datable, FirstStart, f
  <2>2. f \in Nat /\ f >= DayMin
    BY FirstLine DEF f
  <2>3. HourOf(f) \in 0 .. 23
    BY <2>2, TimeParts
  <2>4. ~(HourOf(f) < 6)
    BY <2>1, <2>3
  <2>5. DayOf(f) = DayOf(f - 6 * 60)
    BY <1>2, <2>2, <2>4, BroadcastDay
  <2>6. CalcDate(1) = [day |-> DayOf(f), off |-> 0]
    BY <1>1, <1>2, <1>5, <1>7, <2>5
  <2>. QED
    BY <1>2, <2>4, <2>6 DEF RightDate, TrueDate, f
<1>8. CASE k \in 1 .. Len(s.pages) /\ s.dates = "once" /\ k # 1
  <2>1. CalcDate(1) = NoDate
    BY <1>1, <1>2, <1>8
  <2>. QED
    BY <1>8, <2>1 DEF RightDate
<1>. QED
  BY <1>4, <1>6, <1>7, <1>8

LEMMA NextDate ==
  ASSUME IsService(service), Datable(service), NEW i \in Nat, i > 1,
         NEW l \in PageNumbers(service), NEW k \in PageNumbers(service), l < k,
         IsFrom(service, ov[i - 1], l), TrueDate(service, ov[i - 1].date, l),
         ov[i - 1].date \in [day : Nat, off : Nat],
         ov[i - 1].slots # <<>>, ov[i - 1].slots[1].hour = HourOf(FirstStart(service, l)),
         ov[i] = OnAir(service, k),
         service.dates = "broadcast" /\ k \in 1 .. Len(service.pages) =>
           k = l + 1 /\ ov[1].date.day + ov[1].date.off = DayOf(FirstStart(service, 1))
  PROVE  RightDate(service, CalcDate(i), k)
<1>. DEFINE s       == service
            pg      == ov[i]
            prev    == ov[i - 1]
            f       == FirstStart(s, k)
            e       == FirstStart(s, l)
            d       == pg.date
            c       == prev.date
            delta   == IF d # NoDate THEN Delta(c, d) ELSE 0
            outlier == delta >= MaxOvPageDateDelta \/ (delta < 0 /\ Delta(ov[1].date, d) < 0)
            follows == ~outlier /\ Adjacent(prev, pg)
                       /\ (delta = 0 \/ (delta = -1 /\ c.off = 1))
            newDay  == follows /\ (delta = -1 \/ pg.slots[1].hour < prev.slots[1].hour)
            off     == IF newDay THEN 1 ELSE 0
<1>1. CalcDate(i) = IF d # NoDate /\ ~outlier THEN [d EXCEPT !.off = @ + off]
                    ELSE IF follows THEN [c EXCEPT !.off = @ + off] ELSE NoDate
  <2>1. i # 1
    OBVIOUS
  <2>. QED
    BY <2>1, CalcDateParts
<1>2. /\ DayOf(f) \in Nat /\ DayOf(f - 6 * 60) \in Nat
      /\ k \notin 1 .. Len(s.pages) \/ s.dates = "calendar" \/ (s.dates = "once" /\ k = 1)
           => d = [day |-> DayOf(f), off |-> 0]
      /\ k \in 1 .. Len(s.pages) /\ s.dates = "broadcast"
           => d = [day |-> DayOf(f - 6 * 60), off |-> 0]
      /\ k \in 1 .. Len(s.pages) /\ s.dates = "once" /\ k # 1 => d = NoDate
  BY HeaderDates
<1>3. /\ k \in 1 .. Len(s.pages) + 1 /\ Len(s.pages) \in Nat
      /\ l \in 1 .. Len(s.pages)
      /\ k <= Len(s.pages) <=> k \in 1 .. Len(s.pages)
      /\ k # 1
  BY OnAirParts, FirstTitle
<1>4. s.dates \in {"calendar", "broadcast", "once"}
  BY ServiceParts
<1>5. /\ \A n \in Nat : [day |-> n, off |-> 0] # NoDate
      /\ \A n \in Nat : \A o \in Nat :
           [[day |-> n, off |-> 0] EXCEPT !.off = @ + o] = [day |-> n, off |-> o]
  BY DEF NoDate
<1>6. /\ f \in Nat /\ f >= DayMin /\ pg.slots[1].hour = HourOf(f)
      /\ e \in Nat /\ e >= DayMin /\ prev.slots[1].hour = HourOf(e)
  BY FirstLine
<1>7. /\ DayOf(e) \in Nat /\ HourOf(e) \in 0 .. 23 /\ HourOf(f) \in 0 .. 23
      /\ HourOf(e) \in Nat /\ HourOf(f) \in Nat
  BY <1>6, TimeParts
<1>8. /\ c.day \in Nat /\ c.off \in Nat /\ c.day + c.off = DayOf(e)
      /\ s.dates = "broadcast" => c.off = IF HourOf(e) < 6 THEN 1 ELSE 0
  BY <1>3 DEF TrueDate
<1>9. Adjacent(prev, pg) <=> k = l + 1 /\ k \in 1 .. Len(s.pages)
  <2>1. IsFrom(s, pg, k)
    BY OnAirParts DEF IsFrom
  <2>. QED
    BY <2>1, AdjacentPages
<1>10. k \in 1 .. Len(s.pages) => e < f /\ (k = l + 1 => WithinDay(e, f))
  BY <1>3, NextPageStart DEF Datable
<1>11. \A n \in Nat : Delta(c, [day |-> n, off |-> 0]) = n - DayOf(e)
  BY <1>8 DEF Delta
<1>12. CASE k \notin 1 .. Len(s.pages)
  <2>1. d = [day |-> DayOf(f), off |-> 0] /\ d # NoDate
    BY <1>2, <1>5, <1>12
  <2>2. ~follows /\ off = 0
    BY <1>9, <1>12
  <2>. HIDE DEF d, c, f, e, outlier, follows, off
  <2>3. CalcDate(i) = NoDate \/ CalcDate(i) = [day |-> DayOf(f), off |-> 0]
    BY <1>1, <1>2, <1>5, <2>1, <2>2
  <2>4. ~(k <= Len(s.pages))
    BY <1>3, <1>12
  <2>. QED
    BY <1>2, <1>12, <2>3, <2>4 DEF RightDate, TrueDate, f
<1>13. CASE k \in 1 .. Len(s.pages) /\ s.dates = "calendar"
  <2>1. d = [day |-> DayOf(f), off |-> 0] /\ d # NoDate
    BY <1>2, <1>5, <1>13
  <2>2. delta = DayOf(f) - DayOf(e)
    BY <1>2, <1>11, <2>1
  <2>3. DayOf(e) <= DayOf(f) /\ (DayOf(e) = DayOf(f) => HourOf(e) <= HourOf(f))
    <3>1. e <= f
      BY <1>6, <1>10, <1>13
    <3>. QED
      BY <1>6, <3>1, DayAscends
  <2>4. ~newDay
    <3>1. delta \in Nat
      BY <1>2, <1>7, <2>2, <2>3
    <3>2. delta = 0 => ~(HourOf(f) < HourOf(e))
      BY <1>2, <1>7, <2>2, <2>3
    <3>. HIDE DEF delta, outlier, f, e
    <3>. QED
      BY <1>6, <3>1, <3>2
  <2>5. off = 0 /\ (follows => delta = 0)
    <3>1. delta \in Nat
      BY <1>2, <1>7, <2>2, <2>3
    <3>. HIDE DEF delta, outlier
    <3>. QED
      BY <2>4, <3>1
  <2>6. follows => ~outlier
    OBVIOUS
  <2>. HIDE DEF d, c, f, e, outlier, follows, off, delta
  <2>7. CalcDate(i) = NoDate \/ CalcDate(i) = [day |-> DayOf(f), off |-> 0]
    BY <1>1, <1>2, <1>5, <2>1, <2>5, <2>6
  <2>8. s.dates # "broadcast"
    BY <1>13
  <2>. QED
    BY <1>2, <2>7, <2>8 DEF RightDate, TrueDate, f
<1>14. CASE k \in 1 .. Len(s.pages) /\ s.dates = "once"
  <2>1. d = NoDate
    BY <1>2, <1>3, <1>14
  <2>2. delta = 0 /\ ~outlier
    BY <2>1 DEF MaxOvPageDateDelta
  <2>3. follows <=> k = l + 1
    <3>. HIDE DEF delta, outlier
    <3>. QED
      BY <1>9, <1>14, <2>2
  <2>4. follows => newDay <=> HourOf(f) < HourOf(e)
    <3>. HIDE DEF follows, delta, f, e
    <3>. QED
      BY <1>6, <2>2
  <2>5. CASE ~follows
    <3>1. CalcDate(i) = NoDate
      <4>. HIDE DEF d, follows, outlier
      <4>. QED
        BY <1>1, <2>1, <2>5
    <3>. QED
      BY <1>14, <3>1 DEF RightDate
  <2>6. CASE follows
    <3>1. DayOf(f) = DayOf(e) + off
      <4>1. e < f /\ WithinDay(e, f)
        BY <1>10, <1>14, <2>3, <2>6
      <4>2. \/ DayOf(f) = DayOf(e) /\ HourOf(e) <= HourOf(f)
            \/ DayOf(f) = DayOf(e) + 1 /\ HourOf(f) < HourOf(e)
        BY <1>6, <4>1, NextDay
      <4>3. newDay <=> HourOf(f) < HourOf(e)
        BY <2>4, <2>6
      <4>. HIDE DEF newDay, f, e
      <4>. QED
        BY <1>7, <4>2, <4>3
    <3>2. off \in Nat
      OBVIOUS
    <3>. HIDE DEF d, follows, outlier, off
    <3>3. CalcDate(i) = [c EXCEPT !.off = @ + off]
      BY <1>1, <2>1, <2>6
    <3>. HIDE DEF f, e, c
    <3>4. CalcDate(i) = [day |-> c.day, off |-> c.off + off]
      BY <3>3 DEF c
    <3>5. c.day + (c.off + off) = DayOf(f)
      BY <1>7, <1>8, <3>1, <3>2
    <3>6. CalcDate(i) \in [day : Nat, off : Nat]
      BY <1>8, <3>2, <3>4
    <3>. QED
      BY <1>14, <3>4, <3>5, <3>6 DEF RightDate, TrueDate, f
  <2>. QED
    BY <2>5, <2>6
<1>15. CASE k \in 1 .. Len(s.pages) /\ s.dates = "broadcast"
  <2>. DEFINE b == DayOf(f - 6 * 60)
  <2>1. d = [day |-> b, off |-> 0] /\ d # NoDate
    BY <1>2, <1>5, <1>15
  <2>2. k = l + 1 /\ e < f /\ WithinDay(e, f)
    BY <1>10, <1>15
  <2>3. \/ DayOf(f) = DayOf(e) /\ HourOf(e) <= HourOf(f)
        \/ DayOf(f) = DayOf(e) + 1 /\ HourOf(f) < HourOf(e)
    BY <1>6, <2>2, NextDay
  <2>4. DayOf(f) = b + (IF HourOf(f) < 6 THEN 1 ELSE 0)
    BY <1>6, BroadcastDay
  <2>5. delta = b - DayOf(e)
    BY <1>2, <1>11, <2>1
  <2>6. Delta(ov[1].date, d) \in Nat
    <3>. DEFINE g == FirstStart(s, 1)
    <3>1. ov[1].date.day + ov[1].date.off = DayOf(g)
      BY <1>15
    <3>2. 1 \in 1 .. Len(s.pages) /\ 1 < k
      BY <1>3
    <3>3. g \in Nat /\ g < f
      BY <1>15, <3>2, NextPageStart
    <3>4. g = s.starts[1] /\ g >= DayMin /\ HourOf(g) >= 6
      <4>1. s.first[1] = 1 /\ 1 \in 1 .. Len(s.starts)
        BY ServiceParts, FirstTitle
      <4>2. g = s.starts[1]
        BY <3>2, <4>1 DEF FirstStart
      <4>3. s.starts[1] >= DayMin
        BY <4>1, ServiceParts
      <4>. QED
        BY <1>15, <4>2, <4>3 DEF Datable
    <3>5. DayOf(g) = DayOf(g - 6 * 60) /\ DayOf(g) \in Nat
      <4>1. HourOf(g) \in Nat /\ DayOf(g) \in Nat
        BY <3>3, TimeParts
      <4>2. ~(HourOf(g) < 6)
        <5>1. HourOf(g) >= 6
          BY <3>4, Zenon
        <5>. HIDE DEF g
        <5>. QED
          BY <4>1, <5>1
      <4>3. g - 6 * 60 \in Nat
        BY <3>3, <3>4 DEF DayMin
      <4>4. DayOf(g - 6 * 60) \in Nat
        BY <4>3, TimeParts
      <4>. HIDE DEF g
      <4>. QED
        BY <3>3, <3>4, <4>1, <4>2, <4>4, BroadcastDay
    <3>6. DayOf(g - 6 * 60) <= b
      <4>1. g - 6 * 60 \in Nat /\ f - 6 * 60 \in Nat /\ g - 6 * 60 <= f - 6 * 60
        BY <1>6, <3>3, <3>4 DEF DayMin
      <4>. QED
        BY <4>1, DayAscends
    <3>7. Delta(ov[1].date, d) = (b + 0) - DayOf(g)
      BY <2>1, <3>1 DEF Delta
    <3>. HIDE DEF g, b
    <3>8. b \in Nat
      BY <1>2 DEF b
    <3>. QED
      BY <3>5, <3>6, <3>7, <3>8
  <2>7. b \in Nat
    BY <1>2
  <2>8. Adjacent(prev, pg)
    BY <1>9, <1>15, <2>2
  <2>. HIDE DEF b
  <2>9. ~outlier
    <3>1. delta <= 1
      <4>. HIDE DEF delta, f, e
      <4>. QED
        BY <1>7, <2>3, <2>4, <2>5, <2>7
    <3>2. delta \in Int
      <4>. HIDE DEF delta
      <4>. QED
        BY <1>7, <2>5, <2>7
    <3>. HIDE DEF delta, d
    <3>. QED
      BY <2>6, <3>1, <3>2 DEF MaxOvPageDateDelta
  <2>10. off = IF HourOf(f) < 6 THEN 1 ELSE 0
    <3>1. newDay <=> /\ delta = 0 \/ (delta = -1 /\ c.off = 1)
                     /\ delta = -1 \/ HourOf(f) < HourOf(e)
      <4>. HIDE DEF delta, outlier, f, e
      <4>. QED
        BY <1>6, <2>8, <2>9
    <3>2. newDay <=> HourOf(f) < 6
      <4>1. c.off = IF HourOf(e) < 6 THEN 1 ELSE 0
        BY <1>8, <1>15
      <4>. HIDE DEF newDay, delta, f, e, c
      <4>2. CASE HourOf(f) < 6
        <5>1. CASE DayOf(f) = DayOf(e) /\ HourOf(e) <= HourOf(f)
          <6>1. delta = -1 /\ HourOf(e) < 6
            BY <1>7, <2>4, <2>5, <2>7, <4>2, <5>1
          <6>. QED
            BY <3>1, <4>1, <4>2, <6>1
        <5>2. CASE DayOf(f) = DayOf(e) + 1 /\ HourOf(f) < HourOf(e)
          <6>1. delta = 0
            BY <1>7, <2>4, <2>5, <2>7, <4>2, <5>2
          <6>. QED
            BY <3>1, <4>2, <5>2, <6>1
        <5>. QED
          BY <2>3, <5>1, <5>2
      <4>3. CASE ~(HourOf(f) < 6)
        <5>1. CASE DayOf(f) = DayOf(e) /\ HourOf(e) <= HourOf(f)
          <6>1. delta = 0
            BY <1>7, <2>4, <2>5, <2>7, <4>3, <5>1
          <6>2. ~(HourOf(f) < HourOf(e))
            BY <1>7, <5>1
          <6>. QED
            BY <3>1, <4>3, <6>1, <6>2
        <5>2. CASE DayOf(f) = DayOf(e) + 1 /\ HourOf(f) < HourOf(e)
          <6>1. delta = 1
            BY <1>7, <2>4, <2>5, <2>7, <4>3, <5>2
          <6>. QED
            BY <3>1, <4>3, <6>1
        <5>. QED
          BY <2>3, <5>1, <5>2
      <4>. QED
        BY <4>2, <4>3
    <3>. HIDE DEF newDay
    <3>. QED
      BY <3>2
  <2>11. off \in Nat
    OBVIOUS
  <2>. HIDE DEF d, c, f, e, outlier, follows, off, delta
  <2>12. CalcDate(i) = [day |-> b, off |-> off]
    BY <1>1, <1>5, <2>1, <2>7, <2>9, <2>11
  <2>. QED
    BY <2>4, <2>7, <2>10, <2>11, <2>12 DEF RightDate, TrueDate, f
<1>. QED
  BY <1>4, <1>12, <1>13, <1>14, <1>15

-----------------------------------------------------------------------------
(* Stop times                                                              *)

LEMMA DatedLine ==
  ASSUME NEW s, IsService(s), NEW k \in PageNumbers(s),
         NEW pg \in PageSet, TrulyDated(s, pg, k), NEW j \in 1 .. Len(pg.slots)
  PROVE  LET x == pg.slots[j] IN
         /\ j \in 1 .. Len(OnAir(s, k).slots)
         /\ x.title = TitleOn(s, k, j) /\ x.title \in 1 .. Len(s.starts)
         /\ x.start = s.starts[x.title] /\ x.start \in Nat
         /\ x.hour = HourOf(x.start)
         /\ Minutes(x) = x.start % DayMin
         /\ x.end # NoTime => /\ x.title < Len(s.starts)
                              /\ x.end = s.starts[x.title + 1] % DayMin
         /\ k <= Len(s.pages) => TrueStop(s, x)
<1>. DEFINE x == pg.slots[j]
            y == OnAir(s, k).slots[j]
<1>1. Len(pg.slots) \in Nat /\ Len(OnAir(s, k).slots) \in Nat
      /\ Len(pg.slots) <= Len(OnAir(s, k).slots)
  BY OnAirParts, PageParts DEF TrulyDated
<1>2. j \in 1 .. Len(OnAir(s, k).slots)
  BY <1>1
<1>3. /\ x.hour = y.hour /\ x.min = y.min /\ x.end = y.end /\ x.title = y.title
      /\ x.start = s.starts[y.title]
      /\ k <= Len(s.pages) => TrueStop(s, x)
  BY DEF TrulyDated
<1>4. /\ y.title = TitleOn(s, k, j) /\ y.title \in 1 .. Len(s.starts)
      /\ y.hour = HourOf(s.starts[y.title])
      /\ Minutes(y) = (s.starts[y.title] % DayMin)
      /\ y.end # NoTime => /\ y.title < Len(s.starts)
                           /\ y.end = s.starts[y.title + 1] % DayMin
  BY <1>2, OnAirSlots
<1>5. Minutes(x) = Minutes(y)
  BY <1>3 DEF Minutes
<1>6. s.starts[y.title] \in Nat
  BY <1>4, ServiceParts
<1>. HIDE DEF x, y
<1>. QED
  BY <1>2, <1>3, <1>4, <1>5, <1>6 DEF x

LEMMA TrueStopTime ==
  ASSUME PagesInv, phase = "stop", Datable(service),
         NEW i \in 1 .. Len(ov), NEW k \in PageNumbers(service), k <= Len(service.pages),
         TrulyDated(service, ov[i], k),
         i < Len(ov) => \E l \in PageNumbers(service) :
                          /\ k < l /\ TrulyDated(service, ov[i + 1], l)
                          /\ NoRepetition(service, ov[i], ov[i + 1]),
         NEW j \in 1 .. Len(ov[i].slots)
  PROVE  LET x == ov[i].slots[j] IN
         \/ StopTime(i, j) = NoTime
         \/ x.title < Len(service.starts) /\ StopTime(i, j) = service.starts[x.title + 1]
<1>. DEFINE s == service
            x == ov[i].slots[j]
            t == s.starts[x.title]
            u == s.starts[x.title + 1]
            next == IF j < Len(ov[i].slots) THEN ov[i].slots[j + 1].start
                    ELSE IF i < Len(ov) /\ ov[i + 1].slots # <<>> /\ Adjacent(ov[i], ov[i + 1])
                            /\ ov[i + 1].slots[1].start - x.start \in 1 .. 9 * 60 - 1
                    THEN ov[i + 1].slots[1].start ELSE NoTime
<1>1. /\ IsService(s) /\ ov \in Seq(PageSet) /\ Len(ov) \in Nat
      /\ ov[i] \in PageSet /\ Len(ov[i].slots) \in Nat
      /\ i < Len(ov) => i + 1 \in 1 .. Len(ov) /\ ov[i + 1] \in PageSet
  BY PageParts DEF PagesInv
<1>2. /\ x.title = TitleOn(s, k, j) /\ x.title \in 1 .. Len(s.starts)
      /\ x.start = t /\ t \in Nat
      /\ Minutes(x) = (t % DayMin)
      /\ x.end # NoTime => x.title < Len(s.starts) /\ x.end = (u % DayMin)
  BY <1>1, DatedLine
<1>3. k \in 1 .. Len(s.pages) /\ Len(s.pages) \in Nat /\ Len(s.starts) \in Nat
  BY <1>1, OnAirParts, FirstTitle, ServiceParts
<1>4. \A m \in Int : TitleOn(s, k, m) = s.first[k] + m - 1
  BY DEF TitleOn
<1>5. s.first[k] \in Int
  BY <1>1, <1>3, PageTitles
<1>6. StopTime(i, j) = IF x.end # NoTime
                       THEN DayOf(x.start) * DayMin + x.end + (IF x.end < Minutes(x) THEN DayMin ELSE 0)
                       ELSE IF next # x.start THEN next ELSE NoTime
  BY DEF StopTime
<1>7. CASE x.end # NoTime
  <2>1. x.title < Len(s.starts) /\ x.end = (u % DayMin)
    BY <1>2, <1>7
  <2>2. x.title \in 1 .. Len(s.starts) - 1 /\ x.title + 1 \in 1 .. Len(s.starts)
    BY <1>2, <1>3, <2>1
  <2>3. u \in Nat
    BY <1>1, <2>2, ServiceParts
  <2>4. t < u
    <3>1. x.title < x.title + 1
      BY <2>2
    <3>. QED
      BY <1>1, <1>2, <2>2, <3>1, ServiceParts
  <2>5. WithinDay(t, u)
    BY <2>2 DEF Datable, Regular
  <2>6. /\ t = DayOf(t) * DayMin + (t % DayMin) /\ u = DayOf(u) * DayMin + (u % DayMin)
        /\ DayOf(t) \in Nat /\ DayOf(u) \in Nat /\ (t % DayMin) \in Nat /\ (u % DayMin) \in Nat
    BY <1>2, <2>3, TimeParts
  <2>7. StopTime(i, j) = DayOf(t) * DayMin + (u % DayMin)
                         + (IF (u % DayMin) < (t % DayMin) THEN DayMin ELSE 0)
    <3>. HIDE DEF t, u, x, next
    <3>. QED
      BY <1>2, <1>6, <1>7, <2>1
  <2>. DEFINE a == DayOf(t)
              b == DayOf(u)
              f == t % DayMin
              g == u % DayMin
  <2>8. (b = a /\ f < g) \/ (b = a + 1 /\ g < f)
    BY <1>2, <2>3, <2>4, <2>5, NextDay
  <2>. HIDE DEF a, b, f, g, t, u
  <2>0. DayMin = 1440
    BY DEF DayMin
  <2>9. t = a * 1440 + f /\ u = b * 1440 + g /\ a \in Nat /\ b \in Nat /\ f \in Nat /\ g \in Nat
    BY <2>0, <2>6 DEF a, b, f, g
  <2>10. StopTime(i, j) = a * 1440 + g + (IF g < f THEN 1440 ELSE 0)
    BY <2>0, <2>7 DEF a, b, f, g
  <2>11. StopTime(i, j) = u
    BY <2>8, <2>9, <2>10
  <2>. QED
    BY <2>1, <2>11 DEF u
<1>8. CASE x.end = NoTime /\ j < Len(ov[i].slots)
  <2>1. j + 1 \in 1 .. Len(ov[i].slots) /\ j \in Int /\ j + 1 \in Int
    BY <1>1, <1>8
  <2>. DEFINE z == ov[i].slots[j + 1]
  <2>2. z.title = TitleOn(s, k, j + 1) /\ z.title \in 1 .. Len(s.starts) /\ z.start = s.starts[z.title]
    BY <1>1, <2>1, DatedLine
  <2>3. z.title = x.title + 1
    <3>1. x.title = s.first[k] + j - 1 /\ z.title = s.first[k] + (j + 1) - 1
      BY <1>2, <1>4, <2>1, <2>2
    <3>. QED
      BY <1>5, <2>1, <3>1
  <2>4. next = u /\ x.title < Len(s.starts)
    <3>1. next = z.start
      BY <1>8
    <3>. HIDE DEF x, z, next
    <3>. QED
      BY <1>2, <1>3, <2>2, <2>3, <3>1
  <2>. HIDE DEF next
  <2>. QED
    BY <1>6, <1>8, <2>4
<1>9. CASE x.end = NoTime /\ ~(j < Len(ov[i].slots))
  <2>1. j = Len(ov[i].slots)
    BY <1>1, <1>9
  <2>2. CASE next = NoTime
    <3>. HIDE DEF next
    <3>. QED
      BY <1>6, <1>9, <2>2
  <2>3. CASE next # NoTime
    <3>1. /\ i < Len(ov) /\ ov[i + 1].slots # <<>> /\ Adjacent(ov[i], ov[i + 1])
          /\ next = ov[i + 1].slots[1].start
      BY <1>9, <2>3
    <3>2. PICK l \in PageNumbers(s) : /\ k < l /\ TrulyDated(s, ov[i + 1], l)
                                      /\ NoRepetition(s, ov[i], ov[i + 1])
      BY <3>1
    <3>3. IsFrom(s, ov[i], k) /\ IsFrom(s, ov[i + 1], l)
      BY <3>2 DEF TrulyDated
    <3>4. l = k + 1 /\ l \in 1 .. Len(s.pages)
      <4>1. IsService(service) /\ Adjacent(ov[i], ov[i + 1]) /\ k < l
        BY <1>1, <3>1, <3>2
      <4>. QED
        BY <3>3, <4>1, AdjacentPages
    <3>5. Len(ov[i].slots) = s.first[k + 1] - s.first[k]
      <4>1. k \in 1 .. Len(s.pages) - 1
        BY <1>3, <3>4
      <4>. QED
        BY <3>2, <3>3, <3>4, <4>1 DEF NoRepetition
    <3>10. ov[i + 1] \in PageSet
      BY <1>1, <3>1
    <3>6. 1 \in 1 .. Len(ov[i + 1].slots)
      <4>1. ov[i + 1].slots \in Seq(SlotSet) /\ ov[i + 1].slots # <<>>
        BY <3>1, <3>10, PageParts
      <4>. HIDE DEF next
      <4>. QED
        BY <4>1, EmptySeq
    <3>. DEFINE z == ov[i + 1].slots[1]
    <3>7. z.title = TitleOn(s, l, 1) /\ z.title \in 1 .. Len(s.starts) /\ z.start = s.starts[z.title]
      <4>1. IsService(s) /\ TrulyDated(s, ov[i + 1], l)
        BY <1>1, <3>2
      <4>. QED
        BY <3>6, <3>10, <4>1, DatedLine
    <3>8. z.title = x.title + 1
      <4>1. s.first[l] \in Int /\ s.first[l] = s.first[k + 1]
        BY <1>1, <3>4, PageTitles
      <4>2. z.title = s.first[l]
        BY <3>4, <3>7, <4>1 DEF TitleOn
      <4>3. x.title = s.first[k] + j - 1 /\ j \in Int
        BY <1>1, <1>2, <1>4
      <4>4. j = s.first[l] - s.first[k]
        BY <2>1, <3>5, <4>1
      <4>. HIDE DEF x, z
      <4>. QED
        BY <1>5, <4>1, <4>2, <4>3, <4>4
    <3>9. next = u /\ x.title < Len(s.starts)
      <4>1. next = z.start
        BY <3>1
      <4>. HIDE DEF x, z, next
      <4>2. next = s.starts[x.title + 1]
        BY <3>7, <3>8, <4>1
      <4>3. x.title + 1 \in 1 .. Len(s.starts) /\ x.title \in Int
        BY <1>2, <3>7, <3>8
      <4>. QED
        BY <1>3, <4>2, <4>3
    <3>. HIDE DEF next
    <3>. QED
      BY <1>6, <1>9, <3>9
  <2>. QED
    BY <2>2, <2>3
<1>. QED
  BY <1>7, <1>8, <1>9

-----------------------------------------------------------------------------
(* The invariant is kept                                                   *)

LEMMA FromOnAir ==
  ASSUME NEW s, IsService(s), NEW k \in PageNumbers(s)
  PROVE  IsFrom(s, OnAir(s, k), k)
BY OnAirParts DEF IsFrom

LEMMA TipsFrom ==
  ASSUME NEW s, IsService(s), NEW k \in PageNumbers(s), NEW p, IsFrom(s, p, k)
  PROVE  /\ p.page = TipsPageNo <=> k = Len(s.pages) + 1
         /\ p.page = TipsPageNo <=> k \notin 1 .. Len(s.pages)
<1>1. k \in 1 .. Len(s.pages) + 1 /\ Len(s.pages) \in Nat /\ TipsPageNo \in Nat
  BY OnAirParts, FirstTitle DEF TipsPageNo
<1>2. p.page = OnAir(s, k).page
  BY DEF IsFrom
<1>3. CASE k \in 1 .. Len(s.pages)
  <2>1. OnAir(s, k).page < TipsPageNo /\ OnAir(s, k).page \in Nat
    BY <1>3, OnAirParts
  <2>. QED
    BY <1>1, <1>2, <1>3, <2>1
<1>4. CASE k \notin 1 .. Len(s.pages)
  <2>1. OnAir(s, k).page = TipsPageNo
    BY <1>4, OnAirParts
  <2>. QED
    BY <1>1, <1>2, <1>4, <2>1
<1>. QED
  BY <1>3, <1>4

(* Behind the page with tips there is none.                                *)
LEMMA NoneBehindTips ==
  ASSUME NEW s, IsService(s), NEW k \in PageNumbers(s), NEW l \in PageNumbers(s),
         NEW p, NEW q, IsFrom(s, p, k), IsFrom(s, q, l), PageBefore(p, q)
  PROVE  p.page # TipsPageNo /\ k < l /\ k \in 1 .. Len(s.pages)
<1>1. k < l
  BY FromOrder
<1>2. k \in 1 .. Len(s.pages) + 1 /\ l \in 1 .. Len(s.pages) + 1 /\ Len(s.pages) \in Nat
  BY OnAirParts, FirstTitle
<1>. QED
  BY <1>1, <1>2, TipsFrom

LEMMA TimesInit == Init => TimesInv
<1>. SUFFICES ASSUME Init, Datable(service)
              PROVE  WaitingInv /\ OriginInv /\ RepetitionInv /\ BroadcastInv
  BY DEF TimesInv
<1>. DEFINE s == service
            N == Len(s.pages)
<1>1. IsService(s) /\ db = Received(s) /\ ov = <<>> /\ phase = "parse"
  BY DEF Init
<1>2. PICK g \in Seq((1 .. N) \ s.lost) :
        /\ \A i, j \in 1 .. Len(g) : i < j => g[i] < g[j]
        /\ s.lost = {} => \A i \in 1 .. Len(g) : g[i] = i
        /\ Len(db) = Len(g) + (IF s.tips THEN 1 ELSE 0)
        /\ \A n \in 1 .. Len(g) : db[n] = Shown(s, g[n])
        /\ s.tips => db[Len(g) + 1] = TipsPage(s)
  BY <1>1, ReceivedPages
<1>3. N \in Nat /\ s.tips \in BOOLEAN
  BY <1>1, FirstTitle, ServiceParts
<1>4. Len(g) \in Nat /\ \A i \in 1 .. Len(g) : g[i] \in 1 .. N /\ g[i] \notin s.lost
  <2>1. g \in Seq((1 .. N) \ s.lost)
    OBVIOUS
  <2>. HIDE DEF N, s
  <2>2. \A i \in 1 .. Len(g) : g[i] \in (1 .. N) \ s.lost
    BY <2>1
  <2>. QED
    BY <2>1, <2>2
<1>5. Len(ov) = 0
  BY <1>1, EmptySeq
<1>. DEFINE o(n) == IF n <= Len(g) THEN g[n] ELSE N + 1
<1>6. ASSUME NEW n \in 1 .. Len(db)
      PROVE  /\ o(n) \in PageNumbers(s) /\ db[n] = OnAir(s, o(n))
             /\ IsFrom(s, db[n], o(n))
             /\ db[n].page = TipsPageNo <=> ~(n <= Len(g))
  <2>1. o(n) \in PageNumbers(s) /\ db[n] = OnAir(s, o(n)) /\ (o(n) = N + 1 <=> ~(n <= Len(g)))
    <3>1. CASE n <= Len(g)
      <4>1. n \in 1 .. Len(g)
        BY <1>4, <3>1
      <4>2. g[n] \in 1 .. N /\ g[n] \notin s.lost /\ o(n) = g[n] /\ db[n] = Shown(s, g[n])
        BY <1>2, <1>4, <3>1, <4>1
      <4>. HIDE DEF o, N
      <4>3. o(n) # N + 1 /\ o(n) <= N /\ o(n) \in 1 .. N + 1
        BY <1>3, <4>2
      <4>. QED
        BY <1>3, <3>1, <4>2, <4>3 DEF PageNumbers, OnAir, N
    <3>2. CASE ~(n <= Len(g))
      <4>1. s.tips /\ n = Len(g) + 1
        BY <1>2, <1>3, <1>4, <3>2
      <4>2. o(n) = N + 1 /\ db[n] = TipsPage(s)
        BY <1>2, <3>2, <4>1
      <4>3. N + 1 \notin s.lost
        BY <1>1, <1>3, ServiceParts
      <4>. HIDE DEF o
      <4>4. N + 1 \in 1 .. N + 1 /\ ~(N + 1 <= N)
        BY <1>3
      <4>. QED
        BY <3>2, <4>1, <4>2, <4>3, <4>4 DEF PageNumbers, OnAir
    <3>. QED
      BY <3>1, <3>2
  <2>. HIDE DEF o
  <2>2. IsFrom(s, db[n], o(n))
    BY <1>1, <2>1, FromOnAir
  <2>. QED
    BY <1>1, <2>1, <2>2, TipsFrom
<1>7. ASSUME NEW m \in 1 .. Len(db), NEW n \in 1 .. Len(db), m < n
      PROVE  PageBefore(db[m], db[n])
  <2>1. o(m) < o(n)
    <3>1. m \in 1 .. Len(g)
      BY <1>2, <1>3, <1>4, <1>7
    <3>2. CASE n <= Len(g)
      <4>1. n \in 1 .. Len(g)
        BY <1>4, <3>2
      <4>. QED
        BY <1>2, <1>7, <3>1, <4>1
    <3>3. CASE ~(n <= Len(g))
      <4>1. g[m] \in 1 .. N
        BY <1>4, <3>1
      <4>. QED
        BY <1>3, <3>1, <3>3, <4>1
    <3>. QED
      BY <3>2, <3>3
  <2>. HIDE DEF o
  <2>. QED
    BY <1>1, <1>6, <2>1, FromOrder
<1>8. WaitingInv
  <2>1. \A n \in 1 .. Len(db) : \E k \in PageNumbers(s) : db[n] = OnAir(s, k)
    BY <1>6
  <2>. QED
    BY <1>5, <1>7, <2>1 DEF WaitingInv
<1>9. BroadcastInv
  <2>1. ASSUME s.dates = "broadcast", NEW n \in 1 .. Len(db)
        PROVE  db[n].page = TipsPageNo \/ IsFrom(s, db[n], Len(ov) + n)
    <3>1. s.lost = {}
      BY <2>1 DEF Datable
    <3>2. CASE n <= Len(g)
      <4>1. n \in 1 .. Len(g)
        BY <1>4, <3>2
      <4>2. o(n) = n /\ Len(ov) + n = n
        BY <1>2, <1>5, <3>1, <3>2, <4>1
      <4>. HIDE DEF o
      <4>. QED
        BY <1>6, <4>2
    <3>3. CASE ~(n <= Len(g))
      BY <1>6, <3>3
    <3>. QED
      BY <3>2, <3>3
  <2>. QED
    BY <1>5, <2>1 DEF BroadcastInv
<1>10. OriginInv /\ RepetitionInv
  BY <1>1, <1>5 DEF OriginInv, RepetitionInv
<1>. QED
  BY <1>8, <1>9, <1>10

(* Which page of the service the n-th in the list is.                      *)
LEMMA OriginOf ==
  ASSUME PagesInv, OriginInv, NEW n \in 1 .. Len(ov)
  PROVE  \E k \in PageNumbers(service) :
           /\ IsFrom(service, ov[n], k)
           /\ Untouched(n) => ov[n] = OnAir(service, k)
           /\ ~Untouched(n) => TrulyDated(service, ov[n], k)
<1>1. IsService(service)
  BY DEF PagesInv
<1>2. PICK k \in PageNumbers(service) :
        IF Untouched(n) THEN ov[n] = OnAir(service, k) ELSE TrulyDated(service, ov[n], k)
  BY DEF OriginInv
<1>3. CASE Untouched(n)
  <2>1. ov[n] = OnAir(service, k)
    BY <1>2, <1>3
  <2>. QED
    BY <1>1, <1>3, <2>1, FromOnAir
<1>4. CASE ~Untouched(n)
  <2>1. TrulyDated(service, ov[n], k)
    BY <1>2, <1>4
  <2>. QED
    BY <1>4, <2>1 DEF TrulyDated
<1>. QED
  BY <1>3, <1>4

(* Once all pages are dated, nothing depends on the phase.                 *)
LEMMA TimesKept ==
  ASSUME TimesInv, UNCHANGED <<service, db, ov>>,
         \/ UNCHANGED <<phase, idx>>
         \/ phase \notin {"parse", "date"} /\ phase' \notin {"parse", "date"}
  PROVE  TimesInv'
<1>1. service' = service /\ db' = db /\ ov' = ov
  OBVIOUS
<1>2. WaitingInv => WaitingInv'
  BY <1>1 DEF WaitingInv
<1>3. BroadcastInv => BroadcastInv'
  BY <1>1 DEF BroadcastInv
<1>4. CASE UNCHANGED <<phase, idx>>
  <2>1. (OriginInv => OriginInv') /\ (RepetitionInv => RepetitionInv')
    BY <1>1, <1>4 DEF OriginInv, RepetitionInv, Untouched
  <2>. QED
    BY <1>1, <1>2, <1>3, <2>1 DEF TimesInv
<1>5. CASE phase \notin {"parse", "date"} /\ phase' \notin {"parse", "date"}
  <2>1. OriginInv => OriginInv'
    BY <1>1, <1>5 DEF OriginInv, Untouched
  <2>2. RepetitionInv => RepetitionInv'
    BY <1>1, <1>5 DEF RepetitionInv, Untouched
  <2>. QED
    BY <1>1, <1>2, <1>3, <2>1, <2>2 DEF TimesInv
<1>. QED
  BY <1>4, <1>5

LEMMA StartDatesTimes == PagesInv /\ TimesInv /\ StartDates => TimesInv'
<1>. SUFFICES ASSUME PagesInv, TimesInv, StartDates, Datable(service)
              PROVE  (WaitingInv /\ OriginInv /\ RepetitionInv /\ BroadcastInv)'
  BY DEF TimesInv, StartDates
<1>1. /\ service' = service /\ db' = db /\ ov' = ov
      /\ phase = "parse" /\ phase' = "date" /\ idx' = 1
  BY DEF StartDates
<1>2. WaitingInv /\ OriginInv /\ RepetitionInv /\ BroadcastInv
  BY DEF TimesInv
<1>3. WaitingInv' /\ BroadcastInv'
  BY <1>1, <1>2 DEF WaitingInv, BroadcastInv
<1>4. \A n \in 1 .. Len(ov) : Untouched(n) /\ Untouched(n)'
  BY <1>1 DEF Untouched
<1>5. OriginInv'
  <2>1. \A n \in 1 .. Len(ov) : \E k \in PageNumbers(service) : ov[n] = OnAir(service, k)
    BY <1>2, <1>4 DEF OriginInv
  <2>. QED
    BY <1>1, <1>2, <1>4, <2>1 DEF OriginInv
<1>6. RepetitionInv'
  <2>1. \A n \in 1 .. Len(ov) - 1 : Untouched(n + 1)'
    BY <1>1 DEF Untouched
  <2>. QED
    BY <1>1, <2>1 DEF RepetitionInv
<1>. QED
  BY <1>3, <1>5, <1>6

LEMMA StartStopsTimes == PagesInv /\ TimesInv /\ StartStops => TimesInv'
<1>. SUFFICES ASSUME PagesInv, TimesInv, StartStops, Datable(service)
              PROVE  (WaitingInv /\ OriginInv /\ RepetitionInv /\ BroadcastInv)'
  BY DEF TimesInv, StartStops
<1>1. /\ service' = service /\ db' = db /\ ov' = ov
      /\ phase = "date" /\ phase' = "stop" /\ idx > Len(ov) /\ Len(ov) \in Nat
      /\ idx \in 1 .. Len(ov) + 1
  BY DEF StartStops, PagesInv
<1>2. WaitingInv /\ OriginInv /\ RepetitionInv /\ BroadcastInv
  BY DEF TimesInv
<1>3. WaitingInv' /\ BroadcastInv'
  BY <1>1, <1>2 DEF WaitingInv, BroadcastInv
<1>4. \A n \in 1 .. Len(ov) : ~Untouched(n) /\ ~Untouched(n)'
  BY <1>1 DEF Untouched
<1>5. OriginInv'
  <2>1. \A n \in 1 .. Len(ov) : \E k \in PageNumbers(service) : TrulyDated(service, ov[n], k)
    BY <1>2, <1>4 DEF OriginInv
  <2>. QED
    BY <1>1, <1>2, <1>4, <2>1 DEF OriginInv
<1>6. RepetitionInv'
  <2>1. \A n \in 1 .. Len(ov) - 1 : ~Untouched(n + 1)
    BY <1>1, <1>4
  <2>2. \A n \in 1 .. Len(ov) - 1 : NoRepetition(service, ov[n], ov[n + 1])
    BY <1>2, <2>1 DEF RepetitionInv
  <2>. QED
    BY <1>1, <2>2 DEF RepetitionInv
<1>. QED
  BY <1>3, <1>5, <1>6

(* A page is given its stop times.                                         *)
LEMMA StoppedPage ==
  ASSUME PagesInv, StopPage
  PROVE  /\ idx \in 1 .. Len(ov) /\ Len(ov) \in Nat /\ Len(ov') = Len(ov)
         /\ \A i \in 1 .. Len(ov) :
              /\ ov'[i].page = ov[i].page /\ ov'[i].sub = ov[i].sub
              /\ ov'[i].skip = ov[i].skip /\ ov'[i].date = ov[i].date
              /\ Len(ov'[i].slots) = Len(ov[i].slots)
              /\ i # idx => ov'[i] = ov[i]
         /\ \A k \in 1 .. Len(ov[idx].slots) :
              ov'[idx].slots[k] = [ov[idx].slots[k] EXCEPT !.stop = StopTime(idx, k)]
<1>2. /\ ov \in Seq(PageSet) /\ Len(ov) \in Nat /\ idx \in 1 .. Len(ov)
      /\ \A i \in 1 .. Len(ov) : ov[i] \in PageSet
  BY DEF PagesInv, StopPage
<1>. DEFINE pg == ov[idx]
            e(k) == [pg.slots[k] EXCEPT !.stop = StopTime(idx, k)]
            q == [k \in 1 .. Len(pg.slots) |-> e(k)]
            p == [pg EXCEPT !.slots = q]
<1>3. pg \in PageSet /\ Len(pg.slots) \in Nat /\ DOMAIN pg.slots = 1 .. Len(pg.slots)
  BY <1>2, PageParts
<1>4. ov' = [ov EXCEPT ![idx] = p]
  BY <1>3 DEF StopPage
<1>5. \A k \in 1 .. Len(pg.slots) : q[k] = e(k)
  OBVIOUS
<1>. HIDE DEF e
<1>6. Len(q) = Len(pg.slots)
  <2>1. q \in Seq({e(k) : k \in 1 .. Len(pg.slots)}) /\ DOMAIN q = 1 .. Len(pg.slots)
    BY <1>3, SeqDef
  <2>. HIDE DEF q
  <2>. QED
    BY <1>3, <2>1, LenProperties
<1>. HIDE DEF q
<1>7. /\ p.slots = q /\ p.page = pg.page /\ p.sub = pg.sub /\ p.skip = pg.skip
      /\ p.date = pg.date
  BY <1>3 DEF PageSet
<1>. HIDE DEF p
<1>8. Len(ov') = Len(ov) /\ \A i \in 1 .. Len(ov) : ov'[i] = IF i = idx THEN p ELSE ov[i]
  BY <1>2, <1>4
<1>. QED
  BY <1>2, <1>5, <1>6, <1>7, <1>8 DEF e

LEMMA StopPageTimes == PagesInv /\ TimesInv /\ StopPage => TimesInv'
<1>. SUFFICES ASSUME PagesInv, TimesInv, StopPage, Datable(service)
              PROVE  (WaitingInv /\ OriginInv /\ RepetitionInv /\ BroadcastInv)'
  BY DEF TimesInv, StopPage
<1>1. /\ service' = service /\ db' = db /\ phase = "stop" /\ phase' = "stop"
      /\ IsService(service)
      /\ \A i \in 1 .. Len(ov) : ov[i] \in PageSet
  BY DEF StopPage, PagesInv
<1>2. WaitingInv /\ OriginInv /\ RepetitionInv /\ BroadcastInv
  BY DEF TimesInv
<1>3. /\ idx \in 1 .. Len(ov) /\ Len(ov) \in Nat /\ Len(ov') = Len(ov)
      /\ \A i \in 1 .. Len(ov) :
           /\ ov'[i].page = ov[i].page /\ ov'[i].sub = ov[i].sub
           /\ ov'[i].skip = ov[i].skip /\ ov'[i].date = ov[i].date
           /\ Len(ov'[i].slots) = Len(ov[i].slots)
           /\ i # idx => ov'[i] = ov[i]
      /\ \A k \in 1 .. Len(ov[idx].slots) :
           ov'[idx].slots[k] = [ov[idx].slots[k] EXCEPT !.stop = StopTime(idx, k)]
  BY StoppedPage
<1>4. \A i \in 1 .. Len(ov) : \A k : IsFrom(service, ov'[i], k) <=> IsFrom(service, ov[i], k)
  BY <1>3 DEF IsFrom
<1>5. /\ \A m, n \in 1 .. Len(ov) : PageBefore(ov'[m], ov'[n]) <=> PageBefore(ov[m], ov[n])
      /\ \A m \in 1 .. Len(ov), n \in 1 .. Len(db) :
           PageBefore(ov'[m], db[n]) <=> PageBefore(ov[m], db[n])
  BY <1>3 DEF PageBefore
<1>6. \A n : ~Untouched(n) /\ ~Untouched(n)'
  BY <1>1 DEF Untouched
<1>7. WaitingInv'
  BY <1>1, <1>2, <1>3, <1>5 DEF WaitingInv
<1>8. BroadcastInv'
  BY <1>1, <1>2, <1>3, <1>4 DEF BroadcastInv
<1>9. RepetitionInv'
  <2>1. \A n \in 1 .. Len(ov) - 1 : NoRepetition(service, ov[n], ov[n + 1])
    BY <1>2, <1>6 DEF RepetitionInv
  <2>2. ASSUME NEW n \in 1 .. Len(ov) - 1 PROVE NoRepetition(service, ov'[n], ov'[n + 1])
    <3>1. n \in 1 .. Len(ov) /\ n + 1 \in 1 .. Len(ov)
      BY <1>3
    <3>2. NoRepetition(service, ov[n], ov[n + 1])
      BY <2>1
    <3>. QED
      BY <1>3, <1>4, <3>1, <3>2 DEF NoRepetition
  <2>3. phase' # "date"
    BY <1>1
  <2>. QED
    BY <1>1, <1>3, <2>2, <2>3 DEF RepetitionInv
<1>10. ASSUME NEW n \in 1 .. Len(ov)
       PROVE  \E k \in PageNumbers(service) : TrulyDated(service, ov'[n], k)
  <2>1. PICK k \in PageNumbers(service) : TrulyDated(service, ov[n], k)
    BY <1>2, <1>6 DEF OriginInv
  <2>2. CASE n # idx
    BY <1>3, <2>1, <2>2
  <2>3. CASE n = idx
    <3>1. \A j \in 1 .. Len(ov[n].slots) :
            /\ ov'[n].slots[j] = [ov[n].slots[j] EXCEPT !.stop = StopTime(idx, j)]
            /\ ov[n].slots[j] \in SlotSet
      BY <1>1, <1>3, <2>3, PageParts
    <3>2. \A j \in 1 .. Len(ov[n].slots) :
            LET x == ov'[n].slots[j]
                y == ov[n].slots[j]
            IN /\ x.hour = y.hour /\ x.min = y.min /\ x.end = y.end /\ x.title = y.title
               /\ x.start = y.start /\ x.stop = StopTime(idx, j)
      BY <3>1 DEF SlotSet
    <3>3. n < Len(ov) => \E l \in PageNumbers(service) :
                           /\ k < l /\ TrulyDated(service, ov[n + 1], l)
                           /\ NoRepetition(service, ov[n], ov[n + 1])
      <4>1. SUFFICES ASSUME n < Len(ov)
                     PROVE  \E l \in PageNumbers(service) :
                              /\ k < l /\ TrulyDated(service, ov[n + 1], l)
                              /\ NoRepetition(service, ov[n], ov[n + 1])
        OBVIOUS
      <4>2. n + 1 \in 1 .. Len(ov) /\ n \in 1 .. Len(ov) - 1 /\ n < n + 1
        BY <1>3, <4>1
      <4>3. PICK l \in PageNumbers(service) : TrulyDated(service, ov[n + 1], l)
        BY <1>2, <1>6, <4>2 DEF OriginInv
      <4>4. PageBefore(ov[n], ov[n + 1])
        BY <1>2, <4>2 DEF OriginInv
      <4>5. k < l
        BY <1>1, <2>1, <4>3, <4>4, FromOrder DEF TrulyDated
      <4>6. NoRepetition(service, ov[n], ov[n + 1])
        BY <1>2, <1>6, <4>2 DEF RepetitionInv
      <4>. QED
        BY <4>3, <4>5, <4>6
    <3>4. ASSUME k <= Len(service.pages), NEW j \in 1 .. Len(ov[n].slots)
          PROVE  TrueStop(service, ov'[n].slots[j])
      <4>1. LET x == ov[n].slots[j] IN
            \/ StopTime(n, j) = NoTime
            \/ x.title < Len(service.starts) /\ StopTime(n, j) = service.starts[x.title + 1]
        BY <1>1, <2>1, <3>3, <3>4, TrueStopTime
      <4>. QED
        BY <2>3, <3>2, <4>1 DEF TrueStop
    <3>5. TrulyDated(service, ov'[n], k)
      <4>1. /\ IsFrom(service, ov'[n], k) /\ TrueDate(service, ov'[n].date, k)
            /\ Len(ov'[n].slots) <= Len(OnAir(service, k).slots)
        BY <1>3, <1>4, <2>1 DEF TrulyDated
      <4>2. \A j \in 1 .. Len(ov[n].slots) :
              LET x == ov[n].slots[j]
                  y == OnAir(service, k).slots[j]
              IN /\ x.hour = y.hour /\ x.min = y.min /\ x.end = y.end /\ x.title = y.title
                 /\ x.start = service.starts[y.title]
        BY <2>1 DEF TrulyDated
      <4>3. \A j \in 1 .. Len(ov'[n].slots) :
              LET x == ov'[n].slots[j]
                  y == OnAir(service, k).slots[j]
              IN /\ x.hour = y.hour /\ x.min = y.min /\ x.end = y.end /\ x.title = y.title
                 /\ x.start = service.starts[y.title]
        BY <1>3, <3>2, <4>2
      <4>4. \A j \in 1 .. Len(ov'[n].slots) :
              k <= Len(service.pages) => TrueStop(service, ov'[n].slots[j])
        BY <1>3, <3>4
      <4>. QED
        BY <4>1, <4>3, <4>4 DEF TrulyDated
    <3>. QED
      BY <3>5
  <2>. QED
    BY <2>2, <2>3
<1>11. OriginInv'
  <2>1. \A m, n \in 1 .. Len(ov) : m < n => PageBefore(ov'[m], ov'[n])
    BY <1>2, <1>5 DEF OriginInv
  <2>2. \A n \in 1 .. Len(ov) : \E k \in PageNumbers(service) :
          IF Untouched(n)' THEN ov'[n] = OnAir(service, k) ELSE TrulyDated(service, ov'[n], k)
    BY <1>6, <1>10
  <2>. QED
    BY <1>1, <1>3, <2>1, <2>2 DEF OriginInv
<1>. QED
  BY <1>7, <1>8, <1>9, <1>11

(* Of the first pass: no page is taken for a repetition of the one before, *)
(* and behind one that is not plausible there are only tips.               *)
LEMMA ParsePageTimes == PagesInv /\ TimesInv /\ ParsePage => TimesInv'
<1>. SUFFICES ASSUME PagesInv, TimesInv, ParsePage, Datable(service)
              PROVE  (WaitingInv /\ OriginInv /\ RepetitionInv /\ BroadcastInv)'
  BY DEF TimesInv, ParsePage
<1>. DEFINE pg == Head(db)
            N  == Len(service.pages)
<1>1. /\ service' = service /\ phase = "parse" /\ phase' = "parse"
      /\ IsService(service) /\ Regular(service)
      /\ db \in Seq(PageSet) /\ ov \in Seq(PageSet) /\ db # <<>> /\ db' = Tail(db)
  BY DEF ParsePage, PagesInv, Datable
<1>2. WaitingInv /\ OriginInv /\ RepetitionInv /\ BroadcastInv
  BY DEF TimesInv
<1>3. /\ Len(db) \in Nat /\ Len(ov) \in Nat /\ 1 \in 1 .. Len(db) /\ pg = db[1]
      /\ Len(db') = Len(db) - 1
      /\ \A n \in 1 .. Len(db') : db'[n] = db[n + 1] /\ n + 1 \in 1 .. Len(db) /\ 1 < n + 1
  BY <1>1, HeadTailProperties
<1>4. PICK k \in PageNumbers(service) : pg = OnAir(service, k)
  BY <1>2, <1>3 DEF WaitingInv
<1>5. pg.slots # <<>> /\ IsFrom(service, pg, k) /\ pg \in PageSet
  <2>1. Len(pg.slots) > 0 /\ pg \in PageSet
    BY <1>1, <1>4, OnAirParts
  <2>2. pg.slots # <<>>
    BY <2>1
  <2>. QED
    BY <1>1, <1>4, <2>1, <2>2, FromOnAir
<1>6. \A n : Untouched(n) /\ Untouched(n)'
  BY <1>1 DEF Untouched
<1>. HIDE DEF pg
<1>7. /\ \A n \in 1 .. Len(db') : \E l \in PageNumbers(service) : db'[n] = OnAir(service, l)
      /\ \A m, n \in 1 .. Len(db') : m < n => PageBefore(db'[m], db'[n])
      /\ \A n \in 1 .. Len(db') : PageBefore(pg, db'[n])
      /\ \A m \in 1 .. Len(ov), n \in 1 .. Len(db') : PageBefore(ov[m], db'[n])
      /\ \A m \in 1 .. Len(ov) : PageBefore(ov[m], pg)
  <2>1. ASSUME NEW m \in 1 .. Len(db'), NEW n \in 1 .. Len(db'), m < n
        PROVE  PageBefore(db'[m], db'[n])
    <3>1. /\ m + 1 \in 1 .. Len(db) /\ n + 1 \in 1 .. Len(db) /\ m + 1 < n + 1
          /\ db'[m] = db[m + 1] /\ db'[n] = db[n + 1]
      BY <1>3, <2>1
    <3>. QED
      BY <1>2, <3>1 DEF WaitingInv
  <2>2. \A n \in 1 .. Len(db') : \E l \in PageNumbers(service) : db'[n] = OnAir(service, l)
    BY <1>2, <1>3 DEF WaitingInv
  <2>3. \A n \in 1 .. Len(db') : PageBefore(pg, db'[n])
    BY <1>2, <1>3 DEF WaitingInv
  <2>4. \A m \in 1 .. Len(ov), n \in 1 .. Len(db') : PageBefore(ov[m], db'[n])
    BY <1>2, <1>3 DEF WaitingInv
  <2>5. \A m \in 1 .. Len(ov) : PageBefore(ov[m], pg)
    BY <1>2, <1>3 DEF WaitingInv
  <2>. QED
    BY <2>1, <2>2, <2>3, <2>4, <2>5
<1>8. CASE ~Plausible(pg)
  <2>1. ov' = ov
    BY <1>8 DEF ParsePage, pg
  <2>2. WaitingInv'
    BY <1>1, <1>7, <2>1 DEF WaitingInv
  <2>3. OriginInv' /\ RepetitionInv'
    BY <1>1, <1>2, <1>6, <2>1 DEF OriginInv, RepetitionInv
  <2>4. ASSUME NEW n \in 1 .. Len(db') PROVE db'[n].page = TipsPageNo
    <3>1. PICK l \in PageNumbers(service) : db'[n] = OnAir(service, l)
      BY <1>7
    <3>2. IsFrom(service, db'[n], l)
      BY <1>1, <3>1, FromOnAir
    <3>3. k < l /\ k \in 1 .. N
      BY <1>1, <1>5, <1>7, <3>2, NoneBehindTips
    <3>4. ~(k < N)
      BY <1>1, <1>4, <1>8, PlausiblePage
    <3>5. l \in 1 .. N + 1 /\ N \in Nat
      BY <1>1, OnAirParts, FirstTitle
    <3>6. l = N + 1
      BY <3>3, <3>4, <3>5
    <3>. QED
      BY <1>1, <3>2, <3>6, TipsFrom
  <2>5. BroadcastInv'
    BY <1>1, <1>2, <2>1, <2>4 DEF BroadcastInv
  <2>. QED
    BY <2>2, <2>3, <2>5
<1>9. CASE Plausible(pg)
  <2>1. ~(ov # <<>> /\ Redundant(pg, Last(ov)))
    <3>1. SUFFICES ASSUME ov # <<>> PROVE ~Redundant(pg, Last(ov))
      OBVIOUS
    <3>2. Len(ov) \in 1 .. Len(ov) /\ Last(ov) = ov[Len(ov)]
      <4>1. Len(ov) # 0
        BY <1>1, <3>1, EmptySeq
      <4>. QED
        BY <1>3, <4>1 DEF Last
    <3>3. PICK l \in PageNumbers(service) :
            IsFrom(service, ov[Len(ov)], l) /\ ov[Len(ov)] = OnAir(service, l)
      BY <1>2, <1>6, <3>2, OriginOf
    <3>4. l < k
      BY <1>1, <1>5, <1>7, <3>2, <3>3, FromOrder
    <3>5. ~Redundant(OnAir(service, k), OnAir(service, l))
      BY <1>1, <3>4, NotRedundant
    <3>. QED
      BY <1>4, <3>2, <3>3, <3>5
  <2>2. ov' = Append(ov, pg)
    BY <1>5, <1>9, <2>1 DEF ParsePage, pg
  <2>3. /\ Len(ov') = Len(ov) + 1 /\ ov'[Len(ov) + 1] = pg
        /\ \A i \in 1 .. Len(ov) : ov'[i] = ov[i]
    BY <1>1, <1>5, <2>2, AppendProperties
  <2>4. \A i \in 1 .. Len(ov') : i \in 1 .. Len(ov) \/ i = Len(ov) + 1
    BY <1>3, <2>3
  <2>5. WaitingInv'
    <3>1. \A m \in 1 .. Len(ov'), n \in 1 .. Len(db') : PageBefore(ov'[m], db'[n])
      BY <1>7, <2>3, <2>4
    <3>. QED
      BY <1>1, <1>7, <3>1 DEF WaitingInv
  <2>6. OriginInv'
    <3>1. ASSUME NEW m \in 1 .. Len(ov'), NEW n \in 1 .. Len(ov'), m < n
          PROVE  PageBefore(ov'[m], ov'[n])
      <4>1. m \in 1 .. Len(ov)
        BY <1>3, <2>3, <3>1
      <4>2. CASE n \in 1 .. Len(ov)
        BY <1>2, <2>3, <3>1, <4>1, <4>2 DEF OriginInv
      <4>3. CASE n = Len(ov) + 1
        BY <1>7, <2>3, <4>1, <4>3
      <4>. QED
        BY <2>4, <4>2, <4>3
    <3>2. ASSUME NEW n \in 1 .. Len(ov')
          PROVE  \E l \in PageNumbers(service) : ov'[n] = OnAir(service, l)
      <4>1. CASE n \in 1 .. Len(ov)
        BY <1>2, <1>6, <2>3, <4>1 DEF OriginInv
      <4>2. CASE n = Len(ov) + 1
        BY <1>4, <2>3, <4>2
      <4>. QED
        BY <2>4, <4>1, <4>2
    <3>. QED
      BY <1>1, <1>6, <3>1, <3>2 DEF OriginInv
  <2>7. RepetitionInv'
    BY <1>1, <1>6 DEF RepetitionInv
  <2>8. BroadcastInv'
    <3>1. SUFFICES ASSUME service.dates = "broadcast" PROVE BroadcastInv'
      BY <1>1 DEF BroadcastInv
    <3>2. ASSUME NEW n \in 1 .. Len(ov')
          PROVE  ov'[n].page = TipsPageNo \/ IsFrom(service, ov'[n], n)
      <4>1. CASE n \in 1 .. Len(ov)
        BY <1>2, <2>3, <3>1, <4>1 DEF BroadcastInv
      <4>2. CASE n = Len(ov) + 1
        BY <1>2, <1>3, <2>3, <3>1, <4>2 DEF BroadcastInv
      <4>. QED
        BY <2>4, <4>1, <4>2
    <3>3. ASSUME NEW n \in 1 .. Len(db')
          PROVE  db'[n].page = TipsPageNo \/ IsFrom(service, db'[n], Len(ov') + n)
      <4>1. Len(ov) + (n + 1) = Len(ov') + n
        BY <1>3, <2>3
      <4>2. db[n + 1].page = TipsPageNo \/ IsFrom(service, db[n + 1], Len(ov) + (n + 1))
        BY <1>2, <1>3, <3>1 DEF BroadcastInv
      <4>. QED
        BY <1>3, <4>1, <4>2
    <3>. QED
      BY <1>1, <3>2, <3>3 DEF BroadcastInv
  <2>. QED
    BY <2>5, <2>6, <2>7, <2>8
<1>. QED
  BY <1>8, <1>9

(* With the dates of the broadcast day pages are numbered as in the list.  *)
LEMMA BroadcastPage ==
  ASSUME IsService(service), BroadcastInv, Datable(service), service.dates = "broadcast",
         NEW n \in 1 .. Len(ov), Len(ov) \in Nat,
         NEW k \in 1 .. Len(service.pages), k \in PageNumbers(service),
         IsFrom(service, ov[n], k)
  PROVE  k = n
<1>1. ov[n].page # TipsPageNo /\ Len(service.pages) \in Nat /\ n \in Nat /\ n >= 1
  BY TipsFrom, FirstTitle
<1>2. IsFrom(service, ov[n], n)
  BY <1>1 DEF BroadcastInv
<1>3. n <= Len(service.pages)
  <2>1. SUFFICES ASSUME ~(n <= Len(service.pages)) PROVE FALSE
    OBVIOUS
  <2>2. OnAir(service, n) = TipsPage(service)
    BY <2>1 DEF OnAir
  <2>3. ov[n].page = TipsPageNo
    BY <1>2, <2>2, TipsShown DEF IsFrom
  <2>. QED
    BY <1>1, <2>3
<1>4. n \in PageNumbers(service)
  BY <1>1, <1>3 DEF PageNumbers, Datable
<1>. QED
  BY <1>2, <1>4, FromOnePage

(* The page to be dated next, and the one before it.                       *)
LEMMA DateOfPage ==
  ASSUME PagesInv, TimesInv, Datable(service), phase = "date", idx <= Len(ov)
  PROVE  \E k \in PageNumbers(service) :
           /\ ov[idx] = OnAir(service, k)
           /\ RightDate(service, CalcDate(idx), k)
           /\ idx > 1 => \E l \in PageNumbers(service) :
                /\ l < k /\ TrulyDated(service, ov[idx - 1], l)
                /\ Len(ov[idx - 1].slots) = Len(OnAir(service, l).slots)
<1>1. /\ WaitingInv /\ OriginInv /\ RepetitionInv /\ BroadcastInv
      /\ IsService(service) /\ Len(ov) \in Nat /\ idx \in 1 .. Len(ov)
      /\ \A i \in 1 .. Len(ov) : ov[i] \in PageSet
      /\ \A i \in 1 .. idx - 1 : IsDated(ov[i])
  BY DEF TimesInv, PagesInv
<1>2. Untouched(idx) /\ \A n \in 1 .. idx - 1 : ~Untouched(n)
  BY <1>1 DEF Untouched
<1>3. PICK k \in PageNumbers(service) :
        IsFrom(service, ov[idx], k) /\ ov[idx] = OnAir(service, k)
  BY <1>1, <1>2, OriginOf
<1>4. CASE idx = 1
  <2>1. service.dates = "broadcast" /\ k \in 1 .. Len(service.pages) => k = 1
    BY <1>1, <1>3, <1>4, BroadcastPage
  <2>2. RightDate(service, CalcDate(1), k)
    BY <1>1, <1>3, <1>4, <2>1, FirstDate
  <2>. QED
    BY <1>3, <1>4, <2>2
<1>5. CASE idx > 1
  <2>1. idx - 1 \in 1 .. Len(ov) /\ idx - 1 \in 1 .. idx - 1 /\ idx - 1 < idx
        /\ 1 \in 1 .. Len(ov) /\ 1 \in 1 .. idx - 1 /\ idx \in Nat
    BY <1>1, <1>5
  <2>2. PICK l \in PageNumbers(service) : TrulyDated(service, ov[idx - 1], l)
    BY <1>1, <1>2, <2>1 DEF OriginInv
  <2>3. IsFrom(service, ov[idx - 1], l) /\ TrueDate(service, ov[idx - 1].date, l)
    BY <2>2 DEF TrulyDated
  <2>4. Len(ov[idx - 1].slots) = Len(OnAir(service, l).slots)
    <3>1. PICK m \in PageNumbers(service) :
            /\ IsFrom(service, ov[idx - 1], m)
            /\ Len(ov[idx - 1].slots) = Len(OnAir(service, m).slots)
      BY <1>1, <1>5 DEF RepetitionInv
    <3>2. m = l
      BY <1>1, <2>3, <3>1, FromOnePage
    <3>. QED
      BY <3>1, <3>2
  <2>5. PageBefore(ov[idx - 1], ov[idx])
    BY <1>1, <2>1 DEF OriginInv
  <2>6. l < k /\ l \in 1 .. Len(service.pages)
    BY <1>1, <1>3, <2>3, <2>5, NoneBehindTips
  <2>7. ov[idx - 1].slots # <<>> /\ 1 \in 1 .. Len(ov[idx - 1].slots)
    <3>1. Len(ov[idx - 1].slots) > 0 /\ Len(ov[idx - 1].slots) \in Nat
      BY <1>1, <2>1, <2>4, OnAirParts, PageParts
    <3>2. ov[idx - 1].slots # <<>>
      BY <3>1
    <3>. QED
      BY <3>1, <3>2
  <2>8. ov[idx - 1].slots[1].hour = HourOf(FirstStart(service, l))
    <3>1. LET x == ov[idx - 1].slots[1] IN
          x.title = TitleOn(service, l, 1) /\ x.start = service.starts[x.title]
          /\ x.hour = HourOf(x.start)
      BY <1>1, <2>1, <2>2, <2>7, DatedLine
    <3>2. service.starts[TitleOn(service, l, 1)] = FirstStart(service, l)
      BY <1>1, FirstLine
    <3>. QED
      BY <3>1, <3>2
  <2>9. ov[idx - 1].date \in [day : Nat, off : Nat]
    BY <1>1, <2>1 DEF IsDated
  <2>10. ASSUME service.dates = "broadcast", k \in 1 .. Len(service.pages)
         PROVE  k = l + 1 /\ ov[1].date.day + ov[1].date.off = DayOf(FirstStart(service, 1))
    <3>1. k = idx
      BY <1>1, <1>3, <2>10, BroadcastPage
    <3>2. l = idx - 1
      BY <1>1, <2>1, <2>3, <2>6, <2>10, BroadcastPage
    <3>3. PICK m \in PageNumbers(service) : TrulyDated(service, ov[1], m)
      BY <1>1, <1>2, <2>1 DEF OriginInv
    <3>4. IsFrom(service, ov[1], m) /\ TrueDate(service, ov[1].date, m)
      BY <3>3 DEF TrulyDated
    <3>5. PageBefore(ov[1], ov[idx])
      BY <1>1, <1>5, <2>1 DEF OriginInv
    <3>6. m \in 1 .. Len(service.pages)
      BY <1>1, <1>3, <3>4, <3>5, NoneBehindTips
    <3>7. m = 1
      BY <1>1, <2>1, <2>10, <3>4, <3>6, BroadcastPage
    <3>8. k = l + 1
      BY <2>1, <3>1, <3>2
    <3>. QED
      BY <3>4, <3>7, <3>8 DEF TrueDate
  <2>11. RightDate(service, CalcDate(idx), k)
    BY <1>1, <1>3, <1>5, <2>1, <2>3, <2>6, <2>7, <2>8, <2>9, <2>10, NextDate
  <2>. QED
    BY <1>3, <2>2, <2>4, <2>6, <2>11
<1>. QED
  BY <1>1, <1>4, <1>5

(* A page that cannot be dated is erased: the pages behind it move up.     *)
LEMMA ErasePageTimes ==
  ASSUME PagesInv, TimesInv, Datable(service), DatePage, CalcDate(idx) = NoDate
  PROVE  (WaitingInv /\ OriginInv /\ RepetitionInv /\ BroadcastInv)'
<1>1. /\ WaitingInv /\ OriginInv /\ RepetitionInv /\ BroadcastInv
      /\ IsService(service) /\ ov \in Seq(PageSet) /\ Len(ov) \in Nat
      /\ idx \in 1 .. Len(ov) /\ idx \in Nat /\ Len(db) \in Nat
      /\ phase = "date" /\ phase' = "date" /\ service' = service /\ db' = db /\ idx' = idx
      /\ ov' = RemoveAt(ov, idx)
  BY DEF TimesInv, PagesInv, DatePage
<1>. DEFINE o(n) == IF n < idx THEN n ELSE n + 1
<1>2. /\ Len(ov') = Len(ov) - 1
      /\ \A n \in 1 .. Len(ov') : o(n) \in 1 .. Len(ov) /\ ov'[n] = ov[o(n)]
      /\ \A m, n \in 1 .. Len(ov') : m < n => o(m) < o(n)
      /\ \A n \in 1 .. Len(ov') : Untouched(n)' <=> Untouched(o(n))
  <2>1. /\ Len(ov') = Len(ov) - 1
        /\ \A j \in 1 .. idx - 1 : ov'[j] = ov[j]
        /\ \A j \in idx .. Len(ov) - 1 : ov'[j] = ov[j + 1]
    BY <1>1, SequenceRemoved
  <2>2. ASSUME NEW n \in 1 .. Len(ov') PROVE o(n) \in 1 .. Len(ov) /\ ov'[n] = ov[o(n)]
    <3>1. CASE n < idx
      <4>1. n \in 1 .. idx - 1 /\ n \in 1 .. Len(ov)
        BY <1>1, <2>1, <3>1
      <4>. QED
        BY <2>1, <3>1, <4>1
    <3>2. CASE ~(n < idx)
      <4>1. n \in idx .. Len(ov) - 1 /\ n + 1 \in 1 .. Len(ov)
        BY <1>1, <2>1, <3>2
      <4>. QED
        BY <2>1, <3>2, <4>1
    <3>. QED
      BY <3>1, <3>2
  <2>3. \A m, n \in 1 .. Len(ov') : m < n => o(m) < o(n)
    BY <1>1, <2>1
  <2>4. \A n \in 1 .. Len(ov') : Untouched(n)' <=> Untouched(o(n))
    BY <1>1, <2>1 DEF Untouched
  <2>. QED
    BY <2>1, <2>2, <2>3, <2>4
<1>3. /\ \A n \in 1 .. Len(ov') : n >= idx => idx < o(n)
      /\ \A n \in 1 .. Len(ov') : n < idx => o(n) = n
  BY <1>1, <1>2
<1>. HIDE DEF o
<1>4. PICK k \in PageNumbers(service) :
        ov[idx] = OnAir(service, k) /\ RightDate(service, NoDate, k)
  BY <1>1, DateOfPage
<1>5. WaitingInv'
  BY <1>1, <1>2 DEF WaitingInv
<1>6. OriginInv'
  <2>1. \A m, n \in 1 .. Len(ov') : m < n => PageBefore(ov'[m], ov'[n])
    BY <1>1, <1>2 DEF OriginInv
  <2>2. ASSUME NEW n \in 1 .. Len(ov')
        PROVE  \E l \in PageNumbers(service) :
                 IF Untouched(n)' THEN ov'[n] = OnAir(service, l)
                 ELSE TrulyDated(service, ov'[n], l)
    <3>1. o(n) \in 1 .. Len(ov) /\ ov'[n] = ov[o(n)] /\ (Untouched(n)' <=> Untouched(o(n)))
      BY <1>2
    <3>2. PICK l \in PageNumbers(service) :
            IF Untouched(o(n)) THEN ov[o(n)] = OnAir(service, l)
            ELSE TrulyDated(service, ov[o(n)], l)
      BY <1>1, <3>1 DEF OriginInv
    <3>. QED
      BY <3>1, <3>2
  <2>. QED
    BY <1>1, <2>1, <2>2 DEF OriginInv
<1>7. RepetitionInv'
  <2>1. ASSUME idx > 1
        PROVE  \E l \in PageNumbers(service) :
                 /\ IsFrom(service, ov'[idx - 1], l)
                 /\ Len(ov'[idx - 1].slots) = Len(OnAir(service, l).slots)
    <3>1. idx - 1 \in 1 .. Len(ov') /\ idx - 1 < idx
      BY <1>1, <1>2, <2>1
    <3>2. ov'[idx - 1] = ov[idx - 1]
      BY <1>2, <1>3, <3>1
    <3>. QED
      BY <1>1, <2>1, <3>2 DEF RepetitionInv
  <2>2. ASSUME NEW n \in 1 .. Len(ov') - 1
        PROVE  Untouched(n + 1)' \/ NoRepetition(service, ov'[n], ov'[n + 1])
    <3>1. n \in 1 .. Len(ov') /\ n + 1 \in 1 .. Len(ov') /\ n \in 1 .. Len(ov) - 1
          /\ n < n + 1
      BY <1>1, <1>2
    <3>2. CASE n + 1 < idx
      <4>1. n < idx
        BY <1>1, <3>1, <3>2
      <4>2. ov'[n] = ov[n] /\ ov'[n + 1] = ov[n + 1]
        BY <1>2, <1>3, <3>1, <3>2, <4>1
      <4>3. Untouched(n + 1) \/ NoRepetition(service, ov[n], ov[n + 1])
        BY <1>1, <3>1 DEF RepetitionInv
      <4>4. ~Untouched(n + 1)
        BY <1>1, <3>1, <3>2 DEF Untouched
      <4>. QED
        BY <4>2, <4>3, <4>4
    <3>3. CASE ~(n + 1 < idx)
      BY <1>1, <3>1, <3>3 DEF Untouched
    <3>. QED
      BY <3>2, <3>3
  <2>. QED
    BY <1>1, <2>1, <2>2 DEF RepetitionInv
<1>8. BroadcastInv'
  <2>1. SUFFICES ASSUME service.dates = "broadcast" PROVE BroadcastInv'
    BY <1>1 DEF BroadcastInv
  <2>2. k \notin 1 .. Len(service.pages)
    <3>1. \A d \in [day : Nat, off : Nat] : d.day \in Nat
      OBVIOUS
    <3>2. NoDate \notin [day : Nat, off : Nat]
      BY <3>1 DEF NoDate
    <3>. QED
      BY <1>4, <2>1, <3>2 DEF RightDate
  <2>3. IsFrom(service, ov[idx], k)
    BY <1>1, <1>4, FromOnAir
  <2>4. ASSUME NEW n \in 1 .. Len(ov') PROVE n < idx
    <3>1. SUFFICES ASSUME ~(n < idx) PROVE FALSE
      OBVIOUS
    <3>2. o(n) \in 1 .. Len(ov) /\ idx < o(n)
      BY <1>1, <1>2, <1>3, <3>1
    <3>3. PICK l \in PageNumbers(service) : IsFrom(service, ov[o(n)], l)
      BY <1>1, <3>2, OriginOf
    <3>4. PageBefore(ov[idx], ov[o(n)])
      BY <1>1, <3>2 DEF OriginInv
    <3>. QED
      BY <1>1, <2>2, <2>3, <3>3, <3>4, NoneBehindTips
  <2>5. Len(db) = 0
    <3>1. SUFFICES ASSUME Len(db) # 0 PROVE FALSE
      OBVIOUS
    <3>2. 1 \in 1 .. Len(db)
      BY <1>1, <3>1
    <3>3. PICK l \in PageNumbers(service) : db[1] = OnAir(service, l)
      BY <1>1, <3>2 DEF WaitingInv
    <3>4. IsFrom(service, db[1], l)
      BY <1>1, <3>3, FromOnAir
    <3>5. PageBefore(ov[idx], db[1])
      BY <1>1, <3>2 DEF WaitingInv
    <3>. QED
      BY <1>1, <2>2, <2>3, <3>4, <3>5, NoneBehindTips
  <2>6. \A n \in 1 .. Len(ov') : ov'[n] = ov[n] /\ n \in 1 .. Len(ov)
    BY <1>2, <1>3, <2>4
  <2>7. \A n \in 1 .. Len(ov') : ov'[n].page = TipsPageNo \/ IsFrom(service, ov'[n], n)
    BY <1>1, <2>1, <2>6 DEF BroadcastInv
  <2>. QED
    BY <1>1, <2>1, <2>5, <2>7 DEF BroadcastInv
<1>. QED
  BY <1>5, <1>6, <1>7, <1>8

(* A page is not taken for one that was not received.                      *)
LEMMA FromShownPage ==
  ASSUME NEW s, IsService(s), NEW l \in PageNumbers(s), NEW k \in 1 .. Len(s.pages),
         NEW p, IsFrom(s, p, l), IsFrom(s, p, k)
  PROVE  k = l
<1>1. Len(s.pages) \in Nat /\ k \in Nat /\ k <= Len(s.pages)
  BY FirstTitle
<1>2. /\ OnAir(s, k) = Shown(s, k)
      /\ p.page = s.pages[k][1] /\ p.sub = s.pages[k][2]
      /\ s.pages[k][1] \in Nat /\ s.pages[k][2] \in Nat
      /\ GetNextPageNumber(s.pages[k][1]) < TipsPageNo
  BY <1>1, ShownPage, LayoutParts DEF OnAir, IsFrom
<1>3. p.page # TipsPageNo
  <2>1. GetNextPageNumber(s.pages[k][1]) \in Nat
        /\ s.pages[k][1] < GetNextPageNumber(s.pages[k][1])
    BY <1>2, NextNumber
  <2>. QED
    BY <1>2, <2>1 DEF TipsPageNo
<1>4. l \in 1 .. Len(s.pages)
  BY <1>3, TipsFrom
<1>5. p.page = s.pages[l][1] /\ p.sub = s.pages[l][2] /\ l \in Nat
      /\ s.pages[l][1] \in Nat /\ s.pages[l][2] \in Nat
  <2>1. OnAir(s, l).page = s.pages[l][1] /\ OnAir(s, l).sub = s.pages[l][2]
    BY <1>4, OnAirParts
  <2>2. s.pages[l][1] \in Nat /\ s.pages[l][2] \in Nat
    BY <1>4, LayoutParts
  <2>3. p.page = OnAir(s, l).page /\ p.sub = OnAir(s, l).sub
    BY DEF IsFrom
  <2>. QED
    BY <1>1, <1>4, <2>1, <2>2, <2>3
<1>6. ~(k < l)
  <2>1. SUFFICES ASSUME k < l PROVE FALSE
    OBVIOUS
  <2>2. \/ s.pages[k][1] < s.pages[l][1]
        \/ s.pages[k][1] = s.pages[l][1] /\ s.pages[l][2] = s.pages[k][2] + (l - k)
    BY <1>4, <2>1, PagesAscend
  <2>. QED
    BY <1>1, <1>2, <1>5, <2>1, <2>2
<1>7. ~(l < k)
  <2>1. SUFFICES ASSUME l < k PROVE FALSE
    OBVIOUS
  <2>2. \/ s.pages[l][1] < s.pages[k][1]
        \/ s.pages[l][1] = s.pages[k][1] /\ s.pages[k][2] = s.pages[l][2] + (k - l)
    BY <1>4, <2>1, PagesAscend
  <2>. QED
    BY <1>1, <1>2, <1>5, <2>1, <2>2
<1>. QED
  BY <1>1, <1>5, <1>6, <1>7

(* When a page is dated, the slot repeated at its top is dropped from the  *)
(* page before.                                                            *)
LEMMA RepeatedDropped ==
  ASSUME NEW s, IsService(s), NEW l \in PageNumbers(s), NEW k \in PageNumbers(s),
         NEW prev \in PageSet, IsDated(prev), TrulyDated(s, prev, l),
         Len(prev.slots) = Len(OnAir(s, l).slots),
         NEW pg \in PageSet, TrulyDated(s, pg, k),
         Len(pg.slots) = Len(OnAir(s, k).slots)
  PROVE  NoRepetition(s, DropRepeated(prev, pg), pg)
<1>. DEFINE p == DropRepeated(prev, pg)
            N == Len(s.pages)
<1>1. /\ p.page = prev.page /\ p.sub = prev.sub /\ p.skip = prev.skip
      /\ prev.slots # <<>> /\ pg.slots # <<>> /\ SameSlot(Last(prev.slots), pg.slots[1])
           => Len(p.slots) = Len(prev.slots) - 1
  BY DroppedPage
<1>2. ASSUME NEW m \in 1 .. N - 1, IsFrom(s, p, m), IsFrom(s, pg, m + 1)
      PROVE  Len(p.slots) = s.first[m + 1] - s.first[m]
  <2>1. N \in Nat /\ m \in 1 .. N /\ m + 1 \in 1 .. N /\ m # N
    BY FirstTitle
  <2>2. IsFrom(s, prev, m) /\ IsFrom(s, prev, l) /\ IsFrom(s, pg, k)
    BY <1>1, <1>2 DEF IsFrom, TrulyDated
  <2>3. m = l /\ m + 1 = k
    BY <1>2, <2>1, <2>2, FromShownPage
  <2>4. /\ s.first[m] \in 1 .. Len(s.starts) /\ s.first[m + 1] \in 1 .. Len(s.starts)
        /\ Len(s.starts) \in Nat
        /\ LastTitle(s, m) = (IF s.repeated THEN s.first[m + 1] ELSE s.first[m + 1] - 1)
        /\ s.first[m] \in Nat /\ s.first[m + 1] \in Nat
    <3>1. s.first[m] \in 1 .. Len(s.starts) /\ s.first[m + 1] \in 1 .. Len(s.starts)
      BY <2>1, PageTitles
    <3>2. Len(s.starts) \in Nat
      BY ServiceParts
    <3>3. LastTitle(s, m) = (IF s.repeated THEN s.first[m + 1] ELSE s.first[m + 1] - 1)
      BY <2>1 DEF LastTitle
    <3>4. \A i \in 1 .. Len(s.starts) : i \in Nat
      OBVIOUS
    <3>. QED
      BY <3>1, <3>2, <3>3, <3>4
  <2>. DEFINE n == Len(prev.slots)
  <2>5. n = LastTitle(s, m) - s.first[m] + 1
    <3>1. OnAir(s, m) = Shown(s, m)
      BY <2>1 DEF OnAir
    <3>2. Len(Shown(s, m).slots) = LastTitle(s, m) - s.first[m] + 1
      BY <2>1, ShownPage
    <3>. QED
      BY <2>3, <3>1, <3>2
  <2>6. n > 0 /\ Len(pg.slots) > 0 /\ n \in Nat /\ Len(pg.slots) \in Nat
    BY OnAirParts, PageParts
  <2>. HIDE DEF p
  <2>7. prev.slots # <<>> /\ pg.slots # <<>> /\ n \in 1 .. n /\ 1 \in 1 .. Len(pg.slots)
    <3>1. prev.slots # <<>> /\ pg.slots # <<>>
      BY <2>6
    <3>. QED
      BY <2>6, <3>1
  <2>8. /\ prev.slots[n].title = s.first[m] + n - 1
        /\ prev.slots[n].start = s.starts[s.first[m] + n - 1]
    <3>1. /\ prev.slots[n].title = TitleOn(s, l, n)
          /\ prev.slots[n].start = s.starts[prev.slots[n].title]
      BY <2>7, DatedLine
    <3>2. l <= N
      BY <2>1, <2>3
    <3>. QED
      BY <2>3, <3>1, <3>2 DEF TitleOn
  <2>9. /\ pg.slots[1].title = s.first[m + 1]
        /\ pg.slots[1].start = s.starts[s.first[m + 1]]
    <3>1. /\ pg.slots[1].title = TitleOn(s, k, 1)
          /\ pg.slots[1].start = s.starts[pg.slots[1].title]
      BY <2>7, DatedLine
    <3>2. k <= N /\ s.first[k] + 1 - 1 = s.first[k]
      BY <2>1, <2>3, <2>4
    <3>3. TitleOn(s, k, 1) = s.first[k]
      BY <3>2 DEF TitleOn
    <3>. QED
      BY <2>3, <3>1, <3>3
  <2>10. Last(prev.slots) = prev.slots[n]
    BY DEF Last
  <2>. HIDE DEF n
  <2>11. CASE s.repeated
    <3>1. s.first[m] + n - 1 = s.first[m + 1]
      BY <2>4, <2>5, <2>11
    <3>2. SameSlot(Last(prev.slots), pg.slots[1])
      BY <2>8, <2>9, <2>10, <3>1 DEF SameSlot
    <3>3. Len(p.slots) = n - 1
      BY <1>1, <2>7, <3>2 DEF n, p
    <3>. QED
      BY <2>4, <2>6, <3>1, <3>3
  <2>12. CASE ~s.repeated
    <3>1. s.first[m] + n - 1 = s.first[m + 1] - 1 /\ s.first[m + 1] - 1 # s.first[m + 1]
      BY <2>4, <2>5, <2>12
    <3>2. ~SameSlot(Last(prev.slots), pg.slots[1])
      BY <2>8, <2>9, <2>10, <3>1 DEF SameSlot
    <3>3. p = prev
      BY <3>2 DEF DropRepeated, p
    <3>4. Len(p.slots) = n
      BY <3>3 DEF n
    <3>5. s.first[m] \in Nat /\ s.first[m + 1] \in Nat /\ n \in Nat
      BY <2>4, <2>6
    <3>6. \A a, b, c \in Nat : a + c - 1 = b - 1 => c = b - a
      OBVIOUS
    <3>7. n = s.first[m + 1] - s.first[m]
      BY <3>1, <3>5, <3>6
    <3>. QED
      BY <3>4, <3>7
  <2>. QED
    BY <2>11, <2>12
<1>. QED
  BY <1>2 DEF NoRepetition

(* A page with its true date gets the true start times.                    *)
LEMMA TrulyDatedPage ==
  ASSUME NEW s, IsService(s), Regular(s), NEW k \in PageNumbers(s),
         NEW date \in [day : Nat, off : Nat], TrueDate(s, date, k)
  PROVE  LET pg == Dated(OnAir(s, k), date) IN
         /\ pg \in PageSet /\ IsDated(pg)
         /\ TrulyDated(s, pg, k) /\ Len(pg.slots) = Len(OnAir(s, k).slots)
<1>. DEFINE pg == Dated(OnAir(s, k), date)
            a  == OnAir(s, k)
<1>1. a \in PageSet /\ a.skip = 0 /\ Len(a.slots) \in Nat
      /\ \A j \in 1 .. Len(a.slots) : a.slots[j] \in SlotSet
  BY OnAirParts, PageParts
<1>. HIDE DEF a
<1>2. /\ Dated(a, date) \in PageSet /\ IsDated(Dated(a, date))
      /\ Dated(a, date).page = a.page /\ Dated(a, date).sub = a.sub
      /\ Dated(a, date).skip = a.skip /\ Dated(a, date).date = date
      /\ Len(Dated(a, date).slots) = Len(a.slots)
      /\ \A j \in 1 .. Len(a.slots) :
           Dated(a, date).slots[j] = [a.slots[j] EXCEPT !.start = StartTime(a, date, j)]
  BY <1>1, DatedPage
<1>3. pg = Dated(a, date)
  BY DEF a
<1>. HIDE DEF pg
<1>4. ASSUME NEW j \in 1 .. Len(pg.slots)
      PROVE  LET x == pg.slots[j]
                 y == a.slots[j]
             IN /\ x.hour = y.hour /\ x.min = y.min /\ x.end = y.end /\ x.title = y.title
                /\ x.start = s.starts[y.title]
                /\ TrueStop(s, x)
  <2>1. j \in 1 .. Len(a.slots) /\ a.slots[j] \in SlotSet
    BY <1>1, <1>2, <1>3
  <2>2. /\ a.slots[j].title = TitleOn(s, k, j) /\ a.slots[j].stop = NoTime
        /\ StartTime(a, date, j) = s.starts[TitleOn(s, k, j)]
    BY <2>1, OnAirSlots, TrueStart DEF a, TrueDate
  <2>3. pg.slots[j] = [a.slots[j] EXCEPT !.start = StartTime(a, date, j)]
    BY <1>2, <1>3, <2>1
  <2>4. LET x == pg.slots[j]
            y == a.slots[j]
        IN /\ x.hour = y.hour /\ x.min = y.min /\ x.end = y.end /\ x.title = y.title
           /\ x.start = StartTime(a, date, j) /\ x.stop = y.stop
    BY <2>1, <2>3 DEF SlotSet
  <2>. QED
    BY <2>2, <2>4 DEF TrueStop
<1>5. IsFrom(s, pg, k) /\ TrueDate(s, pg.date, k) /\ Len(pg.slots) <= Len(a.slots)
  BY <1>1, <1>2, <1>3 DEF IsFrom, a
<1>6. TrulyDated(s, pg, k)
  BY <1>4, <1>5 DEF TrulyDated, a
<1>. QED
  BY <1>2, <1>3, <1>6 DEF pg, a

(* A page is dated, and the one before it loses what is repeated.          *)
LEMMA DateKnownTimes ==
  ASSUME PagesInv, TimesInv, Datable(service), DatePage, CalcDate(idx) # NoDate
  PROVE  (WaitingInv /\ OriginInv /\ RepetitionInv /\ BroadcastInv)'
<1>. DEFINE date == CalcDate(idx)
            pg   == Dated(ov[idx], date)
<1>1. /\ WaitingInv /\ OriginInv /\ RepetitionInv /\ BroadcastInv
      /\ IsService(service) /\ Regular(service) /\ Len(ov) \in Nat
      /\ idx \in 1 .. Len(ov) /\ idx \in Nat
      /\ phase = "date" /\ phase' = "date" /\ service' = service /\ db' = db
      /\ idx' = idx + 1
      /\ \A i \in 1 .. Len(ov) : ov[i] \in PageSet
      /\ \A i \in 1 .. idx - 1 : IsDated(ov[i])
  BY DEF TimesInv, PagesInv, DatePage, Datable
<1>2. ov' = [i \in 1 .. Len(ov) |->
               IF i = idx THEN pg
               ELSE IF i = idx - 1 THEN DropRepeated(ov[i], pg) ELSE ov[i]]
  <2>1. DOMAIN ov = 1 .. Len(ov)
    BY LenProperties DEF PagesInv
  <2>. QED
    BY <2>1 DEF DatePage
<1>3. PICK k \in PageNumbers(service) :
        /\ ov[idx] = OnAir(service, k)
        /\ RightDate(service, date, k)
        /\ idx > 1 => \E l \in PageNumbers(service) :
             /\ l < k /\ TrulyDated(service, ov[idx - 1], l)
             /\ Len(ov[idx - 1].slots) = Len(OnAir(service, l).slots)
  BY <1>1, DateOfPage
<1>4. date \in [day : Nat, off : Nat] /\ TrueDate(service, date, k)
  BY <1>3 DEF RightDate
<1>5. /\ pg \in PageSet /\ IsDated(pg)
      /\ TrulyDated(service, pg, k) /\ Len(pg.slots) = Len(OnAir(service, k).slots)
  <2>. HIDE DEF date
  <2>. QED
    BY <1>1, <1>3, <1>4, TrulyDatedPage
<1>6. pg.page = ov[idx].page /\ pg.sub = ov[idx].sub /\ pg.skip = ov[idx].skip
  BY <1>3, <1>5, OnAirParts, <1>1 DEF TrulyDated, IsFrom
<1>. HIDE DEF pg, date
<1>7. idx > 1 => idx - 1 \in 1 .. Len(ov) /\ idx - 1 \in 1 .. idx - 1
  BY <1>1
<1>8. /\ Len(ov') = Len(ov) /\ ov'[idx] = pg
      /\ idx > 1 => ov'[idx - 1] = DropRepeated(ov[idx - 1], pg)
      /\ \A i \in 1 .. Len(ov) : i # idx /\ i # idx - 1 => ov'[i] = ov[i]
  <2>1. Len(ov') = Len(ov)
    <3>1. ov' \in Seq({ov'[i] : i \in 1 .. Len(ov)}) /\ DOMAIN ov' = 1 .. Len(ov)
      <4>1. ov' \in [1 .. Len(ov) -> {ov'[i] : i \in 1 .. Len(ov)}]
        BY <1>2
      <4>. QED
        BY <1>1, <4>1, SeqDef
    <3>. QED
      BY <1>1, <3>1, LenProperties
  <2>2. idx # idx - 1
    BY <1>1
  <2>. QED
    BY <1>1, <1>2, <1>7, <2>1, <2>2
<1>9. ASSUME idx > 1
      PROVE  \E l \in PageNumbers(service) :
               /\ TrulyDated(service, ov'[idx - 1], l)
               /\ NoRepetition(service, ov'[idx - 1], pg)
               /\ ov'[idx - 1].page = ov[idx - 1].page /\ ov'[idx - 1].sub = ov[idx - 1].sub
               /\ ov'[idx - 1].skip = ov[idx - 1].skip
  <2>. DEFINE prev == ov[idx - 1]
              p == DropRepeated(prev, pg)
  <2>1. prev \in PageSet /\ IsDated(prev)
    BY <1>1, <1>7, <1>9
  <2>2. PICK l \in PageNumbers(service) :
          /\ l < k /\ TrulyDated(service, prev, l)
          /\ Len(prev.slots) = Len(OnAir(service, l).slots)
    BY <1>3, <1>9
  <2>. HIDE DEF prev
  <2>3. NoRepetition(service, p, pg)
    BY <1>1, <1>5, <2>1, <2>2, RepeatedDropped
  <2>4. /\ p.page = prev.page /\ p.sub = prev.sub /\ p.skip = prev.skip /\ p.date = prev.date
        /\ Len(p.slots) <= Len(prev.slots)
        /\ \A j \in 1 .. Len(p.slots) : p.slots[j] = prev.slots[j]
        /\ p \in PageSet
    BY <2>1, DroppedPage
  <2>. HIDE DEF p
  <2>5. Len(p.slots) \in Nat /\ Len(prev.slots) \in Nat
    BY <2>1, <2>4, PageParts
  <2>6. TrulyDated(service, p, l)
    <3>1. IsFrom(service, p, l) /\ TrueDate(service, p.date, l)
      BY <2>2, <2>4 DEF TrulyDated, IsFrom
    <3>2. Len(p.slots) <= Len(OnAir(service, l).slots)
      BY <2>2, <2>4
    <3>3. \A j \in 1 .. Len(p.slots) : j \in 1 .. Len(prev.slots)
      BY <2>4, <2>5
    <3>4. \A j \in 1 .. Len(p.slots) :
            LET x == p.slots[j]
                y == OnAir(service, l).slots[j]
            IN /\ x.hour = y.hour /\ x.min = y.min /\ x.end = y.end /\ x.title = y.title
               /\ x.start = service.starts[y.title]
               /\ l <= Len(service.pages) => TrueStop(service, x)
      BY <2>2, <2>4, <3>3 DEF TrulyDated
    <3>. QED
      BY <3>1, <3>2, <3>4 DEF TrulyDated
  <2>7. ov'[idx - 1] = p
    BY <1>8, <1>9 DEF p, prev
  <2>. QED
    BY <2>3, <2>4, <2>6, <2>7 DEF prev
<1>10. \A i \in 1 .. Len(ov) :
         ov'[i].page = ov[i].page /\ ov'[i].sub = ov[i].sub /\ ov'[i].skip = ov[i].skip
  <2>1. ASSUME NEW i \in 1 .. Len(ov)
        PROVE  ov'[i].page = ov[i].page /\ ov'[i].sub = ov[i].sub /\ ov'[i].skip = ov[i].skip
    <3>1. CASE i = idx
      BY <1>6, <1>8, <3>1
    <3>2. CASE i = idx - 1
      <4>1. idx > 1
        BY <1>1, <3>2
      <4>. QED
        BY <1>9, <3>2, <4>1
    <3>3. CASE i # idx /\ i # idx - 1
      BY <1>8, <3>3
    <3>. QED
      BY <3>1, <3>2, <3>3
  <2>. QED
    BY <2>1
<1>11. \A i \in 1 .. Len(ov) : \A m : IsFrom(service, ov'[i], m) <=> IsFrom(service, ov[i], m)
  BY <1>10 DEF IsFrom
<1>12. WaitingInv'
  <2>1. \A m \in 1 .. Len(ov), n \in 1 .. Len(db) : PageBefore(ov'[m], db[n])
    BY <1>1, <1>10 DEF WaitingInv, PageBefore
  <2>. QED
    BY <1>1, <1>8, <2>1 DEF WaitingInv
<1>13. BroadcastInv'
  BY <1>1, <1>8, <1>10, <1>11 DEF BroadcastInv
<1>14. OriginInv'
  <2>1. \A m, n \in 1 .. Len(ov) : m < n => PageBefore(ov'[m], ov'[n])
    BY <1>1, <1>10 DEF OriginInv, PageBefore
  <2>2. ASSUME NEW n \in 1 .. Len(ov)
        PROVE  \E l \in PageNumbers(service) :
                 IF Untouched(n)' THEN ov'[n] = OnAir(service, l)
                 ELSE TrulyDated(service, ov'[n], l)
    <3>1. n \in Nat /\ (Untouched(n)' <=> n > idx) /\ (Untouched(n) <=> n >= idx)
      BY <1>1 DEF Untouched
    <3>2. CASE n = idx
      <4>1. ~Untouched(n)'
        BY <1>1, <3>1, <3>2
      <4>. QED
        BY <1>5, <1>8, <3>2, <4>1
    <3>3. CASE n = idx - 1
      <4>1. idx > 1 /\ ~Untouched(n)'
        BY <1>1, <3>1, <3>3
      <4>. QED
        BY <1>9, <3>3, <4>1
    <3>4. CASE n # idx /\ n # idx - 1
      <4>1. ov'[n] = ov[n] /\ (Untouched(n)' <=> Untouched(n))
        BY <1>1, <1>8, <3>1, <3>4
      <4>2. PICK l \in PageNumbers(service) :
              IF Untouched(n) THEN ov[n] = OnAir(service, l)
              ELSE TrulyDated(service, ov[n], l)
        BY <1>1 DEF OriginInv
      <4>. QED
        BY <4>1, <4>2
    <3>. QED
      BY <3>2, <3>3, <3>4
  <2>. QED
    BY <1>1, <1>8, <2>1, <2>2 DEF OriginInv
<1>15. RepetitionInv'
  <2>1. \E l \in PageNumbers(service) :
          /\ IsFrom(service, ov'[idx' - 1], l)
          /\ Len(ov'[idx' - 1].slots) = Len(OnAir(service, l).slots)
    <3>1. idx' - 1 = idx
      BY <1>1
    <3>. QED
      BY <1>5, <1>8, <3>1 DEF TrulyDated
  <2>2. ASSUME NEW n \in 1 .. Len(ov) - 1
        PROVE  Untouched(n + 1)' \/ NoRepetition(service, ov'[n], ov'[n + 1])
    <3>1. n \in 1 .. Len(ov) /\ n + 1 \in 1 .. Len(ov) /\ n \in Nat
          /\ (Untouched(n + 1)' <=> n + 1 > idx) /\ (Untouched(n + 1) <=> n + 1 >= idx)
      BY <1>1 DEF Untouched
    <3>2. CASE n + 1 > idx
      BY <3>1, <3>2
    <3>3. CASE n + 1 = idx
      <4>1. idx > 1 /\ n = idx - 1
        BY <1>1, <3>1, <3>3
      <4>. QED
        BY <1>8, <1>9, <3>3, <4>1
    <3>4. CASE n + 1 < idx
      <4>0. n # idx /\ n # idx - 1
        BY <1>1, <3>1, <3>4
      <4>1. ov'[n] = ov[n]
        BY <1>8, <3>1, <4>0
      <4>2. ~Untouched(n + 1)
        BY <1>1, <3>1, <3>4
      <4>3. NoRepetition(service, ov[n], ov[n + 1])
        BY <1>1, <4>2 DEF RepetitionInv
      <4>. QED
        BY <1>11, <3>1, <4>1, <4>3 DEF NoRepetition
    <3>. QED
      BY <1>1, <3>1, <3>2, <3>3, <3>4
  <2>. QED
    BY <1>1, <1>8, <2>1, <2>2 DEF RepetitionInv
<1>. QED
  BY <1>12, <1>13, <1>14, <1>15

LEMMA DatePageTimes == PagesInv /\ TimesInv /\ DatePage => TimesInv'
<1>. SUFFICES ASSUME PagesInv, TimesInv, DatePage, Datable(service)
              PROVE  (WaitingInv /\ OriginInv /\ RepetitionInv /\ BroadcastInv)'
  BY DEF TimesInv, DatePage
<1>. QED
  BY ErasePageTimes, DateKnownTimes

LEMMA TimesStep == PagesInv /\ TimesInv /\ [Next]_vars => TimesInv'
<1>. SUFFICES ASSUME PagesInv, TimesInv, [Next]_vars PROVE TimesInv'
  OBVIOUS
<1>1. CASE UNCHANGED vars
  BY <1>1, TimesKept DEF vars
<1>2. CASE ParsePage
  BY <1>2, ParsePageTimes
<1>3. CASE StartDates
  BY <1>3, StartDatesTimes
<1>4. CASE DatePage
  BY <1>4, DatePageTimes
<1>5. CASE StartStops
  BY <1>5, StartStopsTimes
<1>6. CASE StopPage
  BY <1>6, StopPageTimes
<1>7. CASE StartOverlap
  BY <1>7, TimesKept DEF StartOverlap
<1>8. CASE FilterOverlapping
  BY <1>8, TimesKept DEF FilterOverlapping
<1>9. CASE StartExpire
  BY <1>9, TimesKept DEF StartExpire
<1>10. CASE FilterExpired
  BY <1>10, TimesKept DEF FilterExpired
<1>11. CASE Finish
  BY <1>11, TimesKept DEF Finish
<1>. QED
  BY <1>1, <1>2, <1>3, <1>4, <1>5, <1>6, <1>7, <1>8, <1>9, <1>10, <1>11 DEF Next

LEMMA TimesInvariant == Spec => []TimesInv
BY TimesInit, TimesStep, PagesInvariant, PTL DEF Spec

(* Of a service whose dates can be told, every start time calculated is    *)
(* the one of the broadcaster's schedule: calc_date_off() dates no page    *)
(* wrongly, be it the date of the broadcast day that it shows, no date at  *)
(* all, or a page missing before it, and calculate_start_times() counts    *)
(* the days on it right.                                                   *)
THEOREM StartTimesAreTrue == Spec => []TrueTimes
<1>1. PagesInv /\ TimesInv => TrueTimes
  <2>. SUFFICES ASSUME PagesInv, TimesInv, Datable(service),
                       NEW i \in DOMAIN ov, NEW j \in DOMAIN ov[i].slots
                PROVE  ov[i].slots[j].start \in {NoTime, service.starts[ov[i].slots[j].title]}
    BY DEF TrueTimes
  <2>1. OriginInv /\ IsService(service) /\ i \in 1 .. Len(ov) /\ ov[i] \in PageSet
    BY LenProperties DEF TimesInv, PagesInv
  <2>2. j \in 1 .. Len(ov[i].slots)
    BY <2>1, PageParts
  <2>3. PICK k \in PageNumbers(service) :
          /\ Untouched(i) => ov[i] = OnAir(service, k)
          /\ ~Untouched(i) => TrulyDated(service, ov[i], k)
    BY <2>1, OriginOf
  <2>4. CASE Untouched(i)
    <3>1. ov[i] = OnAir(service, k)
      BY <2>3, <2>4
    <3>2. OnAir(service, k).slots[j].start = NoTime
      BY <2>1, <2>2, <3>1, OnAirSlots
    <3>. QED
      BY <3>1, <3>2
  <2>5. CASE ~Untouched(i)
    <3>1. TrulyDated(service, ov[i], k)
      BY <2>3, <2>5
    <3>. QED
      BY <2>1, <2>2, <3>1, DatedLine
  <2>. QED
    BY <2>4, <2>5
<1>. QED
  BY <1>1, PagesInvariant, TimesInvariant, PTL

(* And every stop time calculated by calc_stop_times() is where the next   *)
(* programme of that schedule begins, but for the page of tips, which is   *)
(* no part of the schedule.                                                *)
THEOREM StopTimesAreTrue == Spec => []TrueStops
<1>1. PagesInv /\ TimesInv => TrueStops
  <2>. SUFFICES ASSUME PagesInv, TimesInv, Datable(service),
                       NEW i \in DOMAIN ov, NEW j \in DOMAIN ov[i].slots,
                       ov[i].page # TipsPageNo
                PROVE  TrueStop(service, ov[i].slots[j])
    BY DEF TrueStops, TrueStop
  <2>1. OriginInv /\ IsService(service) /\ i \in 1 .. Len(ov) /\ ov[i] \in PageSet
    BY LenProperties DEF TimesInv, PagesInv
  <2>2. j \in 1 .. Len(ov[i].slots)
    BY <2>1, PageParts
  <2>3. PICK k \in PageNumbers(service) :
          /\ IsFrom(service, ov[i], k)
          /\ Untouched(i) => ov[i] = OnAir(service, k)
          /\ ~Untouched(i) => TrulyDated(service, ov[i], k)
    BY <2>1, OriginOf
  <2>4. k <= Len(service.pages)
    <3>1. k \in 1 .. Len(service.pages)
      BY <2>1, <2>3, TipsFrom
    <3>. QED
      BY <2>1, <3>1, FirstTitle
  <2>5. CASE Untouched(i)
    <3>1. ov[i] = OnAir(service, k)
      BY <2>3, <2>5
    <3>2. OnAir(service, k).slots[j].stop = NoTime
      BY <2>1, <2>2, <3>1, OnAirSlots
    <3>. QED
      BY <3>1, <3>2 DEF TrueStop
  <2>6. CASE ~Untouched(i)
    <3>1. TrulyDated(service, ov[i], k)
      BY <2>3, <2>6
    <3>. QED
      BY <2>1, <2>2, <2>4, <3>1, DatedLine
  <2>. QED
    BY <2>5, <2>6
<1>. QED
  BY <1>1, PagesInvariant, TimesInvariant, PTL

-----------------------------------------------------------------------------
(* Nothing is lost                                                         *)

(* A service that was received completely, as CompleteSchedule asks.       *)
Whole(s) == Datable(s) /\ s.lost = {} /\ FewWraps(s)

(* The next programme is near enough to end this one.                      *)
Soon(s, i) == i < Len(s.starts) /\ s.starts[i + 1] - s.starts[i] < 9 * 60

(* Each page is at its place in the list, or still to come.                *)
PagesThere ==
  /\ phase # "parse" => db = <<>>
  /\ \A k \in 1 .. Len(service.pages) :
       IF k <= Len(ov) THEN IsFrom(service, ov[k], k)
       ELSE k - Len(ov) \in 1 .. Len(db) /\ db[k - Len(ov)] = OnAir(service, k)

(* The last page, which none repeats a slot of, has all its slots: that of *)
(* tips begins with the first programme.                                   *)
LastPageWhole ==
  LET N == Len(service.pages) IN
  N <= Len(ov) /\ ~Untouched(N) /\ Len(service.starts) > 1 =>
    Len(ov[N].slots) = Len(OnAir(service, N).slots)

(* Stop times are after the start, and found where the next programme is   *)
(* near.                                                                   *)
Stopped(k) == phase \in {"overlap", "expire", "done"} \/ (phase = "stop" /\ k < idx)

StopsThere ==
  \A k \in 1 .. Len(ov) : Stopped(k) =>
    \A j \in 1 .. Len(ov[k].slots) :
      LET x == ov[k].slots[j] IN
      /\ x.stop = NoTime \/ x.stop > x.start
      /\ ov[k].page # TipsPageNo /\ Soon(service, x.title) => x.stop # NoTime

(* A slot of the combined list is one of a programme; that of the tips may *)
(* have a wrong stop time.                                                 *)
TrueSlot(s, x) ==
  /\ x.title \in 1 .. Len(s.starts) /\ x.start = s.starts[x.title]
  /\ x.stop = NoTime \/ x.stop > x.start
  /\ x.page <= TipsPageNo
  /\ x.page # TipsPageNo => TrueStop(s, x) /\ (Soon(s, x.title) => x.stop # NoTime)

AllTrue(s, k) == \A n \in 1 .. Len(k) : TrueSlot(s, k[n])

(* Each programme is there once at most.                                   *)
OneEach(k) == \A m, n \in 1 .. Len(k) : m < n => k[m].title < k[n].title

(* A slot of programme i is there, other than on the page of tips.         *)
Listed(k, i) == \E n \in 1 .. Len(k) : k[n].title = i /\ k[n].page # TipsPageNo

NoTips(k) == \A n \in 1 .. Len(k) : k[n].page # TipsPageNo

(* The first filter keeps one slot of each programme, not that of the      *)
(* tips, which is sorted behind the others.                                *)
OverlapInv ==
  phase = "overlap" =>
    /\ AllTrue(service, slots) /\ AllTrue(service, kept)
    /\ OneEach(kept) /\ (kept = <<>> => prev_stop = 0)
    /\ \A m, n \in 1 .. Len(slots) :
         m < n /\ slots[m].start = slots[n].start => slots[m].page <= slots[n].page
    /\ Len(service.starts) > 1 =>
         /\ NoTips(kept)
         /\ \A i \in 1 .. Len(service.starts) : Listed(kept, i) \/ Listed(slots, i)

(* The second one keeps what was still running.                            *)
ExpireInv ==
  phase \in {"expire", "done"} =>
    /\ phase = "done" => slots = <<>>
    /\ AllTrue(service, slots) /\ AllTrue(service, kept)
    /\ OneEach(slots) /\ OneEach(kept)
    /\ \A m \in 1 .. Len(kept), n \in 1 .. Len(slots) : kept[m].title < slots[n].title
    /\ Len(service.starts) > 1 =>
         /\ NoTips(slots) /\ NoTips(kept)
         /\ \A i \in 1 .. Len(service.starts) :
              Soon(service, i) /\ service.starts[i + 1] >= now - ExpireMin =>
                Listed(kept, i) \/ Listed(slots, i)

WholeInv ==
  Whole(service) =>
    PagesThere /\ LastPageWhole /\ StopsThere /\ OverlapInv /\ ExpireInv

(* Complete pages have all their numbers in PageNumbers.                   *)
LEMMA WholeNumbers ==
  ASSUME NEW s, IsService(s), s.lost = {}
  PROVE  /\ Len(s.pages) \in Nat /\ Len(s.pages) >= 1
         /\ \A k \in 1 .. Len(s.pages) : k \in PageNumbers(s) /\ OnAir(s, k) = Shown(s, k)
<1>1. Len(s.pages) \in Nat /\ 1 \in 1 .. Len(s.pages)
  BY FirstTitle
<1>2. ASSUME NEW k \in 1 .. Len(s.pages)
      PROVE  k \in PageNumbers(s) /\ OnAir(s, k) = Shown(s, k)
  <2>1. k \in 1 .. Len(s.pages) + 1 /\ k # Len(s.pages) + 1 /\ k <= Len(s.pages)
    BY <1>1
  <2>. QED
    BY <2>1 DEF PageNumbers, OnAir
<1>. QED
  BY <1>1, <1>2

LEMMA WholeInit == Init => WholeInv
<1>. SUFFICES ASSUME Init, Whole(service)
              PROVE  PagesThere /\ LastPageWhole /\ StopsThere /\ OverlapInv /\ ExpireInv
  BY DEF WholeInv
<1>. DEFINE s == service
            N == Len(s.pages)
<1>1. /\ IsService(s) /\ db = Received(s) /\ ov = <<>> /\ phase = "parse"
      /\ s.lost = {} /\ Len(ov) = 0
  BY EmptySeq DEF Init, Whole
<1>2. PICK g \in Seq((1 .. N) \ s.lost) :
        /\ Range(g) = (1 .. N) \ s.lost
        /\ \A i, j \in 1 .. Len(g) : i < j => g[i] < g[j]
        /\ s.lost = {} => \A i \in 1 .. Len(g) : g[i] = i
        /\ Len(db) = Len(g) + (IF s.tips THEN 1 ELSE 0)
        /\ \A n \in 1 .. Len(g) : db[n] = Shown(s, g[n])
        /\ s.tips => db[Len(g) + 1] = TipsPage(s)
  <2>1. IsService(s) /\ db = Received(s)
    BY <1>1
  <2>. HIDE DEF s
  <2>. QED
    BY <2>1, ReceivedPages
<1>3. N \in Nat /\ N >= 1 /\ \A k \in 1 .. N : OnAir(s, k) = Shown(s, k)
  BY <1>1, WholeNumbers
<1>4. Len(g) \in Nat /\ DOMAIN g = 1 .. Len(g)
  <2>1. g \in Seq((1 .. N) \ s.lost)
    OBVIOUS
  <2>. HIDE DEF N, s
  <2>. QED
    BY <2>1, LenProperties
<1>5. N <= Len(g)
  <2>1. N \in Range(g)
    BY <1>1, <1>2, <1>3
  <2>2. PICK i \in DOMAIN g : g[i] = N
    BY <2>1 DEF Range
  <2>. QED
    BY <1>1, <1>2, <1>4, <2>2
<1>6. ASSUME NEW k \in 1 .. N
      PROVE  ~(k <= Len(ov)) /\ k - Len(ov) \in 1 .. Len(db) /\ db[k - Len(ov)] = OnAir(s, k)
  <2>1. k \in 1 .. Len(g) /\ g[k] = k /\ k - Len(ov) = k /\ k \in 1 .. Len(db)
    BY <1>1, <1>2, <1>3, <1>4, <1>5
  <2>. QED
    BY <1>1, <1>2, <1>3, <2>1
<1>7. PagesThere
  BY <1>1, <1>6 DEF PagesThere
<1>8. LastPageWhole /\ StopsThere /\ OverlapInv /\ ExpireInv
  <2>1. ~(N <= Len(ov))
    BY <1>1, <1>3
  <2>. QED
    BY <1>1, <2>1 DEF LastPageWhole, StopsThere, OverlapInv, ExpireInv, Stopped
<1>. QED
  BY <1>7, <1>8

-----------------------------------------------------------------------------
(* Pages                                                                   *)

(* Parsing a page: none of a service that is received completely is left   *)
(* out or taken for a copy of the one before.                              *)
LEMMA ParsedPage ==
  ASSUME PagesInv, TimesInv, Whole(service), PagesThere, ParsePage
  PROVE  \/ ov' = Append(ov, Head(db))
         \/ ov' = ov /\ Len(ov) >= Len(service.pages)
<1>. DEFINE pg == Head(db)
            N  == Len(service.pages)
<1>1. /\ phase = "parse" /\ IsService(service) /\ Datable(service) /\ Regular(service)
      /\ db \in Seq(PageSet) /\ ov \in Seq(PageSet) /\ db # <<>>
      /\ service.lost = {} /\ FewWraps(service)
  BY DEF ParsePage, PagesInv, Whole, Datable
<1>2. WaitingInv /\ OriginInv
  BY <1>1 DEF TimesInv
<1>3. Len(db) \in Nat /\ Len(ov) \in Nat /\ 1 \in 1 .. Len(db) /\ pg = db[1]
  BY <1>1, HeadTailProperties
<1>4. PICK k \in PageNumbers(service) : pg = OnAir(service, k)
  BY <1>2, <1>3 DEF WaitingInv
<1>5. pg.slots # <<>> /\ IsFrom(service, pg, k)
  <2>1. Len(pg.slots) > 0
    BY <1>1, <1>4, OnAirParts
  <2>2. pg.slots # <<>>
    BY <2>1
  <2>. QED
    BY <1>1, <1>4, <2>2, FromOnAir
<1>6. /\ N \in Nat /\ N >= 1
      /\ \A j \in 1 .. N : j \in PageNumbers(service) /\ OnAir(service, j) = Shown(service, j)
  BY <1>1, WholeNumbers
<1>7. ASSUME ~(Len(ov) >= N) PROVE Plausible(pg)
  <2>1. Len(ov) + 1 \in 1 .. N /\ ~(Len(ov) + 1 <= Len(ov)) /\ Len(ov) + 1 - Len(ov) = 1
    BY <1>3, <1>6, <1>7
  <2>2. pg = OnAir(service, Len(ov) + 1)
    BY <1>3, <2>1 DEF PagesThere
  <2>3. pg = Shown(service, Len(ov) + 1)
    BY <1>6, <2>1, <2>2
  <2>. HIDE DEF pg
  <2>. QED
    BY <1>1, <2>1, <2>3 DEF FewWraps
<1>8. ~(ov # <<>> /\ Redundant(pg, Last(ov)))
  <2>1. SUFFICES ASSUME ov # <<>> PROVE ~Redundant(pg, Last(ov))
    OBVIOUS
  <2>2. Len(ov) \in 1 .. Len(ov) /\ Last(ov) = ov[Len(ov)]
    <3>1. Len(ov) # 0
      BY <1>1, <2>1, EmptySeq
    <3>. QED
      BY <1>3, <3>1 DEF Last
  <2>3. Untouched(Len(ov))
    BY <1>1 DEF Untouched
  <2>4. PICK l \in PageNumbers(service) : Last(ov) = OnAir(service, l)
    BY <1>2, <2>2, <2>3 DEF OriginInv
  <2>5. IsFrom(service, Last(ov), l)
    BY <1>1, <2>4, FromOnAir
  <2>6. PageBefore(Last(ov), pg)
    BY <1>2, <1>3, <2>2 DEF WaitingInv
  <2>. HIDE DEF pg
  <2>7. l < k
    BY <1>1, <1>5, <2>5, <2>6, FromOrder
  <2>. QED
    BY <1>1, <1>4, <2>4, <2>7, NotRedundant
<1>9. ov' = IF pg.slots = <<>> \/ ~Plausible(pg) THEN ov
            ELSE IF ov # <<>> /\ Redundant(pg, Last(ov))
                 THEN [ov EXCEPT ![Len(ov)].skip = @ + 1]
                 ELSE Append(ov, pg)
  BY DEF ParsePage
<1>. HIDE DEF pg
<1>10. ov' = Append(ov, pg) \/ (ov' = ov /\ Len(ov) >= N)
  BY <1>5, <1>7, <1>8, <1>9
<1>. QED
  BY <1>10 DEF pg

LEMMA ParsePageWhole == PagesInv /\ TimesInv /\ WholeInv /\ ParsePage => WholeInv'
<1>. SUFFICES ASSUME PagesInv, TimesInv, WholeInv, ParsePage, Whole(service)
              PROVE  (PagesThere /\ LastPageWhole /\ StopsThere /\ OverlapInv /\ ExpireInv)'
  BY DEF WholeInv, ParsePage
<1>. DEFINE N == Len(service.pages)
<1>1. /\ service' = service /\ phase = "parse" /\ phase' = "parse"
      /\ db \in Seq(PageSet) /\ ov \in Seq(PageSet) /\ db # <<>> /\ db' = Tail(db)
      /\ IsService(service) /\ service.lost = {} /\ PagesThere
  BY DEF ParsePage, PagesInv, Whole, WholeInv
<1>2. /\ Len(db) \in Nat /\ Len(ov) \in Nat /\ 1 \in 1 .. Len(db) /\ Head(db) = db[1]
      /\ Len(db') = Len(db) - 1
      /\ \A n \in 1 .. Len(db') : db'[n] = db[n + 1] /\ n + 1 \in 1 .. Len(db)
  BY <1>1, HeadTailProperties
<1>3. /\ N \in Nat
      /\ \A k \in 1 .. N : k \in PageNumbers(service)
  BY <1>1, WholeNumbers
<1>4. PagesThere'
  <2>1. CASE ov' = Append(ov, Head(db))
    <3>. DEFINE pg == Head(db)
    <3>1. /\ Len(ov') = Len(ov) + 1 /\ ov'[Len(ov) + 1] = pg
          /\ \A k \in 1 .. Len(ov) : ov'[k] = ov[k]
      BY <1>1, <1>2, <2>1, AppendProperties
    <3>. HIDE DEF pg
    <3>2. ASSUME NEW k \in 1 .. N
          PROVE  IF k <= Len(ov') THEN IsFrom(service, ov'[k], k)
                 ELSE k - Len(ov') \in 1 .. Len(db') /\ db'[k - Len(ov')] = OnAir(service, k)
      <4>1. CASE k <= Len(ov)
        <5>1. k \in 1 .. Len(ov) /\ k <= Len(ov')
          BY <1>2, <3>1, <4>1
        <5>2. IsFrom(service, ov[k], k)
          BY <1>1, <4>1 DEF PagesThere
        <5>. QED
          BY <3>1, <5>1, <5>2
      <4>2. CASE k = Len(ov) + 1
        <5>1. ~(k <= Len(ov)) /\ k - Len(ov) = 1 /\ k <= Len(ov')
          BY <1>2, <3>1, <4>2
        <5>2. pg = OnAir(service, k)
          BY <1>1, <1>2, <5>1 DEF PagesThere, pg
        <5>3. IsFrom(service, pg, k)
          BY <1>1, <1>3, <5>2, FromOnAir
        <5>. QED
          BY <3>1, <4>2, <5>1, <5>3
      <4>3. CASE k > Len(ov) + 1
        <5>1. ~(k <= Len(ov)) /\ ~(k <= Len(ov'))
          BY <1>2, <3>1, <4>3
        <5>2. k - Len(ov) \in 1 .. Len(db) /\ db[k - Len(ov)] = OnAir(service, k)
          BY <1>1, <5>1 DEF PagesThere
        <5>3. k - Len(ov') \in 1 .. Len(db') /\ k - Len(ov') + 1 = k - Len(ov)
          BY <1>2, <3>1, <4>3, <5>2
        <5>4. db'[k - Len(ov')] = db[k - Len(ov)]
          BY <1>2, <5>3
        <5>. QED
          BY <5>1, <5>2, <5>3, <5>4
      <4>. QED
        BY <1>2, <1>3, <4>1, <4>2, <4>3
    <3>. QED
      BY <1>1, <3>2 DEF PagesThere
  <2>2. CASE ov' = ov /\ Len(ov) >= N
    <3>1. \A k \in 1 .. N : k <= Len(ov)
      BY <1>2, <1>3, <2>2
    <3>2. \A k \in 1 .. N : IsFrom(service, ov[k], k)
      BY <1>1, <3>1 DEF PagesThere
    <3>. QED
      BY <1>1, <2>2, <3>1, <3>2 DEF PagesThere
  <2>. QED
    BY <1>1, <2>1, <2>2, ParsedPage
<1>5. (LastPageWhole /\ StopsThere /\ OverlapInv /\ ExpireInv)'
  BY <1>1 DEF LastPageWhole, StopsThere, OverlapInv, ExpireInv, Stopped, Untouched
<1>. QED
  BY <1>4, <1>5

LEMMA StartDatesWhole == PagesInv /\ WholeInv /\ StartDates => WholeInv'
<1>. SUFFICES ASSUME PagesInv, WholeInv, StartDates, Whole(service)
              PROVE  (PagesThere /\ LastPageWhole /\ StopsThere /\ OverlapInv /\ ExpireInv)'
  BY DEF WholeInv, StartDates
<1>1. /\ service' = service /\ ov' = ov /\ db' = db /\ db = <<>>
      /\ phase' = "date" /\ idx' = 1 /\ PagesThere /\ IsService(service)
      /\ service.lost = {}
  BY DEF StartDates, WholeInv, PagesInv, Whole
<1>2. Len(service.pages) \in Nat /\ Len(service.pages) >= 1
  BY <1>1, WholeNumbers
<1>3. PagesThere'
  BY <1>1 DEF PagesThere
<1>4. LastPageWhole'
  BY <1>1, <1>2 DEF LastPageWhole, Untouched
<1>5. (StopsThere /\ OverlapInv /\ ExpireInv)'
  BY <1>1 DEF StopsThere, OverlapInv, ExpireInv, Stopped
<1>. QED
  BY <1>3, <1>4, <1>5

(* The pages of the service are in the list when all were parsed.          *)
LEMMA PagesListed ==
  ASSUME PagesInv, Whole(service), PagesThere, phase # "parse"
  PROVE  /\ Len(ov) \in Nat /\ Len(service.pages) \in Nat
         /\ Len(service.pages) \in 1 .. Len(ov)
         /\ \A k \in 1 .. Len(service.pages) :
              k \in 1 .. Len(ov) /\ IsFrom(service, ov[k], k) /\ k \in PageNumbers(service)
<1>. DEFINE N == Len(service.pages)
<1>1. IsService(service) /\ service.lost = {} /\ ov \in Seq(PageSet) /\ Len(ov) \in Nat
  BY DEF PagesInv, Whole
<1>2. N \in Nat /\ N >= 1 /\ \A k \in 1 .. N : k \in PageNumbers(service)
  BY <1>1, WholeNumbers
<1>3. Len(db) = 0
  BY EmptySeq DEF PagesThere
<1>4. \A k \in 1 .. N : k <= Len(ov)
  BY <1>3 DEF PagesThere
<1>5. \A k \in 1 .. N : IsFrom(service, ov[k], k)
  BY <1>4 DEF PagesThere
<1>6. N \in 1 .. N
  BY <1>2
<1>. QED
  BY <1>1, <1>2, <1>4, <1>5, <1>6

(* The index says which page one in the list is.                           *)
LEMMA PlaceOfPage ==
  ASSUME PagesInv, TimesInv, Whole(service), PagesThere, phase # "parse",
         NEW i \in 1 .. Len(ov), NEW k \in PageNumbers(service), IsFrom(service, ov[i], k)
  PROVE  /\ i \in 1 .. Len(service.pages) => k = i
         /\ i \notin 1 .. Len(service.pages) =>
              k = Len(service.pages) + 1 /\ i = Len(ov) /\ i = Len(service.pages) + 1
         /\ ov[i].page = TipsPageNo <=> i \notin 1 .. Len(service.pages)
<1>. DEFINE N == Len(service.pages)
<1>1. IsService(service) /\ Datable(service) /\ OriginInv
  BY DEF PagesInv, Whole, TimesInv
<1>2. /\ Len(ov) \in Nat /\ N \in Nat /\ N \in 1 .. Len(ov)
      /\ \A j \in 1 .. N :
           j \in 1 .. Len(ov) /\ IsFrom(service, ov[j], j) /\ j \in PageNumbers(service)
  BY PagesListed
<1>3. i \in 1 .. N => k = i
  BY <1>1, <1>2, FromOnePage
<1>4. \A j \in 1 .. Len(ov) : j \notin 1 .. N =>
        \A l \in PageNumbers(service) : IsFrom(service, ov[j], l) => l = N + 1
  <2>1. ASSUME NEW j \in 1 .. Len(ov), j \notin 1 .. N,
               NEW l \in PageNumbers(service), IsFrom(service, ov[j], l)
        PROVE  l = N + 1
    <3>1. N < j /\ N \in 1 .. N
      BY <1>2, <2>1
    <3>2. PageBefore(ov[N], ov[j])
      BY <1>1, <1>2, <3>1 DEF OriginInv
    <3>3. N < l
      BY <1>1, <1>2, <2>1, <3>1, <3>2, FromOrder
    <3>4. l \in 1 .. N + 1
      BY <1>1, OnAirParts
    <3>. QED
      BY <1>2, <3>3, <3>4
  <2>. QED
    BY <2>1
<1>5. i \notin 1 .. N => k = N + 1
  BY <1>4
<1>6. ASSUME i \notin 1 .. N PROVE i = Len(ov) /\ i = N + 1
  <2>1. ASSUME NEW m \in 1 .. Len(ov), NEW n \in 1 .. Len(ov), m < n, m \notin 1 .. N
        PROVE  FALSE
    <3>1. PICK l \in PageNumbers(service) : IsFrom(service, ov[m], l)
      BY <1>1, OriginOf
    <3>2. PICK h \in PageNumbers(service) : IsFrom(service, ov[n], h)
      BY <1>1, OriginOf
    <3>3. PageBefore(ov[m], ov[n])
      BY <1>1, <2>1 DEF OriginInv
    <3>4. l < h
      BY <1>1, <3>1, <3>2, <3>3, FromOrder
    <3>5. l = N + 1 /\ h \in 1 .. N + 1
      BY <1>1, <1>4, <2>1, <3>1, OnAirParts
    <3>. QED
      BY <1>2, <3>4, <3>5
  <2>2. Len(ov) \in 1 .. Len(ov) /\ N + 1 \in 1 .. Len(ov) /\ N + 1 \notin 1 .. N /\ i >= N + 1
    BY <1>2, <1>6
  <2>3. ~(i < Len(ov)) /\ ~(N + 1 < i)
    BY <1>6, <2>1, <2>2
  <2>. QED
    BY <1>2, <2>2, <2>3
<1>7. ov[i].page = TipsPageNo <=> k \notin 1 .. N
  BY <1>1, TipsFrom
<1>8. N + 1 \notin 1 .. N
  BY <1>2
<1>. QED
  BY <1>3, <1>5, <1>6, <1>7, <1>8

(* The date of each page is found: from its header, or from the page       *)
(* before, which is there.                                                 *)
LEMMA DateFound ==
  ASSUME PagesInv, TimesInv, Whole(service), PagesThere, phase = "date",
         idx \in 1 .. Len(service.pages)
  PROVE  CalcDate(idx) # NoDate
<1>. DEFINE s == service
            N == Len(s.pages)
<1>1. /\ IsService(s) /\ Datable(s) /\ Regular(s) /\ phase # "parse"
      /\ \A i \in 1 .. idx - 1 : IsDated(ov[i])
  BY DEF PagesInv, Whole, Datable
<1>2. /\ Len(ov) \in Nat /\ N \in Nat /\ N \in 1 .. Len(ov)
      /\ \A j \in 1 .. N :
           j \in 1 .. Len(ov) /\ IsFrom(s, ov[j], j) /\ j \in PageNumbers(s)
  BY <1>1, PagesListed
<1>3. idx \in 1 .. Len(ov) /\ idx \in PageNumbers(s) /\ idx <= Len(ov) /\ idx \in Nat
  BY <1>2
<1>4. PICK k \in PageNumbers(s) :
        /\ ov[idx] = OnAir(s, k)
        /\ RightDate(s, CalcDate(idx), k)
        /\ idx > 1 => \E l \in PageNumbers(s) :
             /\ l < k /\ TrulyDated(s, ov[idx - 1], l)
             /\ Len(ov[idx - 1].slots) = Len(OnAir(s, l).slots)
  BY <1>1, <1>3, DateOfPage
<1>5. k = idx
  <2>1. IsFrom(s, ov[idx], k)
    BY <1>1, <1>4, FromOnAir
  <2>. QED
    BY <1>1, <1>3, <2>1, PlaceOfPage
<1>6. s.dates \in {"calendar", "broadcast", "once"}
  BY <1>1, ServiceParts
<1>7. CASE s.dates = "broadcast"
  BY <1>4, <1>5, <1>7 DEF RightDate, NoDate
<1>. DEFINE pg      == ov[idx]
            prev    == ov[idx - 1]
            f       == FirstStart(s, idx)
            delta   == IF pg.date # NoDate THEN Delta(prev.date, pg.date) ELSE 0
            outlier == delta >= MaxOvPageDateDelta \/ (delta < 0 /\ Delta(ov[1].date, pg.date) < 0)
            follows == ~outlier /\ Adjacent(prev, pg)
                       /\ (delta = 0 \/ (delta = -1 /\ prev.date.off = 1))
            newDay  == follows /\ (delta = -1 \/ pg.slots[1].hour < prev.slots[1].hour)
            off     == IF newDay THEN 1 ELSE 0
<1>8. /\ DayOf(f) \in Nat
      /\ s.dates = "calendar" \/ (s.dates = "once" /\ idx = 1)
           => pg.date = [day |-> DayOf(f), off |-> 0]
      /\ s.dates = "once" /\ idx # 1 => pg.date = NoDate
  <2>. HIDE DEF f, s
  <2>. QED
    BY <1>1, <1>3, <1>4, <1>5, HeaderDates DEF f, s
<1>9. /\ \A n \in Nat : [day |-> n, off |-> 0] # NoDate
      /\ \A o \in Int : \A d \in [day : Nat, off : Nat] : [d EXCEPT !.off = @ + o] # NoDate
      /\ \A o \in Int : \A n \in Nat : [[day |-> n, off |-> 0] EXCEPT !.off = @ + o] # NoDate
  BY DEF NoDate
<1>10. CASE idx = 1 /\ s.dates # "broadcast"
  <2>1. pg.date = [day |-> DayOf(f), off |-> 0] /\ pg.date # NoDate
    BY <1>6, <1>8, <1>9, <1>10
  <2>2. CalcDate(idx) = IF pg.date # NoDate THEN [pg.date EXCEPT !.off = @ + 0] ELSE NoDate
    BY <1>10, CalcDateParts
  <2>. HIDE DEF pg, f
  <2>. QED
    BY <1>8, <1>9, <2>1, <2>2
<1>11. CASE idx > 1 /\ s.dates # "broadcast"
  <2>. DEFINE e == FirstStart(s, idx - 1)
  <2>1. PICK l \in PageNumbers(s) :
          /\ TrulyDated(s, prev, l)
          /\ Len(prev.slots) = Len(OnAir(s, l).slots)
    BY <1>4, <1>11
  <2>2. /\ idx - 1 \in 1 .. Len(ov) /\ idx - 1 \in 1 .. N /\ idx - 1 \in 1 .. idx - 1
        /\ idx - 1 < idx /\ idx = (idx - 1) + 1 /\ idx # 1
    BY <1>2, <1>3, <1>11
  <2>3. l = idx - 1
    <3>1. IsFrom(s, ov[idx - 1], l)
      BY <2>1 DEF TrulyDated
    <3>. QED
      BY <1>1, <2>2, <3>1, PlaceOfPage
  <2>4. prev.slots # <<>>
    <3>1. Len(prev.slots) > 0
      BY <1>1, <2>1, OnAirParts
    <3>2. Len(<<>>) = 0
      BY EmptySeq
    <3>. QED
      BY <3>1, <3>2
  <2>5. CalcDate(idx) = IF pg.date # NoDate /\ ~outlier THEN [pg.date EXCEPT !.off = @ + off]
                        ELSE IF follows THEN [prev.date EXCEPT !.off = @ + off] ELSE NoDate
    BY <1>11, <2>2, <2>4, CalcDateParts
  <2>6. off \in Int
    OBVIOUS
  <2>7. prev.date \in [day : Nat, off : Nat] /\ prev.date.day + prev.date.off = DayOf(e)
    BY <1>1, <2>1, <2>2, <2>3 DEF TrulyDated, TrueDate, IsDated
  <2>8. CASE s.dates = "calendar"
    <3>1. pg.date = [day |-> DayOf(f), off |-> 0] /\ pg.date # NoDate
      BY <1>8, <1>9, <2>8
    <3>2. delta = DayOf(f) - DayOf(e)
      BY <1>8, <2>7, <3>1 DEF Delta
    <3>3. /\ e \in Nat /\ f \in Nat /\ e < f /\ WithinDay(e, f)
      BY <1>1, <2>2, NextPageStart
    <3>4. DayOf(f) = DayOf(e) \/ DayOf(f) = DayOf(e) + 1
      BY <3>3, NextDay
    <3>5. DayOf(e) \in Nat
      BY <3>3, TimeParts
    <3>6. delta \in {0, 1}
      BY <1>8, <3>2, <3>4, <3>5
    <3>. HIDE DEF delta
    <3>7. ~outlier
      BY <3>6 DEF MaxOvPageDateDelta
    <3>. HIDE DEF outlier, off, f, pg
    <3>. QED
      BY <1>8, <1>9, <2>5, <2>6, <3>1, <3>7
  <2>9. CASE s.dates = "once"
    <3>1. pg.date = NoDate /\ delta = 0
      BY <1>8, <2>2, <2>9
    <3>2. Adjacent(prev, pg)
      BY <1>1, <1>2, <1>3, <2>2, AdjacentPages
    <3>3. follows
      <4>. HIDE DEF delta, pg, prev
      <4>. QED
        BY <3>1, <3>2 DEF MaxOvPageDateDelta
    <3>. HIDE DEF follows, off, outlier, pg, prev
    <3>. QED
      BY <1>9, <2>5, <2>6, <2>7, <3>1, <3>3
  <2>. QED
    BY <1>6, <1>11, <2>8, <2>9
<1>. QED
  BY <1>3, <1>7, <1>10, <1>11

(* The tips begin with the first programme, the last page ends with the    *)
(* last one, which is another.                                             *)
LEMMA TipsNotRepeated ==
  ASSUME NEW s, IsService(s), Len(s.starts) > 1,
         NEW l \in PageNumbers(s), l = Len(s.pages),
         NEW k \in PageNumbers(s), k = Len(s.pages) + 1,
         NEW prev \in PageSet, TrulyDated(s, prev, l),
         Len(prev.slots) = Len(OnAir(s, l).slots),
         NEW pg \in PageSet, TrulyDated(s, pg, k),
         Len(pg.slots) = Len(OnAir(s, k).slots)
  PROVE  DropRepeated(prev, pg) = prev
<1>. DEFINE n == Len(prev.slots)
<1>1. Len(s.pages) \in Nat /\ l \in 1 .. Len(s.pages) /\ Len(s.starts) \in Nat
  BY FirstTitle, ServiceParts
<1>2. n > 0 /\ Len(pg.slots) > 0 /\ n \in Nat /\ Len(pg.slots) \in Nat
  BY OnAirParts, PageParts
<1>3. n \in 1 .. n /\ 1 \in 1 .. Len(pg.slots)
  BY <1>2
<1>4. prev.slots[n].title = Len(s.starts)
  <2>1. prev.slots[n].title = TitleOn(s, l, n)
    BY <1>3, DatedLine
  <2>2. n = LastTitle(s, l) - s.first[l] + 1
    <3>1. OnAir(s, l) = Shown(s, l)
      BY <1>1 DEF OnAir
    <3>2. Len(Shown(s, l).slots) = LastTitle(s, l) - s.first[l] + 1
      BY <1>1, ShownPage
    <3>. QED
      BY <3>1, <3>2
  <2>3. s.first[l] \in 1 .. Len(s.starts) /\ LastTitle(s, l) = Len(s.starts)
    BY <1>1, PageTitles DEF LastTitle
  <2>4. TitleOn(s, l, n) = s.first[l] + n - 1
    BY <1>1 DEF TitleOn
  <2>. HIDE DEF n
  <2>5. s.first[l] + n - 1 = Len(s.starts)
    BY <1>1, <1>2, <2>2, <2>3
  <2>. QED
    BY <2>1, <2>4, <2>5
<1>5. pg.slots[1].title = 1
  <2>1. pg.slots[1].title = TitleOn(s, k, 1)
    BY <1>3, DatedLine
  <2>2. ~(k <= Len(s.pages)) /\ 2 * 1 - 1 = 1
    BY <1>1
  <2>. QED
    BY <2>1, <2>2 DEF TitleOn
<1>6. ~SameSlot(Last(prev.slots), pg.slots[1])
  <2>1. Last(prev.slots) = prev.slots[n]
    BY DEF Last
  <2>. HIDE DEF n
  <2>2. Len(s.starts) # 1
    <3>1. \A m \in Nat : m > 1 => m # 1
      OBVIOUS
    <3>2. Len(s.starts) \in Nat /\ Len(s.starts) > 1
      BY <1>1
    <3>. QED
      BY <3>1, <3>2
  <2>. QED
    BY <1>4, <1>5, <2>1, <2>2 DEF SameSlot
<1>. QED
  BY <1>6 DEF DropRepeated

(* What DatePage makes of the list when the date is known.                 *)
LEMMA DatedList ==
  ASSUME PagesInv, TimesInv, Datable(service), DatePage, CalcDate(idx) # NoDate,
         NEW k \in PageNumbers(service), IsFrom(service, ov[idx], k)
  PROVE  LET pg == Dated(ov[idx], CalcDate(idx)) IN
         /\ idx \in 1 .. Len(ov) /\ Len(ov) \in Nat /\ Len(ov') = Len(ov)
         /\ phase' = "date" /\ idx' = idx + 1 /\ service' = service /\ db' = db
         /\ pg \in PageSet /\ TrulyDated(service, pg, k)
         /\ Len(pg.slots) = Len(OnAir(service, k).slots)
         /\ ov'[idx] = pg
         /\ idx > 1 => ov'[idx - 1] = DropRepeated(ov[idx - 1], pg)
         /\ \A i \in 1 .. Len(ov) : i # idx /\ i # idx - 1 => ov'[i] = ov[i]
         /\ \A i \in 1 .. Len(ov) : \A m : IsFrom(service, ov'[i], m) <=> IsFrom(service, ov[i], m)
<1>. DEFINE date == CalcDate(idx)
            pg   == Dated(ov[idx], date)
<1>1. /\ IsService(service) /\ Regular(service) /\ Len(ov) \in Nat
      /\ idx \in 1 .. Len(ov) /\ idx \in Nat
      /\ phase = "date" /\ phase' = "date" /\ service' = service /\ db' = db
      /\ idx' = idx + 1
      /\ \A i \in 1 .. Len(ov) : ov[i] \in PageSet
      /\ \A i \in 1 .. idx - 1 : IsDated(ov[i])
  BY DEF PagesInv, DatePage, Datable
<1>2. ov' = [i \in 1 .. Len(ov) |->
               IF i = idx THEN pg
               ELSE IF i = idx - 1 THEN DropRepeated(ov[i], pg) ELSE ov[i]]
  <2>1. DOMAIN ov = 1 .. Len(ov)
    BY LenProperties DEF PagesInv
  <2>. QED
    BY <2>1 DEF DatePage
<1>3. ov[idx] = OnAir(service, k) /\ RightDate(service, date, k)
  <2>1. PICK j \in PageNumbers(service) : ov[idx] = OnAir(service, j) /\ RightDate(service, date, j)
    BY <1>1, DateOfPage
  <2>2. IsFrom(service, ov[idx], j)
    BY <1>1, <2>1, FromOnAir
  <2>3. j = k
    BY <1>1, <2>2, FromOnePage
  <2>. QED
    BY <2>1, <2>3
<1>4. date \in [day : Nat, off : Nat] /\ TrueDate(service, date, k)
  BY <1>3 DEF RightDate
<1>5. /\ pg \in PageSet /\ TrulyDated(service, pg, k)
      /\ Len(pg.slots) = Len(OnAir(service, k).slots)
  <2>. HIDE DEF date
  <2>. QED
    BY <1>1, <1>3, <1>4, TrulyDatedPage
<1>. HIDE DEF pg, date
<1>6. /\ Len(ov') = Len(ov) /\ ov'[idx] = pg
      /\ idx > 1 => ov'[idx - 1] = DropRepeated(ov[idx - 1], pg)
      /\ \A i \in 1 .. Len(ov) : i # idx /\ i # idx - 1 => ov'[i] = ov[i]
  <2>1. ov' \in [1 .. Len(ov) -> {ov'[i] : i \in 1 .. Len(ov)}]
    BY <1>2
  <2>2. ov' \in Seq({ov'[i] : i \in 1 .. Len(ov)}) /\ DOMAIN ov' = 1 .. Len(ov)
    BY <1>1, <2>1, SeqDef
  <2>3. Len(ov') = Len(ov)
    BY <1>1, <2>2, LenProperties
  <2>4. idx # idx - 1 /\ (idx > 1 => idx - 1 \in 1 .. Len(ov))
    BY <1>1
  <2>. QED
    BY <1>1, <1>2, <2>3, <2>4
<1>7. ASSUME NEW i \in 1 .. Len(ov), NEW m
      PROVE  IsFrom(service, ov'[i], m) <=> IsFrom(service, ov[i], m)
  <2>1. CASE i = idx
    <3>1. IsFrom(service, pg, k) /\ IsFrom(service, ov[idx], k)
      BY <1>5 DEF TrulyDated
    <3>. QED
      BY <1>6, <2>1, <3>1 DEF IsFrom
  <2>2. CASE i = idx - 1
    <3>1. idx > 1 /\ i \in 1 .. idx - 1
      BY <1>1, <2>2
    <3>2. ov'[i] = DropRepeated(ov[i], pg) /\ ov[i] \in PageSet /\ IsDated(ov[i])
      BY <1>1, <1>6, <2>2, <3>1
    <3>3. ov'[i].page = ov[i].page /\ ov'[i].sub = ov[i].sub /\ ov'[i].skip = ov[i].skip
      BY <3>2, DroppedPage
    <3>. QED
      BY <3>3 DEF IsFrom
  <2>3. CASE i # idx /\ i # idx - 1
    BY <1>6, <2>3
  <2>. QED
    BY <2>1, <2>2, <2>3
<1>. QED
  BY <1>1, <1>5, <1>6, <1>7 DEF pg, date

LEMMA DatePageWhole == PagesInv /\ TimesInv /\ WholeInv /\ DatePage => WholeInv'
<1>. SUFFICES ASSUME PagesInv, TimesInv, WholeInv, DatePage, Whole(service)
              PROVE  (PagesThere /\ LastPageWhole /\ StopsThere /\ OverlapInv /\ ExpireInv)'
  BY DEF WholeInv, DatePage
<1>. DEFINE N == Len(service.pages)
<1>1. /\ PagesThere /\ LastPageWhole /\ Datable(service) /\ IsService(service)
      /\ phase = "date" /\ phase' = "date" /\ phase # "parse"
      /\ service' = service /\ db' = db /\ ov \in Seq(PageSet)
      /\ idx \in 1 .. Len(ov) /\ idx \in Nat /\ db = <<>>
      /\ \A i \in 1 .. Len(ov) : ov[i] \in PageSet
  BY DEF WholeInv, Whole, DatePage, PagesInv, PagesThere
<1>2. /\ Len(ov) \in Nat /\ N \in Nat /\ N \in 1 .. Len(ov)
      /\ \A k \in 1 .. N :
           k \in 1 .. Len(ov) /\ IsFrom(service, ov[k], k) /\ k \in PageNumbers(service)
  BY <1>1, PagesListed
<1>3. (StopsThere /\ OverlapInv /\ ExpireInv)'
  BY <1>1 DEF StopsThere, OverlapInv, ExpireInv, Stopped
<1>4. CASE CalcDate(idx) = NoDate
  <2>1. N < idx
    <3>1. idx \notin 1 .. N
      BY <1>1, <1>4, DateFound
    <3>. QED
      BY <1>1, <1>2, <3>1
  <2>2. /\ idx' = idx /\ ov' = RemoveAt(ov, idx)
    BY <1>4 DEF DatePage
  <2>3. /\ Len(ov') = Len(ov) - 1
        /\ \A k \in 1 .. N : k <= Len(ov') /\ ov'[k] = ov[k]
    <3>1. /\ Len(ov') = Len(ov) - 1
          /\ \A j \in 1 .. idx - 1 : ov'[j] = ov[j]
      BY <1>1, <2>2, SequenceRemoved
    <3>2. \A k \in 1 .. N : k \in 1 .. idx - 1 /\ k <= Len(ov) - 1
      BY <1>1, <1>2, <2>1
    <3>. QED
      BY <3>1, <3>2
  <2>4. PagesThere'
    BY <1>1, <1>2, <2>3 DEF PagesThere
  <2>5. LastPageWhole'
    <3>1. N \in 1 .. N /\ N <= Len(ov)
      BY <1>2
    <3>2. ov'[N] = ov[N] /\ (Untouched(N)' <=> Untouched(N))
      BY <1>1, <2>2, <2>3, <3>1 DEF Untouched
    <3>. QED
      BY <1>1, <3>1, <3>2 DEF LastPageWhole
  <2>. QED
    BY <1>3, <2>4, <2>5
<1>5. CASE CalcDate(idx) # NoDate
  <2>. DEFINE pg == Dated(ov[idx], CalcDate(idx))
  <2>1. PICK k \in PageNumbers(service) : IsFrom(service, ov[idx], k)
    BY <1>1, OriginOf DEF TimesInv
  <2>2. /\ Len(ov') = Len(ov) /\ idx' = idx + 1
        /\ pg \in PageSet /\ TrulyDated(service, pg, k)
        /\ Len(pg.slots) = Len(OnAir(service, k).slots)
        /\ ov'[idx] = pg
        /\ idx > 1 => ov'[idx - 1] = DropRepeated(ov[idx - 1], pg)
        /\ \A i \in 1 .. Len(ov) : i # idx /\ i # idx - 1 => ov'[i] = ov[i]
        /\ \A i \in 1 .. Len(ov) : \A m :
             IsFrom(service, ov'[i], m) <=> IsFrom(service, ov[i], m)
    BY <1>1, <1>5, <2>1, DatedList
  <2>. HIDE DEF pg
  <2>3. PagesThere'
    <3>1. ASSUME NEW i \in 1 .. N PROVE i <= Len(ov') /\ IsFrom(service, ov'[i], i)
      <4>1. i \in 1 .. Len(ov) /\ IsFrom(service, ov[i], i)
        BY <1>2
      <4>2. IsFrom(service, ov'[i], i)
        BY <2>2, <4>1
      <4>3. i <= Len(ov')
        BY <1>2, <2>2, <4>1
      <4>. QED
        BY <4>2, <4>3
    <3>. QED
      BY <1>1, <3>1 DEF PagesThere
  <2>4. LastPageWhole'
    <3>1. SUFFICES ASSUME ~Untouched(N)', Len(service.starts) > 1
                   PROVE  Len(ov'[N].slots) = Len(OnAir(service, N).slots)
      BY <1>1 DEF LastPageWhole
    <3>2. /\ N <= idx /\ N \in 1 .. N /\ N \in PageNumbers(service)
          /\ idx = N \/ idx - 1 = N \/ (idx # N /\ idx - 1 # N)
      BY <1>1, <1>2, <2>2, <3>1 DEF Untouched
    <3>3. idx \in 1 .. N => k = idx
      BY <1>1, <2>1, PlaceOfPage
    <3>4. CASE idx = N
      BY <2>2, <3>2, <3>3, <3>4
    <3>5. ASSUME idx # N
          PROVE  /\ Len(ov[N].slots) = Len(OnAir(service, N).slots)
                 /\ TrulyDated(service, ov[N], N)
      <4>1. ~Untouched(N) /\ N <= Len(ov)
        BY <1>1, <1>2, <3>2, <3>5 DEF Untouched
      <4>2. Len(ov[N].slots) = Len(OnAir(service, N).slots)
        BY <3>1, <4>1, <1>1 DEF LastPageWhole
      <4>3. PICK l \in PageNumbers(service) :
              IsFrom(service, ov[N], l) /\ TrulyDated(service, ov[N], l)
        BY <1>1, <1>2, <4>1, OriginOf DEF TimesInv
      <4>4. l = N
        BY <1>1, <1>2, <3>2, <4>3, PlaceOfPage
      <4>. QED
        BY <4>2, <4>3, <4>4
    <3>6. CASE idx - 1 = N
      <4>1. idx > 1 /\ idx \notin 1 .. N /\ idx # N
        BY <1>1, <1>2, <3>6
      <4>2. k = N + 1
        BY <1>1, <2>1, <4>1, PlaceOfPage
      <4>3. ov[N] \in PageSet
        BY <1>1, <1>2
      <4>4. DropRepeated(ov[N], pg) = ov[N]
        BY <1>1, <2>2, <3>1, <3>2, <3>5, <4>1, <4>2, <4>3, TipsNotRepeated
      <4>. QED
        BY <2>2, <3>5, <3>6, <4>1, <4>4
    <3>7. CASE idx # N /\ idx - 1 # N
      <4>1. ov'[N] = ov[N]
        BY <1>2, <2>2, <3>7
      <4>. QED
        BY <3>5, <3>7, <4>1
    <3>. QED
      BY <3>2, <3>4, <3>6, <3>7
  <2>. QED
    BY <1>3, <2>3, <2>4
<1>. QED
  BY <1>4, <1>5

LEMMA StartStopsWhole == PagesInv /\ WholeInv /\ StartStops => WholeInv'
<1>. SUFFICES ASSUME PagesInv, WholeInv, StartStops, Whole(service)
              PROVE  (PagesThere /\ LastPageWhole /\ StopsThere /\ OverlapInv /\ ExpireInv)'
  BY DEF WholeInv, StartStops
<1>1. /\ service' = service /\ ov' = ov /\ db' = db
      /\ phase = "date" /\ phase' = "stop" /\ idx > Len(ov) /\ idx' = 1
      /\ PagesThere /\ LastPageWhole /\ idx \in Nat /\ Len(ov) \in Nat
      /\ IsService(service)
  BY DEF StartStops, WholeInv, PagesInv
<1>2. PagesThere'
  BY <1>1 DEF PagesThere
<1>3. LastPageWhole'
  <2>1. Len(service.pages) \in Nat
    BY <1>1, FirstTitle
  <2>2. Len(service.pages) <= Len(ov) => ~Untouched(Len(service.pages))
    BY <1>1, <2>1 DEF Untouched
  <2>. QED
    BY <1>1, <2>2 DEF LastPageWhole
<1>4. StopsThere'
  BY <1>1 DEF StopsThere, Stopped
<1>5. (OverlapInv /\ ExpireInv)'
  BY <1>1 DEF OverlapInv, ExpireInv
<1>. QED
  BY <1>2, <1>3, <1>4, <1>5

-----------------------------------------------------------------------------
(* Stop times                                                              *)

(* What is known of a page and the next one when stop times are looked for.*)
LEMMA StoppingPage ==
  ASSUME PagesInv, TimesInv, Whole(service), PagesThere, phase = "stop",
         NEW i \in 1 .. Len(ov)
  PROVE  \E k \in PageNumbers(service) :
           /\ TrulyDated(service, ov[i], k)
           /\ i \in 1 .. Len(service.pages) => k = i
           /\ i \notin 1 .. Len(service.pages) => k = Len(service.pages) + 1 /\ i = Len(ov)
           /\ ov[i].page = TipsPageNo <=> i \notin 1 .. Len(service.pages)
           /\ i < Len(ov) => \E l \in PageNumbers(service) :
                               /\ k < l /\ TrulyDated(service, ov[i + 1], l)
                               /\ NoRepetition(service, ov[i], ov[i + 1])
<1>1. /\ IsService(service) /\ Len(ov) \in Nat /\ phase # "parse"
      /\ OriginInv /\ RepetitionInv
  BY DEF PagesInv, TimesInv, Whole
<1>2. \A n : ~Untouched(n)
  BY DEF Untouched
<1>3. PICK k \in PageNumbers(service) : IsFrom(service, ov[i], k) /\ TrulyDated(service, ov[i], k)
  BY <1>1, <1>2, OriginOf
<1>4. /\ i \in 1 .. Len(service.pages) => k = i
      /\ i \notin 1 .. Len(service.pages) => k = Len(service.pages) + 1 /\ i = Len(ov)
      /\ ov[i].page = TipsPageNo <=> i \notin 1 .. Len(service.pages)
  BY <1>1, <1>3, PlaceOfPage
<1>5. ASSUME i < Len(ov)
      PROVE  \E l \in PageNumbers(service) :
               /\ k < l /\ TrulyDated(service, ov[i + 1], l)
               /\ NoRepetition(service, ov[i], ov[i + 1])
  <2>1. i + 1 \in 1 .. Len(ov) /\ i \in 1 .. Len(ov) - 1 /\ i < i + 1
    BY <1>1, <1>5
  <2>2. PICK l \in PageNumbers(service) :
          IsFrom(service, ov[i + 1], l) /\ TrulyDated(service, ov[i + 1], l)
    BY <1>1, <1>2, <2>1, OriginOf
  <2>3. PageBefore(ov[i], ov[i + 1])
    BY <1>1, <2>1 DEF OriginInv
  <2>4. k < l
    BY <1>1, <1>3, <2>2, <2>3, FromOrder
  <2>5. NoRepetition(service, ov[i], ov[i + 1])
    BY <1>1, <1>2, <2>1 DEF RepetitionInv
  <2>. QED
    BY <2>2, <2>4, <2>5
<1>. QED
  BY <1>3, <1>4, <1>5

(* A slot of the tips ends with the next tip, if any.                      *)
LEMMA TipsStop ==
  ASSUME PagesInv, TimesInv, Whole(service), PagesThere, phase = "stop",
         NEW i \in 1 .. Len(ov), ov[i].page = TipsPageNo, NEW j \in 1 .. Len(ov[i].slots)
  PROVE  StopTime(i, j) = NoTime \/ StopTime(i, j) > ov[i].slots[j].start
<1>. DEFINE s == service
            N == Len(s.pages)
            x == ov[i].slots[j]
<1>1. /\ IsService(s) /\ Regular(s) /\ ov[i] \in PageSet /\ Len(ov) \in Nat
  BY DEF PagesInv, Whole, Datable
<1>2. PICK k \in PageNumbers(s) : TrulyDated(s, ov[i], k) /\ k = N + 1 /\ i = Len(ov)
  BY StoppingPage
<1>3. ~(i < Len(ov)) /\ ~(k <= N) /\ N \in Nat
  BY <1>1, <1>2, FirstTitle
<1>4. /\ j \in 1 .. Len(OnAir(s, k).slots) /\ x.end = OnAir(s, k).slots[j].end
      /\ Len(ov[i].slots) \in Nat /\ Len(ov[i].slots) <= Len(OnAir(s, k).slots)
      /\ Len(OnAir(s, k).slots) \in Nat
  <2>1. Len(ov[i].slots) \in Nat
    BY <1>1, PageParts
  <2>2. Len(OnAir(s, k).slots) \in Nat
    BY <1>1, OnAirParts, PageParts
  <2>3. j \in 1 .. Len(OnAir(s, k).slots)
    BY <1>1, <1>2, DatedLine
  <2>. QED
    BY <1>2, <2>1, <2>2, <2>3 DEF TrulyDated
<1>5. x.end = NoTime
  BY <1>1, <1>3, <1>4, OnAirSlots
<1>6. CASE ~(j < Len(ov[i].slots))
  BY <1>3, <1>5, <1>6 DEF StopTime
<1>7. CASE j < Len(ov[i].slots)
  <2>. DEFINE y == ov[i].slots[j + 1]
  <2>1. /\ j + 1 \in 1 .. Len(ov[i].slots) /\ j + 1 \in 2 .. Len(OnAir(s, k).slots)
        /\ (j + 1) - 1 = j
    BY <1>4, <1>7
  <2>2. x.start = s.starts[TitleOn(s, k, j)] /\ y.start = s.starts[TitleOn(s, k, j + 1)]
    <3>1. x.title = TitleOn(s, k, j) /\ x.start = s.starts[x.title]
      BY <1>1, <1>2, DatedLine
    <3>2. y.title = TitleOn(s, k, j + 1) /\ y.start = s.starts[y.title]
      BY <1>1, <1>2, <2>1, DatedLine
    <3>. QED
      BY <3>1, <3>2
  <2>3. x.start \in Nat /\ y.start \in Nat /\ x.start < y.start
    BY <1>1, <2>1, <2>2, NextLine
  <2>4. StopTime(i, j) = y.start
    BY <1>5, <1>7, <2>3 DEF StopTime
  <2>. QED
    BY <2>3, <2>4
<1>. QED
  BY <1>6, <1>7

(* A slot of the schedule ends when the next programme begins, and this is *)
(* found when it is near: the page that lists it is there and adjacent.    *)
LEMMA NearStop ==
  ASSUME PagesInv, TimesInv, Whole(service), PagesThere, LastPageWhole, phase = "stop",
         NEW i \in 1 .. Len(ov), ov[i].page # TipsPageNo, NEW j \in 1 .. Len(ov[i].slots)
  PROVE  LET x == ov[i].slots[j] IN
         /\ StopTime(i, j) = NoTime \/ StopTime(i, j) > x.start
         /\ Soon(service, x.title) => StopTime(i, j) # NoTime
<1>. DEFINE s == service
            N == Len(s.pages)
            x == ov[i].slots[j]
<1>1. /\ IsService(s) /\ Datable(s) /\ Regular(s) /\ ov[i] \in PageSet /\ Len(ov) \in Nat
      /\ \A n \in 1 .. Len(ov) : ov[n] \in PageSet
      /\ phase # "parse"
  BY DEF PagesInv, Whole, Datable
<1>2. /\ TrulyDated(s, ov[i], i) /\ i \in 1 .. N /\ i \in PageNumbers(s)
      /\ i < Len(ov) => \E l \in PageNumbers(s) :
                          /\ i < l /\ TrulyDated(s, ov[i + 1], l)
                          /\ NoRepetition(s, ov[i], ov[i + 1])
  <2>1. PICK k \in PageNumbers(s) :
          /\ TrulyDated(s, ov[i], k)
          /\ i \in 1 .. N => k = i
          /\ ov[i].page = TipsPageNo <=> i \notin 1 .. N
          /\ i < Len(ov) => \E l \in PageNumbers(s) :
                              /\ k < l /\ TrulyDated(s, ov[i + 1], l)
                              /\ NoRepetition(s, ov[i], ov[i + 1])
    BY StoppingPage
  <2>2. i \in 1 .. N /\ k = i
    BY <2>1
  <2>. QED
    BY <2>1, <2>2
<1>3. /\ x.title = TitleOn(s, i, j) /\ x.title \in 1 .. Len(s.starts)
      /\ x.start = s.starts[x.title] /\ x.start \in Nat
  BY <1>1, <1>2, DatedLine
<1>4. /\ Len(s.starts) \in Nat /\ N \in Nat /\ i <= N
      /\ \A a \in 1 .. Len(s.starts) : s.starts[a] \in Nat
      /\ \A a, b \in 1 .. Len(s.starts) : a < b => s.starts[a] < s.starts[b]
  <2>1. Len(s.starts) \in Nat /\ N \in Nat
    BY <1>1, ServiceParts, FirstTitle
  <2>2. i <= N
    BY <1>2, <2>1
  <2>. QED
    BY <1>1, <2>1, <2>2, ServiceParts
<1>5. StopTime(i, j) = NoTime \/ StopTime(i, j) > x.start
  <2>1. \/ StopTime(i, j) = NoTime
        \/ x.title < Len(s.starts) /\ StopTime(i, j) = s.starts[x.title + 1]
    BY <1>1, <1>2, <1>4, TrueStopTime
  <2>2. x.title < Len(s.starts) => x.title + 1 \in 1 .. Len(s.starts) /\ x.title < x.title + 1
    BY <1>3, <1>4
  <2>3. x.title < Len(s.starts) => s.starts[x.title + 1] > x.start
    BY <1>3, <1>4, <2>2
  <2>. HIDE DEF x
  <2>. QED
    BY <2>1, <2>3
<1>6. ASSUME Soon(s, x.title) PROVE StopTime(i, j) # NoTime
  <2>1. /\ x.title < Len(s.starts) /\ s.starts[x.title + 1] - s.starts[x.title] < 9 * 60
        /\ x.title + 1 \in 1 .. Len(s.starts) /\ x.title \in 1 .. Len(s.starts)
        /\ s.starts[x.title + 1] > x.start /\ s.starts[x.title + 1] \in Nat
        /\ Len(s.starts) > 1
    <3>1. x.title < Len(s.starts) /\ s.starts[x.title + 1] - s.starts[x.title] < 9 * 60
      BY <1>6 DEF Soon
    <3>. HIDE DEF x, s
    <3>2. x.title + 1 \in 1 .. Len(s.starts) /\ x.title < x.title + 1 /\ Len(s.starts) > 1
      BY <1>3, <1>4, <3>1
    <3>. QED
      BY <1>3, <1>4, <3>1, <3>2
  <2>2. CASE x.end # NoTime
    <3>1. x \in SlotSet
      BY <1>1, PageParts
    <3>2. x.end \in Nat /\ Minutes(x) \in Nat
      BY <2>2, <3>1, SlotParts
    <3>3. DayOf(x.start) * DayMin \in Nat
      BY <1>3 DEF DayOf, DayMin
    <3>4. StopTime(i, j) = DayOf(x.start) * DayMin + x.end + (IF x.end < Minutes(x) THEN DayMin ELSE 0)
      BY <2>2 DEF StopTime
    <3>. HIDE DEF x
    <3>5. StopTime(i, j) \in Nat
      BY <3>2, <3>3, <3>4 DEF DayMin
    <3>. QED
      BY <3>5 DEF NoTime
  <2>3. CASE x.end = NoTime /\ j < Len(ov[i].slots)
    <3>. DEFINE y == ov[i].slots[j + 1]
    <3>1. j + 1 \in 1 .. Len(ov[i].slots) /\ j \in Nat
      BY <1>1, <2>3, PageParts
    <3>2. y.title = TitleOn(s, i, j + 1) /\ y.start = s.starts[y.title] /\ y.start \in Nat
      BY <1>1, <1>2, <3>1, DatedLine
    <3>3. y.title = x.title + 1
      <4>1. s.first[i] \in Nat
        BY <1>1, <1>2, PageTitles
      <4>2. TitleOn(s, i, j + 1) = TitleOn(s, i, j) + 1
        BY <1>4, <3>1, <4>1 DEF TitleOn
      <4>. QED
        BY <1>3, <3>2, <4>2
    <3>4. y.start > x.start
      BY <2>1, <3>2, <3>3
    <3>5. y.start # x.start /\ y.start # NoTime
      BY <1>3, <3>2, <3>4 DEF NoTime
    <3>. QED
      BY <2>3, <3>5 DEF StopTime
  <2>4. CASE x.end = NoTime /\ ~(j < Len(ov[i].slots))
    <3>1. j = Len(ov[i].slots)
      BY <1>1, <2>4, PageParts
    <3>2. i # N
      <4>1. SUFFICES ASSUME i = N PROVE FALSE
        OBVIOUS
      <4>2. j = Len(OnAir(s, i).slots)
        BY <1>1, <1>4, <2>1, <3>1, <4>1 DEF LastPageWhole, Untouched
      <4>3. j = LastTitle(s, i) - s.first[i] + 1 /\ LastTitle(s, i) = Len(s.starts)
        <5>1. OnAir(s, i) = Shown(s, i)
          BY <1>4 DEF OnAir
        <5>2. Len(Shown(s, i).slots) = LastTitle(s, i) - s.first[i] + 1
          BY <1>1, <1>2, ShownPage
        <5>. QED
          BY <4>1, <4>2, <5>1, <5>2 DEF LastTitle
      <4>4. s.first[i] \in Nat
        BY <1>1, <1>2, PageTitles
      <4>5. TitleOn(s, i, j) = s.first[i] + j - 1
        BY <1>4 DEF TitleOn
      <4>. HIDE DEF x, s
      <4>6. x.title = Len(s.starts)
        BY <1>3, <1>4, <4>3, <4>4, <4>5
      <4>. QED
        BY <1>4, <2>1, <4>6
    <3>. DEFINE q == ov[i + 1]
    <3>3. i + 1 \in 1 .. N /\ i \in 1 .. N - 1 /\ i < N /\ i \in Nat
      BY <1>2, <1>4, <3>2
    <3>4. /\ i + 1 \in 1 .. Len(ov) /\ i < Len(ov) /\ i + 1 \in PageNumbers(s)
          /\ IsFrom(s, q, i + 1) /\ i < i + 1 /\ IsFrom(s, ov[i], i)
      <4>1. \A k \in 1 .. N :
              k \in 1 .. Len(ov) /\ IsFrom(s, ov[k], k) /\ k \in PageNumbers(s)
        BY <1>1, PagesListed
      <4>2. i + 1 \in 1 .. Len(ov) /\ IsFrom(s, q, i + 1) /\ i + 1 \in PageNumbers(s)
        BY <3>3, <4>1
      <4>. QED
        BY <1>1, <1>2, <3>3, <4>2 DEF TrulyDated
    <3>5. PICK l \in PageNumbers(s) :
            i < l /\ TrulyDated(s, q, l) /\ NoRepetition(s, ov[i], q)
      BY <1>2, <3>4
    <3>6. l = i + 1
      BY <1>1, <3>4, <3>5, FromOnePage DEF TrulyDated
    <3>7. j = s.first[i + 1] - s.first[i]
      BY <3>1, <3>3, <3>4, <3>5 DEF NoRepetition
    <3>8. s.first[i] \in Nat /\ s.first[i + 1] \in Nat
      BY <1>1, <1>2, <3>3, PageTitles
    <3>9. x.title + 1 = s.first[i + 1]
      <4>1. TitleOn(s, i, j) = s.first[i] + j - 1
        BY <1>4 DEF TitleOn
      <4>2. \A a, b, c \in Nat : c = b - a => (a + c - 1) + 1 = b
        OBVIOUS
      <4>3. j \in Nat
        OBVIOUS
      <4>. HIDE DEF x
      <4>. QED
        BY <1>3, <3>7, <3>8, <4>1, <4>2, <4>3
    <3>10. Len(q.slots) > 0 /\ Len(q.slots) \in Nat
      <4>1. Len(q.slots) \in Nat
        BY <1>1, <3>4, PageParts
      <4>2. CASE i + 1 = N
        <5>1. Len(q.slots) = Len(OnAir(s, N).slots)
          BY <1>1, <2>1, <3>4, <4>2 DEF LastPageWhole, Untouched
        <5>2. N \in PageNumbers(s)
          BY <3>4, <4>2
        <5>. QED
          BY <1>1, <4>1, <5>1, <5>2, OnAirParts
      <4>3. CASE i + 1 # N
        <5>1. i + 1 \in 1 .. N - 1 /\ i + 2 \in 1 .. N /\ i + 1 < i + 2 /\ (i + 1) + 1 = i + 2
          BY <1>4, <3>3, <4>3
        <5>2. i + 2 \in 1 .. Len(ov) /\ IsFrom(s, ov[i + 2], i + 2)
          BY <1>1, <5>1, PagesListed
        <5>3. i + 1 \in 1 .. Len(ov) - 1
          BY <1>1, <3>4, <5>2
        <5>4. NoRepetition(s, q, ov[i + 2])
          <6>1. RepetitionInv
            BY <1>1 DEF TimesInv
          <6>2. ~Untouched((i + 1) + 1)
            BY DEF Untouched
          <6>3. NoRepetition(s, ov[i + 1], ov[(i + 1) + 1])
            BY <5>3, <6>1, <6>2 DEF RepetitionInv
          <6>. QED
            BY <5>1, <6>3
        <5>5. Len(q.slots) = s.first[i + 2] - s.first[i + 1]
          BY <3>4, <5>1, <5>2, <5>4 DEF NoRepetition
        <5>6. s.first[i + 1] < s.first[i + 2]
          BY <1>1, <5>1, <3>3, NextPageStart
        <5>7. s.first[i + 1] \in Nat /\ s.first[i + 2] \in Nat
          BY <1>1, <3>3, <5>1, PageTitles
        <5>. QED
          BY <4>1, <5>5, <5>6, <5>7
      <4>. QED
        BY <4>1, <4>2, <4>3
    <3>11. q.slots # <<>> /\ 1 \in 1 .. Len(q.slots)
      <4>1. Len(<<>>) = 0
        BY EmptySeq
      <4>. QED
        BY <3>10, <4>1
    <3>12. q.slots[1].start = s.starts[x.title + 1]
      <4>1. /\ q.slots[1].title = TitleOn(s, i + 1, 1)
            /\ q.slots[1].start = s.starts[q.slots[1].title]
        BY <1>1, <3>4, <3>5, <3>6, <3>11, DatedLine
      <4>2. i + 1 <= N /\ s.first[i + 1] + 1 - 1 = s.first[i + 1]
        BY <1>4, <3>3, <3>8
      <4>. QED
        BY <3>9, <4>1, <4>2 DEF TitleOn
    <3>13. Adjacent(ov[i], q)
      BY <1>1, <1>2, <3>3, <3>4, AdjacentPages
    <3>14. q.slots[1].start - x.start \in 1 .. 9 * 60 - 1
      <4>1. s.starts[x.title + 1] - x.start < 9 * 60
        BY <1>3, <2>1
      <4>2. \A a, b \in Nat : b > a /\ b - a < 9 * 60 => b - a \in 1 .. 9 * 60 - 1
        OBVIOUS
      <4>3. s.starts[x.title + 1] - x.start \in 1 .. 9 * 60 - 1
        BY <1>3, <2>1, <4>1, <4>2
      <4>. QED
        BY <3>12, <4>3
    <3>15. q.slots[1].start # x.start /\ q.slots[1].start # NoTime
      <4>. HIDE DEF x, q
      <4>. QED
        BY <1>3, <2>1, <3>12 DEF NoTime
    <3>. QED
      BY <2>4, <3>4, <3>11, <3>13, <3>14, <3>15 DEF StopTime
  <2>. QED
    BY <2>2, <2>3, <2>4
<1>. QED
  BY <1>5, <1>6

LEMMA StopPageWhole == PagesInv /\ TimesInv /\ WholeInv /\ StopPage => WholeInv'
<1>. SUFFICES ASSUME PagesInv, TimesInv, WholeInv, StopPage, Whole(service)
              PROVE  (PagesThere /\ LastPageWhole /\ StopsThere /\ OverlapInv /\ ExpireInv)'
  BY DEF WholeInv, StopPage
<1>. DEFINE N == Len(service.pages)
<1>1. /\ PagesThere /\ LastPageWhole /\ StopsThere
      /\ service' = service /\ db' = db /\ phase = "stop" /\ phase' = "stop"
      /\ phase # "parse" /\ idx' = idx + 1 /\ db = <<>>
      /\ \A i \in 1 .. Len(ov) : ov[i] \in PageSet
  BY DEF WholeInv, StopPage, PagesInv, PagesThere
<1>2. /\ idx \in 1 .. Len(ov) /\ Len(ov) \in Nat /\ Len(ov') = Len(ov)
      /\ \A i \in 1 .. Len(ov) :
           /\ ov'[i].page = ov[i].page /\ ov'[i].sub = ov[i].sub
           /\ ov'[i].skip = ov[i].skip
           /\ Len(ov'[i].slots) = Len(ov[i].slots)
           /\ i # idx => ov'[i] = ov[i]
      /\ \A k \in 1 .. Len(ov[idx].slots) :
           ov'[idx].slots[k] = [ov[idx].slots[k] EXCEPT !.stop = StopTime(idx, k)]
  BY StoppedPage
<1>3. /\ N \in Nat /\ N \in 1 .. Len(ov)
      /\ \A k \in 1 .. N : k \in 1 .. Len(ov) /\ IsFrom(service, ov[k], k)
  BY <1>1, PagesListed
<1>4. PagesThere'
  <2>1. ASSUME NEW k \in 1 .. N PROVE k <= Len(ov') /\ IsFrom(service, ov'[k], k)
    <3>1. k \in 1 .. Len(ov) /\ IsFrom(service, ov[k], k)
      BY <1>3
    <3>2. IsFrom(service, ov'[k], k)
      BY <1>2, <3>1 DEF IsFrom
    <3>3. k <= Len(ov')
      BY <1>2, <3>1
    <3>. QED
      BY <3>2, <3>3
  <2>. QED
    BY <1>1, <2>1 DEF PagesThere
<1>5. LastPageWhole'
  <2>1. Len(ov'[N].slots) = Len(ov[N].slots) /\ N <= Len(ov) /\ ~Untouched(N)
    BY <1>1, <1>2, <1>3 DEF Untouched
  <2>. QED
    BY <1>1, <2>1 DEF LastPageWhole
<1>6. StopsThere'
  <2>1. SUFFICES ASSUME NEW k \in 1 .. Len(ov), Stopped(k)', NEW j \in 1 .. Len(ov'[k].slots)
                 PROVE  LET x == ov'[k].slots[j] IN
                        /\ x.stop = NoTime \/ x.stop > x.start
                        /\ ov'[k].page # TipsPageNo /\ Soon(service, x.title) => x.stop # NoTime
    BY <1>1, <1>2 DEF StopsThere
  <2>2. k \in Nat /\ k <= idx /\ idx \in Nat /\ j \in 1 .. Len(ov[k].slots)
    BY <1>1, <1>2, <2>1 DEF Stopped
  <2>3. CASE k < idx
    <3>1. Stopped(k) /\ ov'[k] = ov[k]
      BY <1>1, <1>2, <2>2, <2>3 DEF Stopped
    <3>. QED
      BY <1>1, <2>2, <3>1 DEF StopsThere
  <2>4. CASE k = idx
    <3>1. ov[k].slots[j] \in SlotSet
      BY <1>1, <2>2, PageParts
    <3>2. ov'[k].slots[j] = [ov[k].slots[j] EXCEPT !.stop = StopTime(k, j)]
      BY <1>2, <2>2, <2>4
    <3>3. LET x == ov[k].slots[j]
              y == ov'[k].slots[j]
          IN y.start = x.start /\ y.title = x.title /\ y.stop = StopTime(k, j)
      BY <3>1, <3>2 DEF SlotSet
    <3>4. ov'[k].page = ov[k].page
      BY <1>2
    <3>5. CASE ov[k].page = TipsPageNo
      <4>1. StopTime(k, j) = NoTime \/ StopTime(k, j) > ov[k].slots[j].start
        BY <1>1, <2>2, <3>5, TipsStop
      <4>. QED
        BY <3>3, <3>4, <3>5, <4>1
    <3>6. CASE ov[k].page # TipsPageNo
      <4>1. /\ StopTime(k, j) = NoTime \/ StopTime(k, j) > ov[k].slots[j].start
            /\ Soon(service, ov[k].slots[j].title) => StopTime(k, j) # NoTime
        BY <1>1, <2>2, <3>6, NearStop
      <4>. QED
        BY <3>3, <3>4, <3>6, <4>1
    <3>. QED
      BY <3>5, <3>6
  <2>. QED
    BY <2>2, <2>3, <2>4
<1>7. (OverlapInv /\ ExpireInv)'
  BY <1>1 DEF OverlapInv, ExpireInv
<1>. QED
  BY <1>4, <1>5, <1>6, <1>7

-----------------------------------------------------------------------------
(* The combined list                                                       *)

(* Every slot of the pages is one of a programme.                          *)
LEMMA PlacedSlot ==
  ASSUME PagesInv, TimesInv, Whole(service), PagesThere, StopsThere,
         phase = "stop", idx > Len(ov), NEW p \in Places
  PROVE  TrueSlot(service, OvSlot(p))
<1>. DEFINE i == p[1]
            j == p[2]
            x == ov[i].slots[j]
            y == OvSlot(p)
<1>1. i \in 1 .. Len(ov) /\ j \in 1 .. Len(ov[i].slots) /\ i \in Nat
  BY PlaceParts
<1>2. y = [start |-> x.start, stop |-> x.stop, title |-> x.title, page |-> ov[i].page]
  BY DEF OvSlot
<1>3. /\ IsService(service) /\ ov[i] \in PageSet /\ idx \in Nat /\ Len(ov) \in Nat
      /\ Len(service.pages) \in Nat
  BY <1>1, FirstTitle DEF PagesInv
<1>. HIDE DEF y, i, j
<1>4. PICK k \in PageNumbers(service) :
        /\ TrulyDated(service, ov[i], k)
        /\ i \in 1 .. Len(service.pages) => k = i
        /\ i \notin 1 .. Len(service.pages) => k = Len(service.pages) + 1
        /\ ov[i].page = TipsPageNo <=> i \notin 1 .. Len(service.pages)
  BY <1>1, StoppingPage
<1>5. /\ x.title \in 1 .. Len(service.starts) /\ x.start = service.starts[x.title]
      /\ k <= Len(service.pages) => TrueStop(service, x)
  BY <1>1, <1>3, <1>4, DatedLine
<1>6. /\ x.stop = NoTime \/ x.stop > x.start
      /\ ov[i].page # TipsPageNo /\ Soon(service, x.title) => x.stop # NoTime
  <2>1. Stopped(i)
    BY <1>1, <1>3 DEF Stopped
  <2>. QED
    BY <1>1, <2>1 DEF StopsThere
<1>7. ov[i].page <= TipsPageNo /\ (ov[i].page # TipsPageNo => k <= Len(service.pages))
  <2>1. CASE i \in 1 .. Len(service.pages)
    <3>1. k = i /\ k \in 1 .. Len(service.pages) /\ k <= Len(service.pages)
      BY <1>3, <1>4, <2>1
    <3>2. ov[i].page = OnAir(service, k).page
      BY <1>4 DEF TrulyDated, IsFrom
    <3>3. OnAir(service, k).page < TipsPageNo /\ OnAir(service, k).page \in Nat
      BY <1>3, <3>1, OnAirParts
    <3>4. TipsPageNo \in Nat
      BY DEF TipsPageNo
    <3>. QED
      BY <3>1, <3>2, <3>3, <3>4
  <2>2. CASE i \notin 1 .. Len(service.pages)
    BY <1>4, <2>2 DEF TipsPageNo
  <2>. QED
    BY <2>1, <2>2
<1>8. TrueStop(service, x) => TrueStop(service, y)
  BY <1>2 DEF TrueStop
<1>. HIDE DEF x
<1>9. y.start = x.start /\ y.stop = x.stop /\ y.title = x.title /\ y.page = ov[i].page
  BY <1>2
<1>10. TrueSlot(service, y)
  BY <1>5, <1>6, <1>7, <1>8, <1>9 DEF TrueSlot
<1>. QED
  BY <1>10 DEF y

(* Every programme is on a page of the schedule.                           *)
LEMMA ProgrammePlaced ==
  ASSUME PagesInv, TimesInv, Whole(service), PagesThere, LastPageWhole,
         phase = "stop", Len(service.starts) > 1,
         NEW i \in 1 .. Len(service.starts)
  PROVE  \E p \in Places : OvSlot(p).title = i /\ OvSlot(p).page # TipsPageNo
<1>. DEFINE s == service
            N == Len(s.pages)
            T == {k \in 1 .. N : s.first[k] <= i}
            k == Max(T)
            j == i - s.first[k] + 1
<1>1. /\ IsService(s) /\ phase # "parse" /\ RepetitionInv
      /\ \A n \in 1 .. Len(ov) : ov[n] \in PageSet
      /\ ov \in Seq(PageSet)
  BY DEF PagesInv, TimesInv, Whole
<1>2. /\ N \in Nat /\ N >= 1 /\ Len(ov) \in Nat /\ N \in 1 .. Len(ov)
      /\ \A n \in 1 .. N :
           n \in 1 .. Len(ov) /\ IsFrom(s, ov[n], n) /\ n \in PageNumbers(s)
  BY <1>1, PagesListed
<1>3. \A n \in 1 .. N : s.first[n] \in 1 .. Len(s.starts) /\ s.first[n] \in Nat
  <2>1. \A n \in 1 .. N : s.first[n] \in 1 .. Len(s.starts)
    BY <1>1, PageTitles
  <2>2. \A n \in 1 .. Len(s.starts) : n \in Nat
    OBVIOUS
  <2>. QED
    BY <2>1, <2>2
<1>4. k \in 1 .. N /\ s.first[k] <= i /\ \A n \in 1 .. N : s.first[n] <= i => n <= k
  <2>1. s.first[1] = 1 /\ 1 \in 1 .. N
    BY <1>1, <1>2, ServiceParts
  <2>2. 1 \in T
    BY <2>1
  <2>. HIDE DEF T, N, s
  <2>3. T \in SUBSET (1 .. N) /\ T # {}
    BY <2>2 DEF T
  <2>4. Max(T) \in T /\ \A y \in T : Max(T) >= y
    BY <1>2, <2>3, GreatestInSet
  <2>5. \A n \in T : n \in Nat
    BY <2>3
  <2>. QED
    BY <2>4, <2>5 DEF T
<1>. HIDE DEF k
<1>5. /\ j \in Nat /\ j >= 1 /\ k \in Nat /\ k <= N
      /\ s.first[k] \in Nat /\ Len(s.starts) \in Nat
  <2>1. Len(s.starts) \in Nat
    BY <1>1, ServiceParts
  <2>. QED
    BY <1>2, <1>3, <1>4, <2>1
<1>6. j <= Len(ov[k].slots)
  <2>1. CASE k = N
    <3>1. Len(ov[k].slots) = Len(OnAir(s, k).slots)
      <4>1. ~Untouched(N) /\ N <= Len(ov)
        BY <1>1, <1>2 DEF Untouched
      <4>. QED
        BY <2>1, <4>1 DEF LastPageWhole
    <3>2. Len(OnAir(s, k).slots) = Len(s.starts) - s.first[k] + 1
      <4>1. OnAir(s, k) = Shown(s, k)
        BY <1>5 DEF OnAir
      <4>2. Len(Shown(s, k).slots) = LastTitle(s, k) - s.first[k] + 1
        BY <1>1, <1>4, ShownPage
      <4>. QED
        BY <2>1, <4>1, <4>2 DEF LastTitle
    <3>. HIDE DEF s
    <3>. QED
      BY <1>5, <3>1, <3>2 DEF s
  <2>2. CASE k # N
    <3>1. k \in 1 .. N - 1 /\ k + 1 \in 1 .. N /\ k + 1 > k
      BY <1>2, <1>4, <1>5, <2>2
    <3>2. ~(s.first[k + 1] <= i) /\ s.first[k + 1] \in Nat
      BY <1>3, <1>4, <1>5, <3>1
    <3>3. /\ k \in 1 .. Len(ov) - 1 /\ IsFrom(s, ov[k], k) /\ IsFrom(s, ov[k + 1], k + 1)
      BY <1>2, <1>4, <3>1
    <3>4. ~Untouched(k + 1)
      BY DEF Untouched
    <3>5. NoRepetition(s, ov[k], ov[k + 1])
      BY <1>1, <3>3, <3>4 DEF RepetitionInv
    <3>6. Len(ov[k].slots) = s.first[k + 1] - s.first[k]
      BY <3>1, <3>3, <3>5 DEF NoRepetition
    <3>7. \A a, b, c \in Nat : ~(b <= c) => c - a + 1 <= b - a
      OBVIOUS
    <3>8. i \in Nat
      BY <1>5
    <3>9. i - s.first[k] + 1 <= s.first[k + 1] - s.first[k]
      BY <1>5, <3>2, <3>7, <3>8
    <3>. QED
      BY <3>6, <3>9
  <2>. QED
    BY <2>1, <2>2
<1>7. k \in 1 .. Len(ov) /\ j \in 1 .. Len(ov[k].slots)
  <2>1. k \in 1 .. Len(ov)
    BY <1>2, <1>4
  <2>2. Len(ov[k].slots) \in Nat
    BY <1>1, <2>1, PageParts
  <2>. HIDE DEF j
  <2>. QED
    BY <1>5, <1>6, <2>1, <2>2
<1>8. ov[k].slots[j].title = i /\ ov[k].page # TipsPageNo
  <2>1. PICK l \in PageNumbers(s) :
          /\ TrulyDated(s, ov[k], l)
          /\ k \in 1 .. N => l = k
          /\ ov[k].page = TipsPageNo <=> k \notin 1 .. N
    BY <1>7, StoppingPage
  <2>2. ov[k].slots[j].title = TitleOn(s, k, j)
    BY <1>1, <1>4, <1>7, <2>1, DatedLine
  <2>3. s.first[k] + j - 1 = i
    BY <1>5
  <2>4. TitleOn(s, k, j) = i
    BY <1>5, <2>3 DEF TitleOn
  <2>. QED
    BY <1>4, <2>1, <2>2, <2>4
<1>. HIDE DEF j
<1>9. <<k, j>> \in Places
  <2>1. DOMAIN ov = 1 .. Len(ov)
    BY <1>1, LenProperties
  <2>2. DOMAIN ov[k].slots = 1 .. Len(ov[k].slots)
    BY <1>1, <1>7, PageParts
  <2>. QED
    BY <1>7, <2>1, <2>2 DEF Places
<1>10. OvSlot(<<k, j>>).title = ov[k].slots[j].title /\ OvSlot(<<k, j>>).page = ov[k].page
  BY DEF OvSlot
<1>. QED
  BY <1>8, <1>9, <1>10

(* What is said of the pages holds when they are not looked at any more.   *)
LEMMA PagesKept ==
  ASSUME PagesInv, PagesThere, LastPageWhole, StopsThere,
         UNCHANGED <<service, db, ov>>, phase' \in {"overlap", "expire", "done"},
         phase \in {"overlap", "expire", "done"} \/ (phase = "stop" /\ idx > Len(ov))
  PROVE  PagesThere' /\ LastPageWhole' /\ StopsThere'
<1>1. /\ service' = service /\ ov' = ov /\ db' = db /\ phase # "parse" /\ phase' # "parse"
      /\ Len(ov) \in Nat /\ idx \in Nat
  BY DEF PagesInv
<1>2. PagesThere'
  BY <1>1 DEF PagesThere
<1>3. LastPageWhole'
  <2>1. ~Untouched(Len(service.pages)) /\ ~Untouched(Len(service.pages))'
    BY <1>1 DEF Untouched
  <2>. QED
    BY <1>1, <2>1 DEF LastPageWhole
<1>4. StopsThere'
  <2>1. \A k \in 1 .. Len(ov) : Stopped(k)
    BY <1>1 DEF Stopped
  <2>. QED
    BY <1>1, <2>1 DEF StopsThere
<1>. QED
  BY <1>2, <1>3, <1>4

LEMMA StartOverlapWhole == PagesInv /\ TimesInv /\ WholeInv /\ StartOverlap => WholeInv'
<1>. SUFFICES ASSUME PagesInv, TimesInv, WholeInv, StartOverlap, Whole(service)
              PROVE  (PagesThere /\ LastPageWhole /\ StopsThere /\ OverlapInv /\ ExpireInv)'
  BY DEF WholeInv, StartOverlap
<1>1. /\ PagesThere /\ LastPageWhole /\ StopsThere
      /\ service' = service /\ ov' = ov /\ db' = db
      /\ phase = "stop" /\ phase' = "overlap" /\ phase \notin {"parse", "date"}
      /\ idx > Len(ov)
      /\ slots' = SortedSlots /\ kept' = <<>> /\ prev_stop' = 0
  BY DEF StartOverlap, WholeInv
<1>2. (PagesThere /\ LastPageWhole /\ StopsThere)'
  BY <1>1, PagesKept
<1>3. /\ \A m, n \in 1 .. Len(slots') :
           m < n /\ slots'[m].start = slots'[n].start => slots'[m].page <= slots'[n].page
      /\ \A n \in 1 .. Len(slots') : \E p \in Places : slots'[n] = OvSlot(p)
      /\ \A p \in Places : \E n \in 1 .. Len(slots') : slots'[n] = OvSlot(p)
  BY <1>1, SortedSlotsAscend
<1>4. AllTrue(service, slots')
  <2>1. \A p \in Places : TrueSlot(service, OvSlot(p))
    BY <1>1, PlacedSlot
  <2>. QED
    BY <1>3, <2>1 DEF AllTrue
<1>5. Len(kept') = 0 /\ AllTrue(service, kept') /\ OneEach(kept') /\ NoTips(kept')
  BY <1>1, EmptySeq DEF AllTrue, OneEach, NoTips
<1>6. ASSUME Len(service.starts) > 1, NEW i \in 1 .. Len(service.starts)
      PROVE  Listed(slots', i)
  <2>1. PICK p \in Places : OvSlot(p).title = i /\ OvSlot(p).page # TipsPageNo
    BY <1>1, <1>6, ProgrammePlaced
  <2>2. PICK n \in 1 .. Len(slots') : slots'[n] = OvSlot(p)
    BY <1>3
  <2>. QED
    BY <2>1, <2>2 DEF Listed
<1>7. OverlapInv'
  BY <1>1, <1>3, <1>4, <1>5, <1>6 DEF OverlapInv
<1>8. ExpireInv'
  BY <1>1 DEF ExpireInv
<1>. QED
  BY <1>2, <1>7, <1>8

-----------------------------------------------------------------------------
(* The filters                                                             *)

(* Programmes that start later have higher numbers.                        *)
LEMMA StartsTell ==
  ASSUME NEW s, IsService(s), NEW i \in 1 .. Len(s.starts), NEW j \in 1 .. Len(s.starts)
  PROVE  /\ s.starts[i] \in Nat /\ s.starts[j] \in Nat /\ i \in Nat /\ j \in Nat
         /\ s.starts[i] < s.starts[j] <=> i < j
         /\ s.starts[i] = s.starts[j] <=> i = j
<1>1. /\ s.starts[i] \in Nat /\ s.starts[j] \in Nat /\ i \in Nat /\ j \in Nat
      /\ i < j => s.starts[i] < s.starts[j]
      /\ j < i => s.starts[j] < s.starts[i]
  BY ServiceParts
<1>. QED
  BY <1>1

(* A slot that starts while another runs is of the same programme, unless  *)
(* that is one of the tips, and one that starts after it of a later one.   *)
LEMMA SlotsTell ==
  ASSUME NEW s, IsService(s), NEW x \in OutSet, NEW y \in OutSet,
         TrueSlot(s, x), TrueSlot(s, y)
  PROVE  /\ StopOrSecond(x) > x.start
         /\ y.start >= StopOrSecond(x) => x.title < y.title
         /\ x.page # TipsPageNo /\ y.start < StopOrSecond(x) /\ x.start <= y.start =>
              x.title = y.title
<1>1. /\ x.title \in 1 .. Len(s.starts) /\ x.start = s.starts[x.title]
      /\ y.title \in 1 .. Len(s.starts) /\ y.start = s.starts[y.title]
      /\ x.start \in Nat /\ y.start \in Nat /\ StopOrSecond(x) \in Nat
      /\ x.title \in Nat /\ y.title \in Nat
  BY StopType DEF TrueSlot, OutSet
<1>2. /\ x.start < y.start <=> x.title < y.title
      /\ x.start = y.start <=> x.title = y.title
  BY <1>1, StartsTell
<1>3. StopOrSecond(x) > x.start
  <2>1. CASE x.stop = NoTime
    BY <1>1, <2>1 DEF StopOrSecond
  <2>2. CASE x.stop # NoTime
    BY <2>2 DEF StopOrSecond, TrueSlot
  <2>. QED
    BY <2>1, <2>2
<1>4. ASSUME x.page # TipsPageNo, y.start < StopOrSecond(x), x.start <= y.start
      PROVE  x.title = y.title
  <2>1. CASE x.stop = NoTime
    <3>1. StopOrSecond(x) = x.start + 1
      BY <2>1 DEF StopOrSecond
    <3>. QED
      BY <1>1, <1>2, <1>4, <3>1
  <2>2. CASE x.stop # NoTime
    <3>1. /\ StopOrSecond(x) = s.starts[x.title + 1] /\ x.title < Len(s.starts)
      BY <1>4, <2>2 DEF TrueSlot, TrueStop, StopOrSecond
    <3>2. x.title + 1 \in 1 .. Len(s.starts)
      <4>1. Len(s.starts) \in Nat
        BY ServiceParts
      <4>. QED
        BY <1>1, <3>1, <4>1
    <3>3. y.title < x.title + 1
      BY <1>1, <1>4, <3>1, <3>2, StartsTell
    <3>. QED
      BY <1>1, <1>2, <1>4, <3>3
  <2>. QED
    BY <2>1, <2>2
<1>. QED
  BY <1>1, <1>2, <1>3, <1>4

(* One slot more is kept.                                                  *)
LEMMA LongerList ==
  ASSUME NEW s, NEW k \in Seq(OutSet), NEW x \in OutSet,
         AllTrue(s, k), TrueSlot(s, x), OneEach(k),
         \A m \in 1 .. Len(k) : k[m].title < x.title
  PROVE  LET K == Append(k, x) IN
         /\ K # <<>> /\ K \in Seq(OutSet) /\ Len(K) = Len(k) + 1
         /\ \A m \in 1 .. Len(K) : K[m] = IF m = Len(k) + 1 THEN x ELSE k[m]
         /\ AllTrue(s, K) /\ OneEach(K)
         /\ NoTips(k) /\ x.page # TipsPageNo => NoTips(K)
         /\ \A i : Listed(k, i) => Listed(K, i)
         /\ x.page # TipsPageNo => Listed(K, x.title)
<1>. DEFINE K == Append(k, x)
<1>1. /\ K \in Seq(OutSet) /\ Len(K) = Len(k) + 1 /\ Len(k) \in Nat
      /\ \A m \in 1 .. Len(k) : K[m] = k[m]
      /\ K[Len(k) + 1] = x
  BY AppendProperties
<1>2. K # <<>>
  BY <1>1, EmptySeq
<1>. HIDE DEF K
<1>3. \A m \in 1 .. Len(K) : /\ m \in 1 .. Len(k) \/ m = Len(k) + 1
                             /\ K[m] = IF m = Len(k) + 1 THEN x ELSE k[m]
  BY <1>1
<1>4. AllTrue(s, K)
  BY <1>1, <1>3 DEF AllTrue
<1>5. OneEach(K)
  <2>1. SUFFICES ASSUME NEW m \in 1 .. Len(K), NEW n \in 1 .. Len(K), m < n
                 PROVE  K[m].title < K[n].title
    BY DEF OneEach
  <2>2. m \in 1 .. Len(k) /\ K[m] = k[m] /\ (n \in 1 .. Len(k) \/ n = Len(k) + 1)
    BY <1>1, <2>1
  <2>. QED
    BY <1>1, <2>1, <2>2 DEF OneEach
<1>6. NoTips(k) /\ x.page # TipsPageNo => NoTips(K)
  BY <1>1, <1>3 DEF NoTips
<1>7. ASSUME NEW i, Listed(k, i) PROVE Listed(K, i)
  <2>1. PICK n \in 1 .. Len(k) : k[n].title = i /\ k[n].page # TipsPageNo
    BY <1>7 DEF Listed
  <2>2. n \in 1 .. Len(K) /\ K[n] = k[n]
    BY <1>1
  <2>. QED
    BY <2>1, <2>2 DEF Listed
<1>8. x.page # TipsPageNo => Listed(K, x.title)
  <2>1. Len(k) + 1 \in 1 .. Len(K)
    BY <1>1
  <2>. QED
    BY <1>1, <2>1 DEF Listed
<1>. QED
  BY <1>1, <1>2, <1>3, <1>4, <1>5, <1>6, <1>7, <1>8 DEF K

(* One slot less is to be looked at.                                       *)
LEMMA ShorterList ==
  ASSUME NEW s, NEW k \in Seq(OutSet), k # <<>>, AllTrue(s, k)
  PROVE  LET x == Head(k)
             K == Tail(k)
         IN
         /\ x \in OutSet /\ x = k[1] /\ 1 \in 1 .. Len(k)
         /\ K \in Seq(OutSet) /\ Len(k) \in Nat /\ Len(K) = Len(k) - 1
         /\ \A n \in 1 .. Len(K) : K[n] = k[n + 1] /\ n + 1 \in 1 .. Len(k) /\ 1 < n + 1
         /\ \A m, n \in 1 .. Len(K) : m < n => m + 1 < n + 1
         /\ AllTrue(s, K) /\ TrueSlot(s, x)
         /\ OneEach(k) => OneEach(K)
         /\ NoTips(k) => NoTips(K)
         /\ \A i : Listed(k, i) => Listed(K, i) \/ (x.title = i /\ x.page # TipsPageNo)
<1>. DEFINE x == Head(k)
            K == Tail(k)
<1>1. /\ x \in OutSet /\ x = k[1] /\ 1 \in 1 .. Len(k) /\ Len(k) \in Nat
      /\ K \in Seq(OutSet) /\ Len(K) = Len(k) - 1
      /\ \A n \in 1 .. Len(K) : K[n] = k[n + 1] /\ n + 1 \in 1 .. Len(k)
  BY HeadTailProperties, EmptySeq
<1>. HIDE DEF x, K
<1>2. /\ \A n \in 1 .. Len(K) : 1 < n + 1
      /\ \A m, n \in 1 .. Len(K) : m < n => m + 1 < n + 1
  BY <1>1
<1>3. AllTrue(s, K) /\ TrueSlot(s, x) /\ (OneEach(k) => OneEach(K)) /\ (NoTips(k) => NoTips(K))
  BY <1>1, <1>2 DEF AllTrue, OneEach, NoTips
<1>4. ASSUME NEW i, Listed(k, i) PROVE Listed(K, i) \/ (x.title = i /\ x.page # TipsPageNo)
  <2>1. PICK n \in 1 .. Len(k) : k[n].title = i /\ k[n].page # TipsPageNo
    BY <1>4 DEF Listed
  <2>2. CASE n = 1
    BY <1>1, <2>1, <2>2
  <2>3. CASE n # 1
    <3>1. n - 1 \in 1 .. Len(K) /\ (n - 1) + 1 = n
      BY <1>1, <2>3
    <3>2. K[n - 1] = k[n]
      BY <1>1, <3>1
    <3>. QED
      BY <2>1, <3>1, <3>2 DEF Listed
  <2>. QED
    BY <2>2, <2>3
<1>. QED
  BY <1>1, <1>2, <1>3, <1>4 DEF x, K

(* The slot looked at is of the programme kept last, or of a later one;    *)
(* then it is not one of the tips, as another slot of its programme would  *)
(* be in front of it.                                                      *)
LEMMA SlotLookedAt ==
  ASSUME PagesInv, FilterInv, OverlapInv, phase = "overlap", slots # <<>>
  PROVE  LET x == Head(slots) IN
         /\ x.start >= prev_stop =>
              \A m \in 1 .. Len(kept) : kept[m].title < x.title
         /\ Len(service.starts) > 1 =>
              IF x.start >= prev_stop THEN x.page # TipsPageNo ELSE Listed(kept, x.title)
<1>. DEFINE x == Head(slots)
            l == kept[Len(kept)]
<1>1. /\ IsService(service) /\ AllTrue(service, slots) /\ AllTrue(service, kept)
      /\ OneEach(kept) /\ (kept = <<>> => prev_stop = 0)
      /\ \A m, n \in 1 .. Len(slots) :
           m < n /\ slots[m].start = slots[n].start => slots[m].page <= slots[n].page
      /\ Len(service.starts) > 1 =>
           /\ NoTips(kept)
           /\ \A i \in 1 .. Len(service.starts) : Listed(kept, i) \/ Listed(slots, i)
      /\ slots \in Seq(OutSet) /\ kept \in Seq(OutSet) /\ prev_stop \in Nat
      /\ \A m \in 1 .. Len(kept), n \in 1 .. Len(slots) : kept[m].start <= slots[n].start
      /\ kept # <<>> => prev_stop = StopOrSecond(l)
  BY DEF PagesInv, FilterInv, OverlapInv
<1>2. /\ x \in OutSet /\ x = slots[1] /\ 1 \in 1 .. Len(slots) /\ TrueSlot(service, x)
      /\ Len(slots) \in Nat /\ Len(kept) \in Nat
  BY <1>1, ShorterList
<1>3. /\ x.title \in 1 .. Len(service.starts) /\ x.start = service.starts[x.title]
      /\ x.title \in Nat /\ x.start \in Nat /\ x.page \in Nat
  BY <1>2 DEF TrueSlot, OutSet
<1>. HIDE DEF x, l
<1>4. ASSUME kept # <<>>
      PROVE  /\ Len(kept) \in 1 .. Len(kept) /\ l \in OutSet /\ TrueSlot(service, l)
             /\ l.start <= x.start /\ prev_stop = StopOrSecond(l)
             /\ \A m \in 1 .. Len(kept) : m = Len(kept) \/ kept[m].title < l.title
  <2>1. Len(kept) \in 1 .. Len(kept)
    BY <1>1, <1>2, <1>4, EmptySeq
  <2>2. \A m \in 1 .. Len(kept) : m = Len(kept) \/ m < Len(kept)
    BY <1>2
  <2>. QED
    BY <1>1, <1>2, <1>4, <2>1, <2>2 DEF AllTrue, OneEach, l
<1>5. ASSUME x.start >= prev_stop, NEW m \in 1 .. Len(kept)
      PROVE  kept[m].title < x.title
  <2>1. kept # <<>>
    BY <1>2, EmptySeq
  <2>2. l.title < x.title
    BY <1>1, <1>2, <1>4, <1>5, <2>1, SlotsTell
  <2>3. kept[m].title \in Nat /\ l.title \in Nat
    <3>1. kept[m] \in OutSet /\ l \in OutSet
      BY <1>1, <1>4, <2>1
    <3>. QED
      BY <3>1 DEF OutSet
  <2>4. kept[m] = l \/ kept[m].title < l.title
    BY <1>4, <2>1 DEF l
  <2>. QED
    BY <1>3, <2>2, <2>3, <2>4
<1>6. ASSUME Len(service.starts) > 1, x.start >= prev_stop, x.page = TipsPageNo
      PROVE  FALSE
  <2>1. ~Listed(kept, x.title)
    <3>1. \A m \in 1 .. Len(kept) : kept[m].title # x.title
      <4>1. \A m \in 1 .. Len(kept) : kept[m].title \in Nat
        <5>1. \A m \in 1 .. Len(kept) : kept[m] \in OutSet
          BY <1>1
        <5>. QED
          BY <5>1 DEF OutSet
      <4>2. \A a, b \in Nat : a < b => a # b
        OBVIOUS
      <4>. QED
        BY <1>3, <1>5, <1>6, <4>1, <4>2
    <3>. QED
      BY <3>1 DEF Listed
  <2>2. PICK n \in 1 .. Len(slots) : slots[n].title = x.title /\ slots[n].page # TipsPageNo
    BY <1>1, <1>3, <1>6, <2>1 DEF Listed
  <2>3. TrueSlot(service, slots[n]) /\ slots[n] \in OutSet
    BY <1>1 DEF AllTrue
  <2>4. slots[n].start = x.start /\ slots[n].page <= TipsPageNo /\ slots[n].page \in Nat
    BY <1>3, <2>2, <2>3 DEF TrueSlot, OutSet
  <2>5. 1 < n
    BY <1>2, <1>6, <2>2
  <2>6. x.page <= slots[n].page
    BY <1>1, <1>2, <2>4, <2>5
  <2>. QED
    BY <1>6, <2>2, <2>4, <2>6 DEF TipsPageNo
<1>7. ASSUME Len(service.starts) > 1, ~(x.start >= prev_stop)
      PROVE  Listed(kept, x.title)
  <2>1. kept # <<>>
    BY <1>1, <1>3, <1>7
  <2>2. l.page # TipsPageNo
    BY <1>1, <1>4, <1>7, <2>1 DEF NoTips, l
  <2>3. x.start < StopOrSecond(l) /\ l.start <= x.start
    BY <1>1, <1>3, <1>4, <1>7, <2>1
  <2>4. l.title = x.title
    BY <1>1, <1>2, <1>4, <2>1, <2>2, <2>3, SlotsTell
  <2>. QED
    BY <1>4, <2>1, <2>2, <2>4 DEF Listed, l
<1>. QED
  BY <1>5, <1>6, <1>7 DEF x

LEMMA FilterOverlappingWhole ==
  PagesInv /\ FilterInv /\ WholeInv /\ FilterOverlapping => WholeInv'
<1>. SUFFICES ASSUME PagesInv, FilterInv, WholeInv, FilterOverlapping, Whole(service)
              PROVE  (PagesThere /\ LastPageWhole /\ StopsThere /\ OverlapInv /\ ExpireInv)'
  BY DEF WholeInv, FilterOverlapping
<1>. DEFINE x == Head(slots)
<1>1. /\ PagesThere /\ LastPageWhole /\ StopsThere /\ OverlapInv
      /\ service' = service /\ ov' = ov /\ db' = db
      /\ phase = "overlap" /\ phase' = "overlap" /\ slots # <<>> /\ slots' = Tail(slots)
      /\ IF x.start >= prev_stop
         THEN kept' = Append(kept, x) /\ prev_stop' = StopOrSecond(x)
         ELSE kept' = kept /\ prev_stop' = prev_stop
  BY DEF FilterOverlapping, WholeInv
<1>2. (PagesThere /\ LastPageWhole /\ StopsThere)'
  BY <1>1, PagesKept
<1>3. /\ AllTrue(service, slots) /\ AllTrue(service, kept)
      /\ OneEach(kept) /\ (kept = <<>> => prev_stop = 0)
      /\ \A m, n \in 1 .. Len(slots) :
           m < n /\ slots[m].start = slots[n].start => slots[m].page <= slots[n].page
      /\ Len(service.starts) > 1 =>
           /\ NoTips(kept)
           /\ \A i \in 1 .. Len(service.starts) : Listed(kept, i) \/ Listed(slots, i)
      /\ slots \in Seq(OutSet) /\ kept \in Seq(OutSet)
  BY <1>1 DEF FilterInv, OverlapInv
<1>4. /\ x.start >= prev_stop => \A m \in 1 .. Len(kept) : kept[m].title < x.title
      /\ Len(service.starts) > 1 =>
           IF x.start >= prev_stop THEN x.page # TipsPageNo ELSE Listed(kept, x.title)
  BY <1>1, SlotLookedAt
<1>5. /\ x \in OutSet /\ TrueSlot(service, x) /\ AllTrue(service, slots')
      /\ \A n \in 1 .. Len(slots') : slots'[n] = slots[n + 1] /\ n + 1 \in 1 .. Len(slots)
      /\ \A m, n \in 1 .. Len(slots') : m < n => m + 1 < n + 1
      /\ \A i : Listed(slots, i) => Listed(slots', i) \/ (x.title = i /\ x.page # TipsPageNo)
  BY <1>1, <1>3, ShorterList
<1>. HIDE DEF x
<1>6. \A m, n \in 1 .. Len(slots') :
        m < n /\ slots'[m].start = slots'[n].start => slots'[m].page <= slots'[n].page
  BY <1>3, <1>5
<1>7. CASE x.start >= prev_stop
  <2>1. /\ kept' # <<>> /\ AllTrue(service, kept') /\ OneEach(kept')
        /\ NoTips(kept) /\ x.page # TipsPageNo => NoTips(kept')
        /\ \A i : Listed(kept, i) => Listed(kept', i)
        /\ x.page # TipsPageNo => Listed(kept', x.title)
    <3>1. kept' = Append(kept, x)
      BY <1>1, <1>7
    <3>. QED
      BY <1>3, <1>4, <1>5, <1>7, <3>1, LongerList
  <2>. QED
    BY <1>1, <1>2, <1>3, <1>4, <1>5, <1>6, <1>7, <2>1 DEF OverlapInv, ExpireInv
<1>8. CASE ~(x.start >= prev_stop)
  <2>1. kept' = kept /\ prev_stop' = prev_stop
    BY <1>1, <1>8
  <2>. QED
    BY <1>1, <1>2, <1>3, <1>4, <1>5, <1>6, <1>8, <2>1 DEF OverlapInv, ExpireInv
<1>. QED
  BY <1>7, <1>8

LEMMA StartExpireWhole == PagesInv /\ WholeInv /\ StartExpire => WholeInv'
<1>. SUFFICES ASSUME PagesInv, WholeInv, StartExpire, Whole(service)
              PROVE  (PagesThere /\ LastPageWhole /\ StopsThere /\ OverlapInv /\ ExpireInv)'
  BY DEF WholeInv, StartExpire
<1>1. /\ PagesThere /\ LastPageWhole /\ StopsThere /\ OverlapInv
      /\ service' = service /\ ov' = ov /\ db' = db
      /\ phase = "overlap" /\ phase' = "expire" /\ slots = <<>>
      /\ slots' = kept /\ kept' = <<>>
  BY DEF StartExpire, WholeInv
<1>2. (PagesThere /\ LastPageWhole /\ StopsThere)'
  BY <1>1, PagesKept
<1>3. /\ AllTrue(service, slots') /\ OneEach(slots')
      /\ Len(service.starts) > 1 =>
           NoTips(slots') /\ \A i \in 1 .. Len(service.starts) : Listed(slots', i)
  <2>1. \A i : ~Listed(slots, i)
    BY <1>1, EmptySeq DEF Listed
  <2>. QED
    BY <1>1, <2>1 DEF OverlapInv
<1>4. Len(kept') = 0 /\ AllTrue(service, kept') /\ OneEach(kept') /\ NoTips(kept')
  BY <1>1, EmptySeq DEF AllTrue, OneEach, NoTips
<1>5. OverlapInv' /\ ExpireInv'
  BY <1>1, <1>3, <1>4 DEF OverlapInv, ExpireInv
<1>. QED
  BY <1>2, <1>5

LEMMA FilterExpiredWhole ==
  PagesInv /\ FilterInv /\ WholeInv /\ FilterExpired => WholeInv'
<1>. SUFFICES ASSUME PagesInv, FilterInv, WholeInv, FilterExpired, Whole(service)
              PROVE  (PagesThere /\ LastPageWhole /\ StopsThere /\ OverlapInv /\ ExpireInv)'
  BY DEF WholeInv, FilterExpired
<1>. DEFINE x == Head(slots)
            s == service
            Due(i) == Soon(s, i) /\ s.starts[i + 1] >= now - ExpireMin
<1>1. /\ PagesThere /\ LastPageWhole /\ StopsThere /\ ExpireInv
      /\ service' = service /\ ov' = ov /\ db' = db /\ now' = now
      /\ phase = "expire" /\ phase' = "expire" /\ slots # <<>> /\ slots' = Tail(slots)
      /\ kept' = IF Unexpired(x) THEN Append(kept, x) ELSE kept
  BY DEF FilterExpired, WholeInv
<1>2. (PagesThere /\ LastPageWhole /\ StopsThere)'
  BY <1>1, PagesKept
<1>3. /\ AllTrue(s, slots) /\ AllTrue(s, kept) /\ OneEach(slots) /\ OneEach(kept)
      /\ \A m \in 1 .. Len(kept), n \in 1 .. Len(slots) : kept[m].title < slots[n].title
      /\ Len(s.starts) > 1 =>
           /\ NoTips(slots) /\ NoTips(kept)
           /\ \A i \in 1 .. Len(s.starts) : Due(i) => Listed(kept, i) \/ Listed(slots, i)
      /\ slots \in Seq(OutSet) /\ kept \in Seq(OutSet)
  BY <1>1 DEF FilterInv, ExpireInv
<1>4. /\ x \in OutSet /\ x = slots[1] /\ 1 \in 1 .. Len(slots) /\ TrueSlot(s, x)
      /\ AllTrue(s, slots') /\ OneEach(slots') /\ (NoTips(slots) => NoTips(slots'))
      /\ \A n \in 1 .. Len(slots') :
           slots'[n] = slots[n + 1] /\ n + 1 \in 1 .. Len(slots) /\ 1 < n + 1
      /\ \A i : Listed(slots, i) => Listed(slots', i) \/ (x.title = i /\ x.page # TipsPageNo)
  BY <1>1, <1>3, ShorterList
<1>. HIDE DEF x
<1>5. /\ \A m \in 1 .. Len(kept) : kept[m].title < x.title
      /\ \A n \in 1 .. Len(slots') : x.title < slots'[n].title
      /\ \A m \in 1 .. Len(kept), n \in 1 .. Len(slots') : kept[m].title < slots'[n].title
  BY <1>3, <1>4 DEF OneEach
<1>6. ASSUME x.page # TipsPageNo, Due(x.title) PROVE Unexpired(x)
  <2>1. x.stop = s.starts[x.title + 1] /\ x.stop # NoTime
    BY <1>4, <1>6 DEF TrueSlot, TrueStop
  <2>. QED
    BY <1>6, <2>1 DEF Unexpired
<1>7. CASE Unexpired(x)
  <2>1. /\ Len(kept') = Len(kept) + 1 /\ Len(kept) \in Nat
        /\ \A m \in 1 .. Len(kept') : kept'[m] = IF m = Len(kept) + 1 THEN x ELSE kept[m]
        /\ AllTrue(s, kept') /\ OneEach(kept')
        /\ NoTips(kept) /\ x.page # TipsPageNo => NoTips(kept')
        /\ \A i : Listed(kept, i) => Listed(kept', i)
        /\ x.page # TipsPageNo => Listed(kept', x.title)
    <3>1. kept' = Append(kept, x)
      BY <1>1, <1>7
    <3>2. Len(kept) \in Nat
      BY <1>3, LenProperties
    <3>. QED
      BY <1>3, <1>4, <1>5, <3>1, <3>2, LongerList
  <2>2. \A m \in 1 .. Len(kept'), n \in 1 .. Len(slots') : kept'[m].title < slots'[n].title
    <3>1. \A m \in 1 .. Len(kept') : m = Len(kept) + 1 \/ m \in 1 .. Len(kept)
      BY <2>1
    <3>. QED
      BY <1>5, <2>1, <3>1
  <2>3. NoTips(slots) => x.page # TipsPageNo
    BY <1>4 DEF NoTips
  <2>4. ASSUME Len(s.starts) > 1, NEW i \in 1 .. Len(s.starts), Due(i)
        PROVE  Listed(kept', i) \/ Listed(slots', i)
    BY <1>3, <1>4, <2>1, <2>4
  <2>5. OverlapInv' /\ ExpireInv'
    BY <1>1, <1>3, <1>4, <2>1, <2>2, <2>3, <2>4 DEF OverlapInv, ExpireInv
  <2>. QED
    BY <1>2, <2>5
<1>8. CASE ~Unexpired(x)
  <2>1. kept' = kept
    BY <1>1, <1>8
  <2>2. ASSUME Len(s.starts) > 1, NEW i \in 1 .. Len(s.starts), Due(i)
        PROVE  Listed(kept', i) \/ Listed(slots', i)
    BY <1>3, <1>4, <1>6, <1>8, <2>1, <2>2
  <2>3. OverlapInv' /\ ExpireInv'
    BY <1>1, <1>3, <1>4, <1>5, <2>1, <2>2 DEF OverlapInv, ExpireInv
  <2>. QED
    BY <1>2, <2>3
<1>. QED
  BY <1>7, <1>8

LEMMA FinishWhole == PagesInv /\ WholeInv /\ Finish => WholeInv'
<1>. SUFFICES ASSUME PagesInv, WholeInv, Finish, Whole(service)
              PROVE  (PagesThere /\ LastPageWhole /\ StopsThere /\ OverlapInv /\ ExpireInv)'
  BY DEF WholeInv, Finish
<1>1. /\ PagesThere /\ LastPageWhole /\ StopsThere /\ ExpireInv
      /\ service' = service /\ ov' = ov /\ db' = db /\ now' = now
      /\ phase = "expire" /\ phase' = "done" /\ slots = <<>>
      /\ slots' = slots /\ kept' = kept
  BY DEF Finish, WholeInv
<1>2. (PagesThere /\ LastPageWhole /\ StopsThere)'
  BY <1>1, PagesKept
<1>3. OverlapInv' /\ ExpireInv'
  BY <1>1 DEF OverlapInv, ExpireInv
<1>. QED
  BY <1>2, <1>3

LEMMA WholeStep == PagesInv /\ TimesInv /\ FilterInv /\ WholeInv /\ [Next]_vars => WholeInv'
<1>. SUFFICES ASSUME PagesInv, TimesInv, FilterInv, WholeInv, [Next]_vars PROVE WholeInv'
  OBVIOUS
<1>1. CASE UNCHANGED vars
  <2>1. WholeInv' = WholeInv
    BY <1>1 DEF vars, WholeInv, PagesThere, LastPageWhole, StopsThere, OverlapInv, ExpireInv,
                Untouched, Stopped
  <2>. QED
    BY <2>1
<1>2. CASE ParsePage
  BY <1>2, ParsePageWhole
<1>3. CASE StartDates
  BY <1>3, StartDatesWhole
<1>4. CASE DatePage
  BY <1>4, DatePageWhole
<1>5. CASE StartStops
  BY <1>5, StartStopsWhole
<1>6. CASE StopPage
  BY <1>6, StopPageWhole
<1>7. CASE StartOverlap
  BY <1>7, StartOverlapWhole
<1>8. CASE FilterOverlapping
  BY <1>8, FilterOverlappingWhole
<1>9. CASE StartExpire
  BY <1>9, StartExpireWhole
<1>10. CASE FilterExpired
  BY <1>10, FilterExpiredWhole
<1>11. CASE Finish
  BY <1>11, FinishWhole
<1>. QED
  BY <1>1, <1>2, <1>3, <1>4, <1>5, <1>6, <1>7, <1>8, <1>9, <1>10, <1>11 DEF Next

LEMMA WholeInvariant == Spec => [](PagesInv /\ FilterInv /\ WholeInv)
<1>1. Init => FilterInv /\ WholeInv
  BY FilterInit, WholeInit
<1>2. PagesInv /\ TimesInv /\ FilterInv /\ WholeInv /\ [Next]_vars => (FilterInv /\ WholeInv)'
  BY FilterStep, WholeStep
<1>. QED
  BY <1>1, <1>2, PagesInvariant, TimesInvariant, PTL DEF Spec

(* Of a service that was received completely, one slot is left of every    *)
(* programme that was still running ExpireMin ago, if the next one starts  *)
(* within 9 hours, and never a second: whichever of its two pages a        *)
(* repeated programme is dropped from, FilterOverlappingSlots() drops only *)
(* slots of programmes it has, and FilterExpiredSlots() only what is over. *)
THEOREM NothingIsLost == Spec => []CompleteSchedule
<1>1. PagesInv /\ FilterInv /\ WholeInv => CompleteSchedule
  <2>. SUFFICES ASSUME PagesInv, FilterInv, WholeInv, phase = "done", Whole(service),
                       NEW i \in Programmes(service)
                PROVE  LET found == {n \in DOMAIN kept : kept[n].title = i}
                           next  == service.starts[i + 1]
                       IN /\ Cardinality(found) <= 1
                          /\ i < Len(service.starts) /\ next - service.starts[i] < 9 * 60
                               /\ next >= now - ExpireMin => found # {}
    BY DEF CompleteSchedule, Whole
  <2>. DEFINE found == {n \in DOMAIN kept : kept[n].title = i}
  <2>1. /\ OneEach(kept) /\ Len(slots) = 0
        /\ kept \in Seq(OutSet) /\ Len(kept) \in Nat /\ DOMAIN kept = 1 .. Len(kept)
        /\ i \in 1 .. Len(service.starts) /\ i \in Nat /\ Len(service.starts) \in Nat
        /\ Len(service.starts) > 1 /\ Soon(service, i)
             /\ service.starts[i + 1] >= now - ExpireMin =>
             Listed(kept, i) \/ Listed(slots, i)
    <3>1. ExpireInv /\ slots = <<>> /\ IsService(service) /\ kept \in Seq(OutSet)
      BY DEF WholeInv, ExpireInv, PagesInv, FilterInv
    <3>2. Len(slots) = 0
      BY <3>1, EmptySeq
    <3>3. Len(service.starts) \in Nat
      BY <3>1, ServiceParts
    <3>. QED
      BY <3>1, <3>2, <3>3, LenProperties DEF ExpireInv, Programmes
  <2>2. \A m, n \in found : m = n
    <3>1. SUFFICES ASSUME NEW m \in found, NEW n \in found, m < n PROVE FALSE
      BY <2>1
    <3>2. kept[m].title < kept[n].title /\ kept[m].title = i /\ kept[n].title = i
      BY <2>1, <3>1 DEF OneEach
    <3>. QED
      BY <2>1, <3>2
  <2>3. ASSUME i < Len(service.starts), service.starts[i + 1] - service.starts[i] < 9 * 60,
               service.starts[i + 1] >= now - ExpireMin
        PROVE  found # {}
    <3>1. Listed(kept, i)
      BY <2>1, <2>3 DEF Soon, Listed
    <3>. QED
      BY <2>1, <3>1 DEF Listed
  <2>. HIDE DEF found
  <2>4. Cardinality(found) <= 1
    <3>1. CASE found = {}
      BY <3>1, FS_EmptySet
    <3>2. CASE found # {}
      <4>1. PICK m \in found : found = {m}
        BY <2>2, <3>2
      <4>2. Cardinality({m}) = 1
        BY FS_Singleton
      <4>. QED
        BY <4>1, <4>2
    <3>. QED
      BY <3>1, <3>2
  <2>. QED
    BY <2>3, <2>4 DEF found
<1>. QED
  BY <1>1, WholeInvariant, PTL
=============================================================================
