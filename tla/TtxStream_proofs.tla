-------------------------- MODULE TtxStream_proofs --------------------------
(* Proofs about the reception of a teletext service, for every set of      *)
(* pages, every loss pattern and either transmission mode.                 *)
EXTENDS TtxStream, FiniteSetTheorems, TLAPS

(* The packets feed_ttx_pkg() hands to the loop.                           *)
Decoded(p) ==
  /\ p.mag \in Mag
  /\ p.pkg \in Pkg
  /\ p.data \in Data
  /\ p.pkg = 0 => /\ p.page \in Page
                  /\ p.sub \in Sub
                  /\ p.serial \in BOOLEAN

(* The magazine computed from a page number is one of the eight.           *)
LEMMA MagOfType == \A page \in Page : MagOf(page) \in Mag
BY AcqAssumption DEF MagOf, Mag

LEMMA HeaderDecoded ==
  ASSUME TypeOK, NEW h \in Handle, NEW c \in Modes, NEW hide \in Hide
  PROVE  /\ Decoded(Header(h, c, hide))
         /\ Header(h, c, hide).mag = MagOf(h[1])
         /\ Header(h, c, hide).pkg = 0
         /\ Header(h, c, hide).page = h[1]
         /\ Header(h, c, hide).sub = h[2]
         /\ Header(h, c, hide).serial = c
         /\ Header(h, c, hide).data = h
<1>1. h[1] \in Page /\ h[2] \in Sub
  BY DEF Handle
<1>2. h \in Data /\ c \in BOOLEAN /\ 0 \in Pkg
  BY AcqAssumption, StreamAssumption DEF TypeOK, AirType, Modes
<1>. QED
  BY <1>1, <1>2, MagOfType DEF Header, Decoded

LEMMA RowDecoded ==
  ASSUME NEW m \in Mag, NEW k \in Pkg \ {0}, TypeOK, tx[m] # Idle
  PROVE  /\ Decoded(Row(m, k))
         /\ Row(m, k).mag = m
         /\ Row(m, k).pkg = k
         /\ Row(m, k).data = tx[m]
<1>1. tx[m] \in Handle /\ tx[m] \in Data
  BY StreamAssumption DEF TypeOK
<1>. QED
  BY <1>1 DEF Row, Decoded

(* Type correctness of the parts a packet changes.                         *)
LEMMA SerialRuleType ==
  ASSUME AcqTypeOK, NEW p, p.mag \in Mag
  PROVE  /\ AfterSerialRule(p) \in [Mag -> Page \union {NoPage}]
         /\ AfterSerialRule(p)[p.mag] = cur_page[p.mag]
         /\ \A m \in Mag : AfterSerialRule(p)[m] \in {cur_page[m], NoPage}
BY DEF AcqTypeOK, AfterSerialRule

LEMMA AddBttType ==
  ASSUME AcqTypeOK, NEW page, NEW k \in Pkg, NEW d \in Data, IsTopPage(page),
         AddBttPkg(page, k, d)
  PROVE  /\ have' \in SUBSET Table
         /\ link' \in Links
         /\ top_tab' \in [Table -> [Pkg -> Data \union {NoData}]]
<1>1. TopKind(page) \in Table
  BY DEF IsTopPage, TopKind, Table
<1>2. LinkOf[d] \in Links /\ NoLink \in Links
  BY AcqAssumption DEF NoLink, Links
<1>. QED
  BY <1>1, <1>2 DEF AddBttPkg, AcqTypeOK

LEMMA AddPageDataType ==
  ASSUME AcqTypeOK, NEW h \in Handle, NEW k \in Pkg, NEW d \in Data,
         AddPageData(h, k, d)
  PROVE  /\ reps' = reps
         /\ row' \in [Handle -> [Pkg -> Data \union {NoData}]]
         /\ have' \in SUBSET Table
         /\ link' \in Links
         /\ top_tab' \in [Table -> [Pkg -> Data \union {NoData}]]
<1>1. CASE IsTopPage(h[1]) /\ AddBttPkg(h[1], k, d) /\ UNCHANGED db
  BY <1>1, AddBttType DEF db, AcqTypeOK
<1>2. CASE /\ row' = IF InDb(h) THEN [row EXCEPT ![h][k] = d] ELSE row
           /\ UNCHANGED <<reps, btt>>
  BY <1>2 DEF btt, AcqTypeOK
<1>. QED
  BY <1>1, <1>2 DEF AddPageData

LEMMA AddPageType ==
  ASSUME AcqTypeOK, NEW h \in Handle, NEW d \in Data, AddPage(h, d)
  PROVE  /\ reps' \in [Handle -> Nat]
         /\ row' \in [Handle -> [Pkg -> Data \union {NoData}]]
         /\ UNCHANGED btt
BY AcqAssumption DEF AddPage, AcqTypeOK

LEMMA AddPkgType ==
  ASSUME AcqTypeOK, NEW p, Decoded(p), AddPkg(p),
         running' \in BOOLEAN, intv' \in 0 .. CheckInterval,
         running' => intv' < CheckInterval
  PROVE  AcqTypeOK'
<1>1. p.mag \in Mag /\ p.pkg \in Pkg /\ p.data \in Data
  BY DEF Decoded
<1>2. CASE RejectHeader(p)
  BY <1>1, <1>2, SerialRuleType DEF RejectHeader, AcqTypeOK, db, btt
<1>3. CASE AcceptHeader(p)
  <2>. DEFINE h == <<p.page, p.sub>>
              d == IF p.suppress THEN Blank ELSE p.data
  <2>1. h \in Handle /\ d \in Data /\ 0 \in Pkg /\ p.serial \in BOOLEAN
    BY <1>1, <1>3, AcqAssumption DEF Decoded, AcceptHeader, Handle
  <2>2. AddPage(h, d) \/ AddPageData(h, 0, d)
    BY <1>3 DEF AcceptHeader
  <2>3. /\ reps' \in [Handle -> Nat]
        /\ row' \in [Handle -> [Pkg -> Data \union {NoData}]]
        /\ have' \in SUBSET Table
        /\ link' \in Links
        /\ top_tab' \in [Table -> [Pkg -> Data \union {NoData}]]
    BY <2>1, <2>2, AddPageType, AddPageDataType DEF AcqTypeOK, btt
  <2>4. /\ is_mag_serial' = p.serial
        /\ cur_page' = [AfterSerialRule(p) EXCEPT ![p.mag] = p.page]
        /\ cur_sub' = [cur_sub EXCEPT ![p.mag] = p.sub]
        /\ prev_pkg' = [prev_pkg EXCEPT ![p.mag] = 0]
        /\ prev_mag' = p.mag
    BY <1>3 DEF AcceptHeader
  <2>5. p.page \in Page /\ p.sub \in Sub
    BY <1>3 DEF Decoded, AcceptHeader
  <2>. QED
    BY <1>1, <2>1, <2>3, <2>4, <2>5, SerialRuleType DEF AcqTypeOK
<1>4. CASE AcceptRow(p)
  <2>1. <<cur_page[p.mag], cur_sub[p.mag]>> \in Handle
    BY <1>1, <1>4 DEF AcceptRow, AcqTypeOK, Handle
  <2>2. AddPageData(<<cur_page[p.mag], cur_sub[p.mag]>>, p.pkg, p.data)
    BY <1>4 DEF AcceptRow
  <2>3. prev_pkg' \in [Mag -> 0 .. 25]
    BY <1>1, <1>4 DEF AcceptRow, AcqTypeOK
  <2>. QED
    BY <1>1, <1>4, <2>1, <2>2, <2>3, SerialRuleType, AddPageDataType
    DEF AcceptRow, AcqTypeOK
<1>5. CASE RowOutOfOrder(p)
  BY <1>1, <1>5, SerialRuleType DEF RowOutOfOrder, AcqTypeOK, db, btt
<1>6. CASE IgnoreRow(p)
  BY <1>1, <1>6, SerialRuleType DEF IgnoreRow, AcqTypeOK, db, btt
<1>. QED
  BY <1>2, <1>3, <1>4, <1>5, <1>6 DEF AddPkg

LEMMA ReadVbiType ==
  ASSUME AcqTypeOK, NEW p, Decoded(p), ReadVbi(p)
  PROVE  AcqTypeOK'
<1>1. CASE StopOnStats(p)
  <2>1. intv' \in 0 .. CheckInterval /\ running' = FALSE
    BY <1>1, AcqAssumption DEF StopOnStats, AcqTypeOK
  <2>. QED
    BY <1>1, <2>1 DEF StopOnStats, AcqTypeOK, acq, db, btt
<1>2. CASE HandlePkg(p)
  <2>1. intv' \in 0 .. CheckInterval /\ (running' => intv' < CheckInterval)
    BY <1>2, AcqAssumption DEF HandlePkg, CheckDue, AcqTypeOK
  <2>2. running' \in BOOLEAN /\ AddPkg(p)
    BY <1>2 DEF HandlePkg, AcqTypeOK
  <2>. QED
    BY <2>1, <2>2, AddPkgType
<1>. QED
  BY <1>1, <1>2 DEF ReadVbi

(* Every reachable state of the receiver and of the service is well typed. *)
THEOREM TypeCorrect == Spec => []TypeOK
<1>1. Init => TypeOK
  <2>. SUFFICES ASSUME Init PROVE TypeOK
    OBVIOUS
  <2>1. link \in Links /\ have \in SUBSET Table
    BY DEF Init, AcqInit, Links, NoLink
  <2>2. /\ reps \in [Handle -> Nat]
        /\ row \in [Handle -> [Pkg -> Data \union {NoData}]]
        /\ top_tab \in [Table -> [Pkg -> Data \union {NoData}]]
    BY DEF Init, AcqInit
  <2>3. /\ cur_page \in [Mag -> Page \union {NoPage}]
        /\ cur_sub \in [Mag -> Sub]
        /\ prev_pkg \in [Mag -> 0 .. 25]
        /\ prev_mag \in Mag /\ is_mag_serial \in BOOLEAN
    <3>1. 0 \in Sub /\ 0 \in Mag /\ 0 \in 0 .. 25
      BY AcqAssumption DEF Mag
    <3>. QED
      BY <3>1 DEF Init, AcqInit
  <2>4. intv \in 0 .. CheckInterval /\ intv < CheckInterval /\ running \in BOOLEAN
    BY AcqAssumption DEF Init, AcqInit
  <2>5. tx \in [Mag -> Handle \union {Idle}] /\ tx_row \in [Mag -> 0 .. 25] /\ air \in Airs
    BY DEF Init
  <2>. QED
    BY <2>1, <2>2, <2>3, <2>4, <2>5 DEF TypeOK, AcqTypeOK
<1>2. TypeOK /\ [Next]_vars => TypeOK'
  <2>. SUFFICES ASSUME TypeOK, [Next]_vars PROVE TypeOK'
    OBVIOUS
  <2>1. ASSUME NEW h \in Handle, NEW c \in Modes, StartPage(h, c)
        PROVE  /\ tx' \in [Mag -> Handle \union {Idle}]
               /\ tx_row' \in [Mag -> 0 .. 25] /\ air' \in Airs
    BY <2>1, MagOfType DEF StartPage, TypeOK, Handle
  <2>2. ASSUME NEW m \in Mag, NEW k \in Pkg \ {0}, SendRow(m, k)
        PROVE  /\ tx' \in [Mag -> Handle \union {Idle}]
               /\ tx_row' \in [Mag -> 0 .. 25] /\ air' \in Airs
    <3>1. k \in Nat
      BY AcqAssumption
    <3>. QED
      BY <2>2, <3>1 DEF SendRow, TypeOK
  <2>3. ASSUME NEW h \in Handle, NEW c \in Modes, NEW hide \in Hide,
               ReceiveHeader(h, c, hide)
        PROVE  TypeOK'
    BY <2>1, <2>3, HeaderDecoded, ReadVbiType DEF ReceiveHeader, TypeOK
  <2>4. ASSUME NEW m \in Mag, NEW k \in Pkg \ {0}, ReceiveRow(m, k)
        PROVE  TypeOK'
    <3>1. tx[m] # Idle
      BY <2>4 DEF ReceiveRow, SendRow
    <3>. QED
      BY <2>2, <2>4, <3>1, RowDecoded, ReadVbiType DEF ReceiveRow, TypeOK
  <2>5. ASSUME NEW h \in Handle, NEW c \in Modes, LoseHeader(h, c)
        PROVE  TypeOK'
    BY <2>1, <2>5 DEF LoseHeader, TypeOK, AcqTypeOK, acqVars
  <2>6. ASSUME NEW m \in Mag, NEW k \in Pkg \ {0}, LoseRow(m, k)
        PROVE  TypeOK'
    BY <2>2, <2>6 DEF LoseRow, TypeOK, AcqTypeOK, acqVars
  <2>7. ASSUME NEW m \in Mag, TimeFilling(m)
        PROVE  TypeOK'
    BY <2>7 DEF TimeFilling, TypeOK, AcqTypeOK, acqVars
  <2>8. CASE SourceEnds
    BY <2>8 DEF SourceEnds, EndOfInput, TypeOK, AcqTypeOK, acq, db, btt, txVars
  <2>9. CASE UNCHANGED vars
    BY <2>9 DEF vars, acqVars, TypeOK, AcqTypeOK
  <2>. QED
    BY <2>3, <2>4, <2>5, <2>6, <2>7, <2>8, <2>9 DEF Next
<1>. QED
  BY <1>1, <1>2, PTL DEF Spec

-----------------------------------------------------------------------------
(* What one packet can do to the open pages and to the stored rows.        *)

(* A packet leaves the page open in a magazine alone, closes it, or is the *)
(* header that opens another one.                                          *)
LEMMA OpenPagesStep ==
  ASSUME AcqTypeOK, NEW p, Decoded(p), AddPkg(p), NEW m \in Mag, cur_page'[m] # NoPage
  PROVE  \/ cur_page'[m] = cur_page[m] /\ cur_sub'[m] = cur_sub[m]
         \/ p.pkg = 0 /\ p.mag = m /\ cur_page'[m] = p.page /\ cur_sub'[m] = p.sub
<1>1. p.mag \in Mag
  BY DEF Decoded
<1>2. CASE AcceptHeader(p)
  BY <1>1, <1>2, SerialRuleType DEF AcceptHeader, AcqTypeOK
<1>3. CASE RejectHeader(p)
  BY <1>1, <1>3, SerialRuleType DEF RejectHeader, AcqTypeOK
<1>4. CASE AcceptRow(p)
  BY <1>1, <1>4, SerialRuleType DEF AcceptRow, AcqTypeOK
<1>5. CASE RowOutOfOrder(p)
  BY <1>1, <1>5, SerialRuleType DEF RowOutOfOrder, AcqTypeOK
<1>6. CASE IgnoreRow(p)
  BY <1>1, <1>6, SerialRuleType DEF IgnoreRow, AcqTypeOK
<1>. QED
  BY <1>2, <1>3, <1>4, <1>5, <1>6 DEF AddPkg

LEMMA AddPageDataStep ==
  ASSUME AcqTypeOK, NEW h \in Handle, NEW k \in Pkg, NEW d, AddPageData(h, k, d),
         NEW g \in Handle, NEW j \in Pkg
  PROVE  \/ row'[g][j] = row[g][j]
         \/ g = h /\ j = k /\ row'[g][j] = d /\ ~IsTopPage(h[1])
BY DEF AddPageData, AcqTypeOK, db

(* A stored row changes by a header of that page, or by a row received     *)
(* while that page was the open one of the packet's magazine.              *)
LEMMA StoredRowsStep ==
  ASSUME AcqTypeOK, NEW p, Decoded(p), AddPkg(p), NEW g \in Handle, NEW j \in Pkg
  PROVE  \/ row'[g][j] = row[g][j]
         \/ /\ p.pkg = 0 /\ j = 0
            /\ g = <<p.page, p.sub>>
            /\ row'[g][j] \in {Blank, p.data}
         \/ /\ p.pkg # 0 /\ j = p.pkg
            /\ cur_page[p.mag] # NoPage
            /\ g = <<cur_page[p.mag], cur_sub[p.mag]>>
            /\ row'[g][j] = p.data
            /\ ~IsTopPage(g[1])
<1>1. p.mag \in Mag /\ p.pkg \in Pkg
  BY DEF Decoded
<1>2. CASE AcceptHeader(p)
  <2>. DEFINE h == <<p.page, p.sub>>
              d == IF p.suppress THEN Blank ELSE p.data
  <2>1. h \in Handle /\ p.pkg = 0 /\ 0 \in Pkg
    BY <1>1, <1>2 DEF Decoded, AcceptHeader, Handle
  <2>2. CASE AddPage(h, d)
    BY <2>1, <2>2 DEF AddPage, AcqTypeOK
  <2>3. CASE AddPageData(h, 0, d)
    BY <2>1, <2>3, AddPageDataStep
  <2>. QED
    BY <1>2, <2>2, <2>3 DEF AcceptHeader
<1>3. CASE AcceptRow(p)
  <2>1. <<cur_page[p.mag], cur_sub[p.mag]>> \in Handle
    BY <1>1, <1>3 DEF AcceptRow, AcqTypeOK, Handle
  <2>2. AddPageData(<<cur_page[p.mag], cur_sub[p.mag]>>, p.pkg, p.data)
        /\ cur_page[p.mag] # NoPage /\ p.pkg # 0
    BY <1>3 DEF AcceptRow
  <2>. QED
    BY <1>1, <2>1, <2>2, AddPageDataStep
<1>4. CASE RejectHeader(p) \/ RowOutOfOrder(p) \/ IgnoreRow(p)
  BY <1>4 DEF RejectHeader, RowOutOfOrder, IgnoreRow, db
<1>. QED
  BY <1>2, <1>3, <1>4 DEF AddPkg

-----------------------------------------------------------------------------
(* Every stored row belongs to its page                                    *)

(* With reliable headers the open page of a magazine is the one on the air *)
(* there.  Alone, NoMisfiledRow is not inductive: it says nothing of where *)
(* the next row will be stored.                                            *)
OpenIsOnAir ==
  ReliableHeaders /\ running =>
    \A m \in Mag : cur_page[m] # NoPage /\ tx[m] # Idle =>
      tx[m] = <<cur_page[m], cur_sub[m]>>

FiledInv == TypeOK /\ OpenIsOnAir /\ NoMisfiledRow

LEMMA FiledHeader ==
  ASSUME FiledInv, NEW h \in Handle, NEW c \in Modes, NEW hide \in Hide,
         ReceiveHeader(h, c, hide)
  PROVE  OpenIsOnAir' /\ NoMisfiledRow'
<1>. DEFINE p == Header(h, c, hide)
<1>0. AcqTypeOK /\ h = <<h[1], h[2]>> /\ MagOf(h[1]) \in Mag
  BY MagOfType DEF FiledInv, TypeOK, Handle
<1>1. /\ Decoded(p) /\ p.mag = MagOf(h[1]) /\ p.pkg = 0
      /\ p.page = h[1] /\ p.sub = h[2] /\ p.data = h
  BY HeaderDecoded DEF FiledInv
<1>2. StartPage(h, c) /\ ReadVbi(p) /\ air' = air
  BY DEF ReceiveHeader, StartPage
<1>3. CASE AddPkg(p) /\ running
  <2>1. ASSUME ReliableHeaders, running, NEW m \in Mag, cur_page'[m] # NoPage, tx'[m] # Idle
        PROVE  tx'[m] = <<cur_page'[m], cur_sub'[m]>>
    <3>1. CASE m = MagOf(h[1])
      <4>1. tx'[m] = h
        BY <1>2, <3>1 DEF StartPage
      <4>2. cur_page'[m] = h[1] /\ cur_sub'[m] = h[2]
        BY <1>1, <1>3, <2>1, <3>1, <1>0, SerialRuleType
        DEF AddPkg, AcceptHeader, RejectHeader, AcceptRow, RowOutOfOrder, IgnoreRow, AcqTypeOK
      <4>. QED
        BY <4>1, <4>2, <1>0
    <3>2. CASE m # MagOf(h[1])
      <4>1. tx'[m] = tx[m]
        BY <1>2, <2>1, <3>2 DEF StartPage
      <4>2. cur_page'[m] = cur_page[m] /\ cur_sub'[m] = cur_sub[m]
        BY <1>0, <1>1, <1>3, <2>1, <3>2, OpenPagesStep
      <4>. QED
        BY <4>1, <4>2, <2>1 DEF FiledInv, OpenIsOnAir
    <3>. QED
      BY <3>1, <3>2
  <2>2. ASSUME ReliableHeaders, NEW g \in Handle, NEW k \in Pkg
        PROVE  row'[g][k] \in {NoData, Blank, g}
    <3>1. row[g][k] \in {NoData, Blank, g}
      BY <2>2 DEF FiledInv, NoMisfiledRow
    <3>. QED
      BY <3>1, <1>0, <1>1, <1>3, StoredRowsStep
  <2>. QED
    BY <1>2, <1>3, <2>1, <2>2 DEF OpenIsOnAir, NoMisfiledRow, ReliableHeaders, Loss
<1>4. CASE StopOnStats(p)
  <2>1. row' = row /\ running' = FALSE
    BY <1>4 DEF StopOnStats, db
  <2>. QED
    BY <1>2, <2>1 DEF FiledInv, OpenIsOnAir, NoMisfiledRow, ReliableHeaders, Loss
<1>. QED
  BY <1>2, <1>3, <1>4 DEF ReadVbi, HandlePkg

LEMMA FiledRow ==
  ASSUME FiledInv, NEW m \in Mag, NEW k \in Pkg \ {0}, ReceiveRow(m, k)
  PROVE  OpenIsOnAir' /\ NoMisfiledRow'
<1>. DEFINE p == Row(m, k)
<1>1. SendRow(m, k) /\ ReadVbi(p) /\ tx[m] # Idle /\ tx' = tx /\ air' = air
  BY DEF ReceiveRow, SendRow
<1>2. Decoded(p) /\ p.mag = m /\ p.pkg = k /\ p.data = tx[m] /\ AcqTypeOK
  BY <1>1, RowDecoded DEF FiledInv, TypeOK
<1>3. HandlePkg(p) /\ AddPkg(p) /\ running
  BY <1>1, <1>2 DEF ReadVbi, StopOnStats, CheckDue, HandlePkg
<1>4. ASSUME ReliableHeaders, NEW n \in Mag, cur_page'[n] # NoPage, tx'[n] # Idle
      PROVE  tx'[n] = <<cur_page'[n], cur_sub'[n]>>
  <2>1. cur_page'[n] = cur_page[n] /\ cur_sub'[n] = cur_sub[n]
    BY <1>2, <1>3, <1>4, OpenPagesStep
  <2>. QED
    BY <1>1, <1>3, <1>4, <2>1 DEF FiledInv, OpenIsOnAir
<1>5. ASSUME ReliableHeaders, NEW g \in Handle, NEW j \in Pkg
      PROVE  row'[g][j] \in {NoData, Blank, g}
  <2>1. row[g][j] \in {NoData, Blank, g}
    BY <1>5 DEF FiledInv, NoMisfiledRow
  <2>2. cur_page[m] # NoPage => tx[m] = <<cur_page[m], cur_sub[m]>>
    BY <1>1, <1>3, <1>5 DEF FiledInv, OpenIsOnAir
  <2>. QED
    BY <1>2, <1>3, <2>1, <2>2, StoredRowsStep
<1>. QED
  BY <1>1, <1>4, <1>5 DEF OpenIsOnAir, NoMisfiledRow, ReliableHeaders, Loss

LEMMA FiledInvariant == Spec => []FiledInv
<1>1. Init => OpenIsOnAir /\ NoMisfiledRow
  BY DEF Init, AcqInit, OpenIsOnAir, NoMisfiledRow
<1>2. TypeOK /\ OpenIsOnAir /\ NoMisfiledRow /\ [Next]_vars
        => (OpenIsOnAir /\ NoMisfiledRow)'
  <2>. SUFFICES ASSUME FiledInv, [Next]_vars
                PROVE  OpenIsOnAir' /\ NoMisfiledRow'
    BY DEF FiledInv
  <2>1. ASSUME NEW h \in Handle, NEW c \in Modes, LoseHeader(h, c)
        PROVE  OpenIsOnAir' /\ NoMisfiledRow'
    BY <2>1 DEF LoseHeader, StartPage, ReliableHeaders, Loss, OpenIsOnAir, NoMisfiledRow
  <2>2. ASSUME NEW m \in Mag, NEW k \in Pkg \ {0}, LoseRow(m, k)
        PROVE  OpenIsOnAir' /\ NoMisfiledRow'
    BY <2>2 DEF LoseRow, SendRow, acqVars, ReliableHeaders, Loss, FiledInv, OpenIsOnAir, NoMisfiledRow
  <2>3. ASSUME NEW m \in Mag, TimeFilling(m)
        PROVE  OpenIsOnAir' /\ NoMisfiledRow'
    BY <2>3 DEF TimeFilling, acqVars, ReliableHeaders, Loss, FiledInv, TypeOK, OpenIsOnAir, NoMisfiledRow
  <2>4. CASE SourceEnds
    BY <2>4 DEF SourceEnds, EndOfInput, acq, db, txVars, ReliableHeaders, Loss, FiledInv, OpenIsOnAir, NoMisfiledRow
  <2>5. CASE UNCHANGED vars
    BY <2>5 DEF vars, acqVars, ReliableHeaders, Loss, FiledInv, OpenIsOnAir, NoMisfiledRow
  <2>. QED
    BY <2>1, <2>2, <2>3, <2>4, <2>5, FiledHeader, FiledRow DEF Next
<1>. QED
  BY <1>1, <1>2, TypeCorrect, PTL DEF Spec, FiledInv

(* No row of a service whose headers all arrive is ever stored under a     *)
(* page it was not sent for.                                               *)
THEOREM RowsBelongToTheirPage == Spec => []NoMisfiledRow
BY FiledInvariant, PTL DEF FiledInv

-----------------------------------------------------------------------------
(* Serial mode                                                             *)

(* The invariant behind SerialOneOpen: a page is open only after a header  *)
(* that signalled serial mode, and in the magazine of the last header.     *)
SerialInv ==
  Modes = {TRUE} =>
    \A m \in Mag : cur_page[m] # NoPage => is_mag_serial /\ m = prev_mag

LEMMA SerialStep ==
  ASSUME AcqTypeOK, SerialInv, NEW p, Decoded(p), p.pkg = 0 => p.serial \in Modes,
         AddPkg(p), UNCHANGED air
  PROVE  SerialInv'
<1>. SUFFICES ASSUME Modes = {TRUE}, NEW m \in Mag, cur_page'[m] # NoPage
              PROVE  is_mag_serial' /\ m = prev_mag'
  BY DEF SerialInv, Modes
<1>1. p.mag \in Mag
  BY DEF Decoded
<1>2. \A n \in Mag : AfterSerialRule(p)[n] # NoPage =>
        cur_page[n] # NoPage /\ is_mag_serial /\ n = prev_mag /\ n = p.mag
  BY <1>1, SerialRuleType DEF SerialInv, AfterSerialRule, AcqTypeOK
<1>3. CASE AcceptHeader(p)
  BY <1>1, <1>2, <1>3, SerialRuleType DEF AcceptHeader
<1>4. CASE RejectHeader(p)
  BY <1>1, <1>2, <1>4, SerialRuleType DEF RejectHeader
<1>5. CASE AcceptRow(p)
  BY <1>1, <1>2, <1>5 DEF AcceptRow
<1>6. CASE RowOutOfOrder(p)
  BY <1>1, <1>2, <1>6, SerialRuleType DEF RowOutOfOrder
<1>7. CASE IgnoreRow(p)
  BY <1>1, <1>2, <1>7 DEF IgnoreRow
<1>. QED
  BY <1>3, <1>4, <1>5, <1>6, <1>7 DEF AddPkg

(* In a serial service at most one page is open, whatever packets are lost.*)
THEOREM OnePageOpenInSerialMode == Spec => []SerialOneOpen
<1>1. Init => SerialInv
  BY DEF Init, AcqInit, SerialInv
<1>2. TypeOK /\ SerialInv /\ [Next]_vars => SerialInv'
  <2>. SUFFICES ASSUME TypeOK, SerialInv, [Next]_vars PROVE SerialInv'
    OBVIOUS
  <2>0. AcqTypeOK
    BY DEF TypeOK
  <2>1. ASSUME NEW p, Decoded(p), p.pkg = 0 => p.serial \in Modes, ReadVbi(p),
               UNCHANGED air
        PROVE  SerialInv'
    <3>1. CASE AddPkg(p)
      BY <2>0, <2>1, <3>1, SerialStep
    <3>2. CASE UNCHANGED acq
      BY <2>1, <3>2 DEF acq, SerialInv, Modes
    <3>. QED
      BY <2>1, <3>1, <3>2 DEF ReadVbi, HandlePkg, StopOnStats
  <2>2. ASSUME NEW h \in Handle, NEW c \in Modes, NEW hide \in Hide,
               ReceiveHeader(h, c, hide)
        PROVE  SerialInv'
    BY <2>1, <2>2, HeaderDecoded DEF ReceiveHeader, StartPage
  <2>3. ASSUME NEW m \in Mag, NEW k \in Pkg \ {0}, ReceiveRow(m, k)
        PROVE  SerialInv'
    BY <2>1, <2>3, RowDecoded DEF ReceiveRow, SendRow
  <2>4. ASSUME UNCHANGED <<cur_page, prev_mag, is_mag_serial, air>>
        PROVE  SerialInv'
    BY <2>4 DEF SerialInv, Modes
  <2>. QED
    BY <2>2, <2>3, <2>4
    DEF Next, LoseHeader, LoseRow, StartPage, SendRow, TimeFilling, SourceEnds, EndOfInput,
        acq, vars, acqVars, txVars
<1>3. SerialInv => SerialOneOpen
  BY DEF SerialInv, SerialOneOpen
<1>. QED
  BY <1>1, <1>2, <1>3, TypeCorrect, PTL DEF Spec

-----------------------------------------------------------------------------
(* The open page is stored                                                 *)

LEMMA RepsStep ==
  ASSUME AcqTypeOK, NEW p, Decoded(p), AddPkg(p), NEW g \in Handle
  PROVE  /\ InDb(g) => reps'[g] > 0
         /\ AcceptHeader(p) /\ g = <<p.page, p.sub>> =>
              reps'[g] > 0 \/ (cur_page[p.mag] = p.page /\ cur_sub[p.mag] = p.sub)
<1>1. CASE AcceptHeader(p)
  <2>. DEFINE h == <<p.page, p.sub>>
              d == IF p.suppress THEN Blank ELSE p.data
  <2>1. h \in Handle
    BY <1>1 DEF Decoded, AcceptHeader, Handle
  <2>2. CASE AddPage(h, d)
    BY <2>1, <2>2 DEF AddPage, AcqTypeOK, InDb
  <2>3. CASE AddPageData(h, 0, d) /\ p.page = cur_page[p.mag] /\ p.sub = cur_sub[p.mag]
    BY <2>3 DEF AddPageData, InDb, db
  <2>. QED
    BY <1>1, <2>2, <2>3 DEF AcceptHeader
<1>2. CASE AcceptRow(p)
  BY <1>2 DEF AcceptRow, AcceptHeader, AddPageData, InDb, db
<1>3. CASE RejectHeader(p) \/ RowOutOfOrder(p) \/ IgnoreRow(p)
  BY <1>3 DEF RejectHeader, RowOutOfOrder, IgnoreRow, AcceptHeader, InDb, db
<1>. QED
  BY <1>1, <1>2, <1>3 DEF AddPkg

LEMMA OpenKnownStep ==
  ASSUME AcqTypeOK, OpenPageKnown, NEW p, Decoded(p),
         p.pkg = 0 => p.mag = MagOf(p.page), AddPkg(p)
  PROVE  OpenPageKnown'
<1>. SUFFICES ASSUME NEW m \in Mag, cur_page'[m] # NoPage
              PROVE  /\ MagOf(cur_page'[m]) = m
                     /\ reps'[<<cur_page'[m], cur_sub'[m]>>] > 0
  BY DEF OpenPageKnown, InDb
<1>1. CASE cur_page'[m] = cur_page[m] /\ cur_sub'[m] = cur_sub[m]
  <2>1. <<cur_page[m], cur_sub[m]>> \in Handle
    BY <1>1 DEF AcqTypeOK, Handle
  <2>2. MagOf(cur_page[m]) = m /\ InDb(<<cur_page[m], cur_sub[m]>>)
    BY <1>1 DEF OpenPageKnown
  <2>. QED
    BY <1>1, <2>1, <2>2, RepsStep
<1>2. CASE p.pkg = 0 /\ p.mag = m /\ cur_page'[m] = p.page /\ cur_sub'[m] = p.sub
  <2>1. AcceptHeader(p)
    BY <1>2, SerialRuleType DEF AddPkg, RejectHeader, AcceptRow, RowOutOfOrder, IgnoreRow, AcqTypeOK
  <2>2. <<p.page, p.sub>> \in Handle
    BY <1>2 DEF Decoded, Handle
  <2>3. p.page # NoPage
    BY <1>2
  <2>4. cur_page[m] = p.page /\ cur_sub[m] = p.sub => InDb(<<p.page, p.sub>>)
    BY <2>3 DEF OpenPageKnown
  <2>5. reps'[<<p.page, p.sub>>] > 0
    BY <1>2, <2>1, <2>2, <2>4, RepsStep
  <2>. QED
    BY <1>2, <2>5
<1>. QED
  BY <1>1, <1>2, OpenPagesStep

(* The page that is open in a magazine is a page of this magazine and is   *)
(* in the database.                                                        *)
THEOREM OpenPageIsStored == Spec => []OpenPageKnown
<1>1. Init => OpenPageKnown
  BY DEF Init, AcqInit, OpenPageKnown
<1>2. TypeOK /\ OpenPageKnown /\ [Next]_vars => OpenPageKnown'
  <2>. SUFFICES ASSUME TypeOK, OpenPageKnown, [Next]_vars PROVE OpenPageKnown'
    OBVIOUS
  <2>0. AcqTypeOK
    BY DEF TypeOK
  <2>4. ASSUME UNCHANGED <<cur_page, cur_sub, reps>>
        PROVE  OpenPageKnown'
    BY <2>4 DEF OpenPageKnown, InDb
  <2>1. ASSUME NEW p, Decoded(p), p.pkg = 0 => p.mag = MagOf(p.page), ReadVbi(p)
        PROVE  OpenPageKnown'
    <3>1. CASE AddPkg(p)
      BY <2>0, <2>1, <3>1, OpenKnownStep
    <3>2. CASE StopOnStats(p)
      BY <3>2, <2>4 DEF StopOnStats, acq, db
    <3>. QED
      BY <2>1, <3>1, <3>2 DEF ReadVbi, HandlePkg
  <2>2. ASSUME NEW h \in Handle, NEW c \in Modes, NEW hide \in Hide,
               ReceiveHeader(h, c, hide)
        PROVE  OpenPageKnown'
    BY <2>1, <2>2, HeaderDecoded DEF ReceiveHeader
  <2>3. ASSUME NEW m \in Mag, NEW k \in Pkg \ {0}, ReceiveRow(m, k)
        PROVE  OpenPageKnown'
    BY <2>1, <2>3, RowDecoded DEF ReceiveRow, SendRow
  <2>. QED
    BY <2>2, <2>3, <2>4
    DEF Next, LoseHeader, LoseRow, TimeFilling, SourceEnds, EndOfInput, acq, db, vars, acqVars
<1>. QED
  BY <1>1, <1>2, TypeCorrect, PTL DEF Spec

-----------------------------------------------------------------------------
(* The receiver implements the abstract store of pages                     *)

(* One packet of the page on the air (or a header that puts one there)     *)
(* opens this page, keeps one of its lines, or stores nothing.             *)
LEMMA StoreStep ==
  ASSUME FiledInv, OpenPageKnown, ReliableHeaders, NEW p, Decoded(p), AddPkg(p),
         p.pkg = 0 => p.mag = MagOf(p.page) /\ p.data = <<p.page, p.sub>>,
         p.pkg # 0 => running /\ tx[p.mag] # Idle /\ p.data = tx[p.mag],
         UNCHANGED air
  PROVE  [Store!Next]_Store!store
<1>. DEFINE h == <<p.page, p.sub>>
            g == <<cur_page[p.mag], cur_sub[p.mag]>>
            d == IF p.suppress THEN Blank ELSE p.data
<1>0. AcqTypeOK /\ p.mag \in Mag /\ p.pkg \in Pkg /\ ReliableHeaders'
  BY DEF FiledInv, TypeOK, Decoded, ReliableHeaders, Loss
<1>1. CASE db' = db
  BY <1>0, <1>1 DEF Store!store, db, InDb
<1>2. CASE AcceptHeader(p)
  <2>1. h \in Handle /\ p.pkg = 0 /\ d \in {h, Blank}
    BY <1>2 DEF Decoded, AcceptHeader, Handle
  <2>2. CASE /\ reps' = [reps EXCEPT ![h] = @ + 1]
             /\ row' = [row EXCEPT ![h][0] = d]
    <3>0. \A f \in Handle : reps[f] \in Nat /\ reps'[f] = IF f = h THEN reps[f] + 1 ELSE reps[f]
      BY <1>0, <2>1, <2>2 DEF AcqTypeOK
    <3>1. {f \in Handle : reps'[f] > 0} = {f \in Handle : reps[f] > 0} \union {h}
      <4>. HIDE DEF h
      <4>1. \A f \in Handle : reps'[f] > 0 <=> reps[f] > 0 \/ f = h
        BY <3>0
      <4>. QED
        BY <2>1, <4>1
    <3>. QED
      BY <1>0, <2>1, <2>2, <3>1 DEF Store!Next, Store!Open, InDb
  <2>3. CASE /\ AddPageData(h, 0, d)
             /\ p.page = cur_page[p.mag] /\ p.sub = cur_sub[p.mag]
             /\ db' # db
    <3>1. reps[h] > 0
      BY <2>1, <2>3, AcqAssumption, <1>0 DEF OpenPageKnown, InDb, Handle, NoPage
    <3>2. row' = [row EXCEPT ![h][0] = d] /\ reps' = reps
      BY <2>3, <3>1 DEF AddPageData, InDb, db
    <3>3. {f \in Handle : reps'[f] > 0} = {f \in Handle : reps[f] > 0} \union {h}
      BY <2>1, <3>1, <3>2
    <3>. QED
      BY <1>0, <2>1, <3>2, <3>3 DEF Store!Next, Store!Open, InDb
  <2>. QED
    BY <1>1, <1>2, <2>2, <2>3 DEF AcceptHeader, AddPage
<1>3. CASE AcceptRow(p) /\ db' # db
  <2>1. AddPageData(g, p.pkg, p.data) /\ cur_page[p.mag] # NoPage /\ p.pkg # 0
    BY <1>3 DEF AcceptRow
  <2>2. g \in Handle /\ reps[g] > 0
    BY <1>0, <2>1 DEF OpenPageKnown, InDb, AcqTypeOK, Handle
  <2>3. p.data = g
    BY <1>0, <2>1 DEF FiledInv, OpenIsOnAir
  <2>4. row' = [row EXCEPT ![g][p.pkg] = g] /\ reps' = reps
    BY <1>3, <2>1, <2>2, <2>3 DEF AddPageData, InDb, db
  <2>. QED
    BY <1>0, <2>2, <2>4 DEF Store!Next, Store!Keep, InDb
<1>. QED
  BY <1>1, <1>2, <1>3 DEF AddPkg, RejectHeader, RowOutOfOrder, IgnoreRow

(* The receiver stores pages as the abstract store says, for a service of  *)
(* any pages in either mode whose headers all arrive.                      *)
THEOREM ReceiverImplementsStore == Spec => ImplementsStore
<1>1. Init => Store!Init
  BY DEF Init, AcqInit, Store!Init, InDb
<1>2. FiledInv /\ OpenPageKnown /\ [Next]_vars => [Store!Next]_Store!store
  <2>. SUFFICES ASSUME FiledInv, OpenPageKnown, [Next]_vars
                PROVE  [Store!Next]_Store!store
    OBVIOUS
  <2>0. TypeOK /\ air' = air
    BY DEF FiledInv, Next, ReceiveHeader, ReceiveRow, LoseHeader, LoseRow, StartPage,
           SendRow, TimeFilling, SourceEnds, vars, txVars
  <2>1. ASSUME UNCHANGED db PROVE [Store!Next]_Store!store
    BY <2>0, <2>1 DEF Store!store, db, InDb, ReliableHeaders, Loss
  <2>2. ASSUME ~ReliableHeaders PROVE [Store!Next]_Store!store
    BY <2>0, <2>2 DEF Store!store, ReliableHeaders, Loss
  <2>3. ASSUME ReliableHeaders, NEW h \in Handle, NEW c \in Modes, NEW hide \in Hide,
               ReceiveHeader(h, c, hide)
        PROVE  [Store!Next]_Store!store
    <3>1. h = <<h[1], h[2]>>
      BY DEF Handle
    <3>. QED
      BY <2>0, <2>1, <2>3, <3>1, HeaderDecoded, StoreStep
      DEF ReceiveHeader, ReadVbi, HandlePkg, StopOnStats
  <2>4. ASSUME ReliableHeaders, NEW m \in Mag, NEW k \in Pkg \ {0}, ReceiveRow(m, k)
        PROVE  [Store!Next]_Store!store
    <3>1. tx[m] # Idle
      BY <2>4 DEF ReceiveRow, SendRow
    <3>. QED
      BY <2>0, <2>1, <2>4, <3>1, RowDecoded, StoreStep
      DEF ReceiveRow, ReadVbi, HandlePkg, StopOnStats
  <2>. QED
    BY <2>1, <2>2, <2>3, <2>4
    DEF Next, LoseHeader, LoseRow, TimeFilling, SourceEnds, EndOfInput, db, vars, acqVars
<1>. QED
  BY <1>1, <1>2, FiledInvariant, OpenPageIsStored, PTL DEF Spec, ImplementsStore, Store!Spec
-----------------------------------------------------------------------------
(* The page on the air is open                                             *)

(* The page on the air in a magazine is one the receiver accepts whatever  *)
(* the BTT says.                                                           *)
DecimalOnAir(m) == tx[m] # Idle /\ Decimal(tx[m][1])

(* What keeps the serial rule off the page on the air: it does not apply   *)
(* in a parallel service; in a serial one a single page is on the air, and *)
(* its header was the last one accepted.                                   *)
ModeInv ==
  \/ Modes = {FALSE} /\ ~is_mag_serial
  \/ /\ Modes = {TRUE}
     /\ \A m, n \in Mag : tx[m] # Idle /\ tx[n] # Idle => m = n
     /\ \A m \in Mag : DecimalOnAir(m) => prev_mag = m

(* The rows the receiver saw are among those that were sent.               *)
FollowsAir ==
  \A m \in Mag : DecimalOnAir(m) =>
    /\ cur_page[m] = tx[m][1]
    /\ cur_sub[m] = tx[m][2]
    /\ prev_pkg[m] <= tx_row[m]

OnAirInv ==
  ReliableHeaders /\ Cardinality(Modes) = 1 /\ running => ModeInv /\ FollowsAir

LEMMA OneMode ==
  ASSUME air \in Airs, Cardinality(Modes) = 1
  PROVE  Modes = {FALSE} \/ Modes = {TRUE}
<1>1. Modes \subseteq BOOLEAN
  BY StreamAssumption DEF AirType, Modes
<1>2. IsFiniteSet({TRUE}) /\ BOOLEAN = {TRUE} \union {FALSE}
  BY FS_Singleton
<1>3. IsFiniteSet(BOOLEAN)
  BY <1>2, FS_AddElement
<1>4. IsFiniteSet(Modes)
  BY <1>1, <1>3, FS_Subset
<1>5. PICK c : Modes = {c}
  BY <1>4, FS_Singleton
<1>. QED
  BY <1>1, <1>5

(* The header of a decimal page opens it; the serial rule closes no other  *)
(* page that stays on the air.                                             *)
LEMMA OnAirHeader ==
  ASSUME TypeOK, ModeInv, FollowsAir, NEW h \in Handle, NEW c \in Modes,
         NEW hide \in Hide, StartPage(h, c), AddPkg(Header(h, c, hide))
  PROVE  ModeInv' /\ FollowsAir'
<1>. DEFINE p == Header(h, c, hide)
            m == MagOf(h[1])
<1>0. AcqTypeOK /\ m \in Mag /\ c \in BOOLEAN
  BY MagOfType, StreamAssumption DEF TypeOK, AirType, Modes, Handle
<1>1. /\ Decoded(p) /\ p.mag = m /\ p.pkg = 0 /\ p.serial = c
      /\ p.page = h[1] /\ p.sub = h[2]
  BY HeaderDecoded
<1>2. /\ tx'[m] = h /\ tx_row'[m] = 0 /\ Modes' = Modes
      /\ \A n \in Mag \ {m} : tx_row'[n] = tx_row[n]
      /\ \A n \in Mag \ {m} : tx'[n] = IF c THEN Idle ELSE tx[n]
  BY <1>0 DEF StartPage, Modes, TypeOK
<1>3. AcceptHeader(p) \/ (RejectHeader(p) /\ ~Decimal(h[1]))
  BY <1>1 DEF AddPkg, AcceptRow, RowOutOfOrder, IgnoreRow, RejectHeader, PageAcceptable
<1>4. /\ \A n \in Mag \ {m} : /\ cur_page'[n] = AfterSerialRule(p)[n]
                              /\ cur_sub'[n] = cur_sub[n]
                              /\ prev_pkg'[n] = prev_pkg[n]
      /\ is_mag_serial' \in {is_mag_serial, c}
      /\ Decimal(h[1]) => /\ cur_page'[m] = h[1]
                          /\ cur_sub'[m] = h[2]
                          /\ prev_pkg'[m] = 0
                          /\ prev_mag' = m
  BY <1>0, <1>1, <1>3, SerialRuleType DEF AcceptHeader, RejectHeader, AcqTypeOK
<1>5. CASE Modes = {FALSE} /\ ~is_mag_serial
  <2>1. ~c /\ AfterSerialRule(p) = cur_page
    BY <1>5 DEF AfterSerialRule
  <2>2. ModeInv'
    BY <1>2, <1>4, <1>5, <2>1 DEF ModeInv
  <2>3. ASSUME NEW n \in Mag, tx'[n] # Idle, Decimal(tx'[n][1])
        PROVE  cur_page'[n] = tx'[n][1] /\ cur_sub'[n] = tx'[n][2] /\ prev_pkg'[n] <= tx_row'[n]
    <3>1. CASE n = m
      BY <1>2, <1>4, <2>3, <3>1
    <3>2. CASE n # m
      BY <1>2, <1>4, <2>1, <2>3, <3>2 DEF FollowsAir, DecimalOnAir
    <3>. QED
      BY <3>1, <3>2
  <2>. QED
    BY <2>2, <2>3 DEF FollowsAir, DecimalOnAir
<1>6. CASE Modes = {TRUE}
  <2>1. \A n \in Mag : tx'[n] # Idle => n = m
    BY <1>2, <1>6
  <2>2. \A n \in Mag : DecimalOnAir(n)' => n = m /\ Decimal(h[1])
    BY <1>2, <2>1 DEF DecimalOnAir
  <2>3. ModeInv'
    BY <1>0, <1>2, <1>4, <1>6, <2>1, <2>2 DEF ModeInv
  <2>4. FollowsAir'
    BY <1>0, <1>2, <1>4, <2>2 DEF FollowsAir
  <2>. QED
    BY <2>3, <2>4
<1>. QED
  BY <1>5, <1>6 DEF ModeInv

(* A row of the page on the air leaves it open: it comes after the rows    *)
(* received of it.                                                         *)
LEMMA OnAirRow ==
  ASSUME TypeOK, ModeInv, FollowsAir, NEW m \in Mag, NEW k \in Pkg \ {0},
         SendRow(m, k), AddPkg(Row(m, k))
  PROVE  ModeInv' /\ FollowsAir'
<1>. DEFINE p == Row(m, k)
<1>0. AcqTypeOK /\ tx[m] # Idle /\ k \in 1 .. 29
  BY AcqAssumption DEF TypeOK, SendRow
<1>1. Decoded(p) /\ p.mag = m /\ p.pkg = k
  BY <1>0, RowDecoded
<1>2. /\ tx' = tx /\ Modes' = Modes
      /\ \A n \in Mag \ {m} : tx_row'[n] = tx_row[n]
      /\ k <= 25 => k > tx_row[m] /\ tx_row'[m] = k
      /\ k > 25 => tx_row'[m] = tx_row[m]
  BY <1>0 DEF SendRow, Modes, TypeOK
<1>3. AcceptRow(p) \/ RowOutOfOrder(p) \/ IgnoreRow(p)
  BY <1>0, <1>1 DEF AddPkg, AcceptHeader, RejectHeader
<1>4. /\ is_mag_serial' = is_mag_serial /\ prev_mag' = prev_mag /\ cur_sub' = cur_sub
      /\ \A n \in Mag \ {m} : /\ cur_page'[n] = AfterSerialRule(p)[n]
                              /\ prev_pkg'[n] = prev_pkg[n]
  BY <1>0, <1>1, <1>3, SerialRuleType
  DEF AcceptRow, RowOutOfOrder, IgnoreRow, AcqTypeOK
<1>5. ModeInv'
  BY <1>2, <1>4 DEF ModeInv, DecimalOnAir
<1>6. ASSUME NEW n \in Mag, DecimalOnAir(n)
      PROVE  /\ cur_page'[n] = cur_page[n]
             /\ prev_pkg'[n] <= tx_row'[n]
  <2>1. AfterSerialRule(p)[n] = cur_page[n]
    <3>1. CASE ~is_mag_serial
      BY <3>1 DEF AfterSerialRule
    <3>2. CASE is_mag_serial
      BY <1>0, <1>1, <1>6, <3>2 DEF ModeInv, DecimalOnAir, AfterSerialRule
    <3>. QED
      BY <3>1, <3>2 DEF AcqTypeOK
  <2>2. /\ prev_pkg[n] \in 0 .. 25 /\ tx_row[n] \in 0 .. 25
        /\ prev_pkg[n] <= tx_row[n]
    BY <1>0, <1>6 DEF FollowsAir, AcqTypeOK, TypeOK
  <2>3. CASE n # m
    BY <1>2, <1>4, <1>6, <2>1, <2>2, <2>3
  <2>4. CASE n = m
    <3>1. ~RowOutOfOrder(p)
      BY <1>0, <1>1, <1>2, <2>2, <2>4 DEF RowOutOfOrder
    <3>2. cur_page' = AfterSerialRule(p)
      BY <1>3, <3>1 DEF AcceptRow, IgnoreRow
    <3>3. prev_pkg'[m] = IF AcceptRow(p) /\ k < 26 THEN k ELSE prev_pkg[m]
      BY <1>0, <1>1, <1>3, <3>1 DEF AcceptRow, IgnoreRow, AcqTypeOK
    <3>4. prev_pkg'[m] <= tx_row'[m]
      BY <1>0, <1>2, <2>2, <2>4, <3>3
    <3>. QED
      BY <2>1, <2>4, <3>2, <3>4
  <2>. QED
    BY <2>3, <2>4
<1>. QED
  BY <1>2, <1>4, <1>5, <1>6 DEF FollowsAir, DecimalOnAir

(* In a service that keeps to one mode and whose headers all arrive, the   *)
(* decimal page on the air in a magazine is the one open there, whatever   *)
(* rows are lost: add_pkg() drops no row it should store.                  *)
THEOREM PageOnAirIsOpen == Spec => []OnAirPageOpen
<1>1. Init => OnAirInv
  <2>. SUFFICES ASSUME Init, Cardinality(Modes) = 1 PROVE ModeInv /\ FollowsAir
    BY DEF OnAirInv
  <2>1. Modes = {FALSE} \/ Modes = {TRUE}
    BY OneMode DEF Init
  <2>2. ~is_mag_serial /\ \A m \in Mag : tx[m] = Idle
    BY DEF Init, AcqInit
  <2>. QED
    BY <2>1, <2>2 DEF ModeInv, FollowsAir, DecimalOnAir
<1>2. TypeOK /\ OnAirInv /\ [Next]_vars => OnAirInv'
  <2>. SUFFICES ASSUME TypeOK, OnAirInv, [Next]_vars,
                       ReliableHeaders', Cardinality(Modes)' = 1, running'
                PROVE  ModeInv' /\ FollowsAir'
    BY DEF OnAirInv
  <2>0. /\ air' = air /\ running /\ AcqTypeOK
        /\ ModeInv /\ FollowsAir /\ "header" \notin Loss
    <3>1. air' = air
      BY DEF Next, ReceiveHeader, ReceiveRow, LoseHeader, LoseRow, StartPage, SendRow,
             TimeFilling, SourceEnds, vars, txVars
    <3>2. running
      BY DEF Next, ReceiveHeader, ReceiveRow, LoseHeader, LoseRow, ReadVbi, StopOnStats,
             HandlePkg, TimeFilling, SourceEnds, EndOfInput, vars, acqVars
    <3>. QED
      BY <3>1, <3>2 DEF OnAirInv, ReliableHeaders, Loss, Modes, TypeOK
  <2>1. ASSUME NEW h \in Handle, NEW c \in Modes, NEW hide \in Hide,
               ReceiveHeader(h, c, hide)
        PROVE  ModeInv' /\ FollowsAir'
    BY <2>0, <2>1, OnAirHeader DEF ReceiveHeader, ReadVbi, StopOnStats, HandlePkg
  <2>2. ASSUME NEW m \in Mag, NEW k \in Pkg \ {0}, ReceiveRow(m, k)
        PROVE  ModeInv' /\ FollowsAir'
    BY <2>0, <2>2, OnAirRow DEF ReceiveRow, ReadVbi, StopOnStats, HandlePkg
  <2>3. ASSUME NEW h \in Handle, NEW c \in Modes, LoseHeader(h, c) PROVE FALSE
    BY <2>0, <2>3 DEF LoseHeader
  <2>4. ASSUME NEW m \in Mag, NEW k \in Pkg \ {0}, LoseRow(m, k)
        PROVE  ModeInv' /\ FollowsAir'
    <3>1. /\ tx' = tx /\ UNCHANGED acqVars
          /\ tx_row \in [Mag -> 0 .. 25] /\ k \in 0 .. 29
          /\ \/ tx_row' = tx_row
             \/ k > tx_row[m] /\ tx_row' = [tx_row EXCEPT ![m] = k]
      BY <2>4, AcqAssumption DEF LoseRow, SendRow, TypeOK
    <3>2. \A n \in Mag : prev_pkg[n] <= tx_row[n] => prev_pkg'[n] <= tx_row'[n]
      BY <2>0, <3>1 DEF AcqTypeOK, acqVars
    <3>. QED
      BY <2>0, <3>1, <3>2 DEF ModeInv, FollowsAir, DecimalOnAir, Modes, acqVars
  <2>5. ASSUME NEW m \in Mag, TimeFilling(m)
        PROVE  ModeInv' /\ FollowsAir'
    <3>1. /\ \A n \in Mag : tx'[n] \in {tx[n], Idle}
          /\ UNCHANGED <<tx_row, acqVars>>
      BY <2>5 DEF TimeFilling, TypeOK
    <3>. QED
      BY <2>0, <3>1 DEF ModeInv, FollowsAir, DecimalOnAir, Modes, acqVars
  <2>6. CASE SourceEnds
    BY <2>6 DEF SourceEnds, EndOfInput
  <2>7. CASE UNCHANGED vars
    BY <2>0, <2>7 DEF vars, acqVars, ModeInv, FollowsAir, DecimalOnAir, Modes
  <2>. QED
    BY <2>1, <2>2, <2>3, <2>4, <2>5, <2>6, <2>7 DEF Next
<1>3. TypeOK /\ OnAirInv => OnAirPageOpen
  <2>. SUFFICES ASSUME TypeOK, FollowsAir, NEW m \in Mag, DecimalOnAir(m)
                PROVE  /\ <<cur_page[m], cur_sub[m]>> = tx[m]
                       /\ prev_pkg[m] <= tx_row[m]
    BY DEF OnAirInv, OnAirPageOpen, DecimalOnAir
  <2>1. tx[m] = <<tx[m][1], tx[m][2]>>
    BY DEF TypeOK, DecimalOnAir, Handle
  <2>. QED
    BY <2>1 DEF FollowsAir
<1>. QED
  BY <1>1, <1>2, <1>3, TypeCorrect, PTL DEF Spec
-----------------------------------------------------------------------------
(* What lost headers can spoil                                             *)

OnAirInMagazine == \A m \in Mag : tx[m] # Idle => MagOf(tx[m][1]) = m

LEMMA OnAirMagazine == Spec => []OnAirInMagazine
<1>1. Init => OnAirInMagazine
  BY DEF Init, OnAirInMagazine
<1>2. TypeOK /\ OnAirInMagazine /\ [Next]_vars => OnAirInMagazine'
  <2>. SUFFICES ASSUME TypeOK, OnAirInMagazine, [Next]_vars, NEW m \in Mag, tx'[m] # Idle
                PROVE  MagOf(tx'[m][1]) = m
    BY DEF OnAirInMagazine
  <2>1. ASSUME NEW h \in Handle, NEW c \in Modes, StartPage(h, c)
        PROVE  tx'[m] = tx[m] \/ (tx'[m] = h /\ m = MagOf(h[1]))
    BY <2>1 DEF StartPage
  <2>2. tx'[m] = tx[m] \/ \E h \in Handle : tx'[m] = h /\ m = MagOf(h[1])
    BY <2>1 DEF Next, ReceiveHeader, LoseHeader, ReceiveRow, LoseRow, SendRow, TimeFilling,
                TypeOK, SourceEnds, txVars, vars
  <2>. QED
    BY <2>2 DEF OnAirInMagazine
<1>. QED
  BY <1>1, <1>2, TypeCorrect, PTL DEF Spec

(* For any service and any losses: a row that is stored under a page it    *)
(* was not sent for comes from the same magazine and does not go back in   *)
(* the order of rows.                                                      *)
THEOREM LossIsContained == Spec => LossContained
<1>. DEFINE Step(h, k) ==
       LET d == row'[h][k] IN
       d # row[h][k] /\ d \notin {Blank, h} =>
         /\ MagOf(d[1]) = MagOf(h[1])
         /\ k >= prev_pkg[MagOf(h[1])]
         /\ Modes = {TRUE} => prev_mag = MagOf(h[1])
<1>1. TypeOK /\ OpenPageKnown /\ SerialOneOpen /\ OnAirInMagazine /\ [Next]_vars
        => [\A h \in Handle, k \in Pkg : Step(h, k)]_vars
  <2>. SUFFICES ASSUME TypeOK, OpenPageKnown, SerialOneOpen, OnAirInMagazine, Next,
                       NEW g \in Handle, NEW j \in Pkg,
                       row'[g][j] # row[g][j], row'[g][j] \notin {Blank, g}
                PROVE  /\ MagOf(row'[g][j][1]) = MagOf(g[1])
                       /\ j >= prev_pkg[MagOf(g[1])]
                       /\ Modes = {TRUE} => prev_mag = MagOf(g[1])
    OBVIOUS
  <2>0. AcqTypeOK /\ row' # row
    BY DEF TypeOK
  <2>1. ASSUME NEW h \in Handle, NEW c \in Modes, NEW hide \in Hide,
               ReceiveHeader(h, c, hide)
        PROVE  FALSE
    <3>. DEFINE p == Header(h, c, hide)
    <3>1. Decoded(p) /\ p.pkg = 0 /\ p.data = h /\ h = <<p.page, p.sub>>
      BY HeaderDecoded DEF Handle
    <3>2. AddPkg(p)
      BY <2>0, <2>1 DEF ReceiveHeader, ReadVbi, StopOnStats, HandlePkg, db
    <3>. QED
      BY <2>0, <3>1, <3>2, StoredRowsStep
  <2>2. PICK m \in Mag, k \in Pkg \ {0} : ReceiveRow(m, k)
    BY <2>0, <2>1 DEF Next, LoseHeader, LoseRow, TimeFilling, SourceEnds, EndOfInput, acqVars, db
  <2>. DEFINE p == Row(m, k)
  <2>3. tx[m] # Idle
    BY <2>2 DEF ReceiveRow, SendRow
  <2>4. Decoded(p) /\ p.mag = m /\ p.pkg = k /\ p.data = tx[m]
    BY <2>3, RowDecoded
  <2>5. AddPkg(p)
    BY <2>0, <2>2 DEF ReceiveRow, ReadVbi, StopOnStats, HandlePkg, db
  <2>6. /\ j = k /\ cur_page[m] # NoPage
        /\ g = <<cur_page[m], cur_sub[m]>>
        /\ row'[g][j] = tx[m]
    BY <2>0, <2>4, <2>5, StoredRowsStep
  <2>7. MagOf(g[1]) = m /\ MagOf(tx[m][1]) = m
    BY <2>3, <2>6 DEF OpenPageKnown, OnAirInMagazine
  <2>8. AcceptRow(p)
    BY <2>0, <2>4, <2>5
    DEF AddPkg, AcceptHeader, RejectHeader, RowOutOfOrder, IgnoreRow, db
  <2>9. j >= prev_pkg[m]
    BY <2>4, <2>6, <2>8 DEF AcceptRow
  <2>10. Modes = {TRUE} => m = prev_mag
    BY <2>6 DEF SerialOneOpen
  <2>. QED
    BY <2>6, <2>7, <2>9, <2>10
<1>. QED
  BY <1>1, TypeCorrect, OpenPageIsStored, OnePageOpenInSerialMode, OnAirMagazine, PTL
  DEF Spec, LossContained
-----------------------------------------------------------------------------
(* Lines of TOP tables                                                     *)

(* TopTablesOwnLines is inductive together with where the links come from: *)
(* as long as no BTT line named them, no line of the other tables is kept. *)
LinksOfBtt ==
  /\ "btt" \notin have => link = NoLink
  /\ link = NoLink \/ \E d \in Handle : d[1] = BttPage /\ link = LinkOf[d]

OwnLines ==
  \A k \in Pkg, d \in Handle :
    /\ top_tab["btt"][k] = d => d[1] = BttPage
    /\ top_tab["mpt"][k] = d => d[1] = link[1]
    /\ top_tab["ait"][k] = d => d[1] = link[2]

TopInv ==
  ReliableHeaders /\ StableLinks =>
    (have # {} => "btt" \in have) /\ LinksOfBtt /\ OwnLines

LEMMA AddBttStep ==
  ASSUME AcqTypeOK, StableLinks, have # {} => "btt" \in have, LinksOfBtt, OwnLines,
         NEW page, NEW k \in Pkg, NEW data, IsTopPage(page),
         (data \in Handle /\ data[1] = page) \/ (data = Blank /\ k = 0),
         AddBttPkg(page, k, data)
  PROVE  "btt" \in have' /\ LinksOfBtt' /\ OwnLines'
<1>. DEFINE t == TopKind(page)
            old == IF t \notin have THEN [j \in Pkg |-> NoData] ELSE top_tab[t]
<1>1. /\ t \in Table
      /\ t = "btt" => page = BttPage
      /\ t # "btt" => "btt" \in have
      /\ t = "mpt" => page = link[1]
      /\ t = "ait" => page = link[2]
  BY DEF IsTopPage, TopKind, Table
<1>2. "btt" \in have'
  BY <1>1 DEF AddBttPkg
<1>3. /\ t # "btt" => link' = link
      /\ t = "btt" /\ k # 21 => link' = link
      /\ t = "btt" /\ k = 21 => link' = LinkOf[data] /\ data \in Handle /\ data[1] = BttPage
  BY <1>1 DEF AddBttPkg, LinksOfBtt
<1>4. LinksOfBtt'
  BY <1>2, <1>3 DEF LinksOfBtt
<1>5. link = NoLink \/ link' = link
  BY <1>3 DEF LinksOfBtt, StableLinks
<1>6. NoData \notin Handle /\ Blank \notin Handle
  BY AcqAssumption, StreamAssumption
<1>7. \A d \in Handle : d[1] # -1
  BY AcqAssumption DEF Handle
<1>8. ASSUME NEW j \in Pkg, NEW d \in Handle, NEW u \in Table, top_tab'[u][j] = d
      PROVE  top_tab[u][j] = d \/ (u = t /\ d[1] = page)
  <2>1. CASE u # t
    BY <1>1, <1>8, <2>1 DEF AddBttPkg, AcqTypeOK
  <2>2. CASE u = t
    <3>1. top_tab'[t] = IF k \in 1 .. LastLine[t] THEN [old EXCEPT ![k] = data] ELSE old
      BY <1>1 DEF AddBttPkg, AcqTypeOK
    <3>2. old[j] \in {NoData, top_tab[t][j]} /\ old \in [Pkg -> Data \union {NoData}]
      BY <1>1 DEF AcqTypeOK
    <3>3. top_tab'[t][j] \in {old[j], data}
      BY <3>1, <3>2
    <3>. QED
      BY <1>6, <1>8, <2>2, <3>2, <3>3
  <2>. QED
    BY <2>1, <2>2
<1>9. ASSUME NEW j \in Pkg, NEW d \in Handle
      PROVE  /\ top_tab'["btt"][j] = d => d[1] = BttPage
             /\ top_tab'["mpt"][j] = d => d[1] = link'[1]
             /\ top_tab'["ait"][j] = d => d[1] = link'[2]
  <2>1. "btt" \in Table /\ "mpt" \in Table /\ "ait" \in Table
    BY DEF Table
  <2>2. top_tab'["btt"][j] = d => d[1] = BttPage
    BY <1>1, <1>8, <2>1 DEF OwnLines
  <2>3. top_tab'["mpt"][j] = d => d[1] = link'[1]
    BY <1>1, <1>3, <1>5, <1>7, <1>8, <2>1 DEF OwnLines, NoLink, NoPage
  <2>4. top_tab'["ait"][j] = d => d[1] = link'[2]
    BY <1>1, <1>3, <1>5, <1>7, <1>8, <2>1 DEF OwnLines, NoLink, NoPage
  <2>. QED
    BY <2>2, <2>3, <2>4
<1>. QED
  BY <1>2, <1>4, <1>9 DEF OwnLines

(* The tables change by a line of the page that is on the air, which is    *)
(* stored as one of this page.                                             *)
LEMMA TopStep ==
  ASSUME FiledInv, TopInv, NEW p, Decoded(p), AddPkg(p), UNCHANGED air,
         p.pkg = 0 => p.data = <<p.page, p.sub>>,
         p.pkg # 0 => running /\ tx[p.mag] # Idle /\ p.data = tx[p.mag]
  PROVE  TopInv'
<1>. SUFFICES ASSUME ReliableHeaders, StableLinks
              PROVE  (have' # {} => "btt" \in have') /\ LinksOfBtt' /\ OwnLines'
  BY DEF TopInv, ReliableHeaders, Loss, StableLinks
<1>0. /\ AcqTypeOK /\ p.mag \in Mag /\ p.pkg \in Pkg /\ 0 \in Pkg
      /\ have # {} => "btt" \in have
      /\ LinksOfBtt /\ OwnLines
  BY AcqAssumption DEF FiledInv, TypeOK, Decoded, TopInv
<1>1. CASE UNCHANGED btt
  BY <1>0, <1>1 DEF btt, LinksOfBtt, OwnLines
<1>2. CASE AcceptHeader(p)
  <2>. DEFINE h == <<p.page, p.sub>>
              d == IF p.suppress THEN Blank ELSE p.data
  <2>1. AddPageData(h, 0, d) \/ UNCHANGED btt
    BY <1>2 DEF AcceptHeader, AddPage
  <2>2. d = Blank \/ (d = h /\ d \in Handle /\ d[1] = p.page)
    BY <1>2 DEF AcceptHeader, Decoded, Handle
  <2>. HIDE DEF d
  <2>3. (IsTopPage(p.page) /\ AddBttPkg(p.page, 0, d)) \/ UNCHANGED btt
    BY <2>1 DEF AddPageData
  <2>. QED
    BY <1>0, <1>1, <2>2, <2>3, AddBttStep
<1>3. CASE AcceptRow(p)
  <2>. DEFINE g == <<cur_page[p.mag], cur_sub[p.mag]>>
  <2>1. AddPageData(g, p.pkg, p.data) /\ cur_page[p.mag] # NoPage /\ p.pkg # 0
    BY <1>3 DEF AcceptRow
  <2>2. p.data \in Handle /\ p.data[1] = cur_page[p.mag]
    BY <1>0, <2>1 DEF FiledInv, OpenIsOnAir, AcqTypeOK, Handle
  <2>3. \/ UNCHANGED btt
        \/ /\ IsTopPage(cur_page[p.mag])
           /\ AddBttPkg(cur_page[p.mag], p.pkg, p.data)
    BY <2>1 DEF AddPageData
  <2>. QED
    BY <1>0, <1>1, <2>2, <2>3, AddBttStep
<1>. QED
  BY <1>1, <1>2, <1>3 DEF AddPkg, RejectHeader, RowOutOfOrder, IgnoreRow

(* Without lost headers, in a service whose links do not change: the TOP   *)
(* tables hold lines of their own pages only, though the pages of two of   *)
(* them are known only after the first was received.                       *)
THEOREM TopTablesAreTrue == Spec => []TopTablesOwnLines
<1>1. Init => TopInv
  <2>. SUFFICES ASSUME Init PROVE LinksOfBtt /\ OwnLines /\ have = {}
    BY DEF TopInv
  <2>1. NoData \notin Handle /\ have = {} /\ link = NoLink
    BY AcqAssumption, StreamAssumption DEF Init, AcqInit
  <2>2. \A t \in Table, k \in Pkg : top_tab[t][k] = NoData
    BY DEF Init, AcqInit
  <2>. QED
    BY <2>1, <2>2 DEF LinksOfBtt, OwnLines, Table
<1>2. FiledInv /\ TopInv /\ [Next]_vars => TopInv'
  <2>. SUFFICES ASSUME FiledInv, TopInv, [Next]_vars PROVE TopInv'
    OBVIOUS
  <2>0. TypeOK /\ air' = air
    BY DEF FiledInv, Next, ReceiveHeader, ReceiveRow, LoseHeader, LoseRow, StartPage,
           SendRow, TimeFilling, SourceEnds, vars, txVars
  <2>1. ASSUME UNCHANGED btt PROVE TopInv'
    BY <2>0, <2>1 DEF btt, TopInv, LinksOfBtt, OwnLines, ReliableHeaders, Loss, StableLinks
  <2>2. ASSUME NEW h \in Handle, NEW c \in Modes, NEW hide \in Hide, ReceiveHeader(h, c, hide)
        PROVE  TopInv'
    <3>1. h = <<h[1], h[2]>>
      BY DEF Handle
    <3>. QED
      BY <2>0, <2>1, <2>2, <3>1, HeaderDecoded, TopStep
      DEF ReceiveHeader, ReadVbi, HandlePkg, StopOnStats
  <2>3. ASSUME NEW m \in Mag, NEW k \in Pkg \ {0}, ReceiveRow(m, k)
        PROVE  TopInv'
    <3>1. tx[m] # Idle
      BY <2>3 DEF ReceiveRow, SendRow
    <3>. QED
      BY <2>0, <2>1, <2>3, <3>1, RowDecoded, TopStep
      DEF ReceiveRow, ReadVbi, HandlePkg, StopOnStats
  <2>. QED
    BY <2>1, <2>2, <2>3
    DEF Next, LoseHeader, LoseRow, TimeFilling, SourceEnds, EndOfInput, btt, vars, acqVars
<1>3. TypeOK /\ TopInv => TopTablesOwnLines
  BY DEF TopInv, OwnLines, TopTablesOwnLines
<1>. QED
  BY <1>1, <1>2, <1>3, FiledInvariant, TypeCorrect, PTL DEF Spec
=============================================================================
