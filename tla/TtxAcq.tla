------------------------------- MODULE TtxAcq -------------------------------
(***************************************************************************)
(* Acquisition of teletext packets: class TTX_ACQ, which assigns incoming  *)
(* packets to pages, the page database TTX_PAGE_DB and the TOP tables      *)
(* TTX_DB_BTT it fills, and the loop of ReadVbi() that feeds it.           *)
(*                                                                         *)
(* A decoded packet (TTX_ACQ_PKG) is a record                              *)
(*   mag    magazine 0..7 (0 stands for the pages 8xx)                     *)
(*   pkg    packet number: 0 is the page header, 1..29 belong to a page    *)
(*   page   page number, sub-page code and                                 *)
(*   sub    control bits of the header:                                    *)
(*   serial   C11, magazine serial mode                                    *)
(*   suppress C7, suppress header                                          *)
(*   data   the 40 bytes of payload, an uninterpreted value                *)
(* Abstracted: the bytes of a row; the language, time stamp and cached     *)
(* text of a page; single nibbles of the TOP tables (a table is kept per   *)
(* packet); the page statistics print-out.                                 *)
(***************************************************************************)
EXTENDS Integers, FiniteSets, FiniteSetsExt

CONSTANTS
  Page,          \* page numbers the service may use, within 100..8FF (hex)
  Sub,           \* sub-page codes; 0 is one of them
  Pkg,           \* packet numbers below 30 in use; 0 is one of them
  Data,          \* payloads of 40 bytes
  Blank,         \* the payload of 40 spaces
  NoData,        \* marks a row or table line that was never received
  LinkOf,        \* LinkOf[d]: the pages a BTT line d links, NoPage for
                 \* a number that is no page of the service
  CapDuration,   \* value of -duration; 0 when the option is not given
  CheckInterval, \* headers between two looks at the statistics (50)
  RepThreshold   \* average number of receptions to wait for (4)

NoPage == -1
Mag    == 0 .. 7
Handle == Page \X Sub
Links  == (Page \union {NoPage}) \X (Page \union {NoPage})
BttPage == 16 * 31                              \* 1F0 hex
NoLink == <<NoPage, NoPage>>                    \* memset 0xFF

ASSUME AcqAssumption ==
  /\ Page \subseteq Nat
  /\ 0 \in Sub
  /\ Pkg \subseteq 0 .. 29 /\ 0 \in Pkg
  /\ Blank \in Data /\ NoData \notin Data
  /\ LinkOf \in [Data -> Links]
  /\ CapDuration \in Nat
  /\ CheckInterval \in Nat \ {0} /\ RepThreshold \in Nat \ {0}

(* Magazine of a page: hundreds digit, 8xx being magazine 0. *)
MagOf(page) == (page \div 256) % 8

(* A page number readers can type: no hexadecimal digit. *)
Decimal(page) == page % 16 <= 9 /\ (page \div 16) % 16 <= 9

VARIABLES
  cur_page, cur_sub,   \* page open in each magazine
  prev_pkg,            \* last body packet seen of it
  prev_mag,            \* magazine of the last accepted header
  is_mag_serial,       \* serial mode, as signalled by the last accepted header
  reps,                \* m_acq_rep_cnt of each page; 0: page not in the database
  row,                 \* rows of each page, NoData where not valid
  have,                \* TOP tables started so far: m_have_btt, _mpt, _ait
  link,                \* pages of the MPT and of the AIT according to the BTT
  top_tab,             \* lines received of each TOP table
  running,             \* ReadVbi() is in its loop
  intv                 \* headers since the statistics were last looked at

acq  == <<cur_page, cur_sub, prev_pkg, prev_mag, is_mag_serial>>
db   == <<reps, row>>
btt  == <<have, link, top_tab>>
loop == <<running, intv>>
acqVars == <<cur_page, cur_sub, prev_pkg, prev_mag, is_mag_serial,
             reps, row, have, link, top_tab, running, intv>>

Table == {"btt", "mpt", "ait"}

Packet == [mag : Mag, pkg : Pkg, page : Page, sub : Sub,
           serial : BOOLEAN, suppress : BOOLEAN, data : Data]

AcqTypeOK ==
  /\ cur_page \in [Mag -> Page \union {NoPage}]
  /\ cur_sub \in [Mag -> Sub]
  /\ prev_pkg \in [Mag -> 0 .. 25]
  /\ prev_mag \in Mag
  /\ is_mag_serial \in BOOLEAN
  /\ reps \in [Handle -> Nat]
  /\ row \in [Handle -> [Pkg -> Data \union {NoData}]]
  /\ have \in SUBSET Table
  /\ link \in Links
  /\ top_tab \in [Table -> [Pkg -> Data \union {NoData}]]
  /\ running \in BOOLEAN
  /\ intv \in 0 .. CheckInterval
  /\ running => intv < CheckInterval

-----------------------------------------------------------------------------
(* TOP tables                                                              *)

\* Mutant: MPT and AIT links exchanged.
TopKindExchanged(page) ==
  IF page = BttPage THEN "btt"
  ELSE IF "btt" \in have /\ link[2] = page THEN "mpt"
  ELSE IF "btt" \in have /\ link[1] = page THEN "ait" ELSE "none"

(* Which TOP table a page carries; the comparison order matters when the   *)
(* links are garbled and name the same page or the BTT itself.             *)
TopKind(page) ==
  IF page = BttPage THEN "btt"
  ELSE IF "btt" \in have /\ link[1] = page THEN "mpt"
  ELSE IF "btt" \in have /\ link[2] = page THEN "ait" ELSE "none"

IsTopPage(page) == TopKind(page) # "none"

LastLine == [btt |-> 20, mpt |-> 20, ait |-> 22]

(* A line of a TOP table is stored; the first packet of a table clears it, *)
(* lines 21..23 of the BTT hold the links (the first two are in line 21).  *)
AddBttPkg(page, pkg, data) ==
  LET t     == TopKind(page)
      first == t \notin have
      old   == IF first THEN [k \in Pkg |-> NoData] ELSE top_tab[t]
  IN /\ have' = have \union {t}
     /\ top_tab' = [top_tab EXCEPT ![t] =
          IF pkg \in 1 .. LastLine[t] THEN [old EXCEPT ![pkg] = data] ELSE old]
     /\ link' = IF t # "btt" THEN link
                ELSE IF pkg = 21 THEN LinkOf[data]
                ELSE IF first THEN NoLink ELSE link

-----------------------------------------------------------------------------
(* Page database                                                           *)

InDb(h) == reps[h] > 0

PageAcceptable(page) == Decimal(page) \/ IsTopPage(page)

\* Mutant: a page already known is not counted again.
AddPageOnce(h, data) ==
  /\ reps' = [reps EXCEPT ![h] = 1]
  /\ row' = [row EXCEPT ![h][0] = data]
  /\ UNCHANGED btt

(* A header that opens a page: the page is created or counted once more,   *)
(* and row 0 is replaced; its other rows stay.                             *)
AddPage(h, data) ==
  /\ reps' = [reps EXCEPT ![h] = @ + 1]
  /\ row' = [row EXCEPT ![h][0] = data]
  /\ UNCHANGED btt

(* A packet for the open page: lines of TOP pages go to the TOP tables.    *)
AddPageData(h, pkg, data) ==
  \/ /\ IsTopPage(h[1])
     /\ AddBttPkg(h[1], pkg, data)
     /\ UNCHANGED db
  \/ /\ ~IsTopPage(h[1])
     /\ row' = IF InDb(h) THEN [row EXCEPT ![h][pkg] = data] ELSE row
     /\ UNCHANGED <<reps, btt>>

(* Average number of receptions per page (not per sub-page) is reached.    *)
RepStatsReached ==
  LET stored == {h \in Handle : InDb(h)}
      pages  == Cardinality({h[1] : h \in stored})
  IN pages > 0 /\ MapThenSumSet(LAMBDA h : reps[h], stored) >= RepThreshold * pages

-----------------------------------------------------------------------------
(* Assigning packets to pages                                              *)

\* Mutant: the mode bit is ignored.
NoSerialRule(p) == cur_page

(* In serial mode any packet of another magazine ends the open page.       *)
AfterSerialRule(p) ==
  IF is_mag_serial /\ p.mag # prev_mag
  THEN [cur_page EXCEPT ![prev_mag] = NoPage] ELSE cur_page

\* Mutant: the header is dropped without closing the page before it.
RejectHeaderOnly(p) ==
  /\ p.pkg = 0
  /\ ~PageAcceptable(p.page)
  /\ cur_page' = AfterSerialRule(p)
  /\ UNCHANGED <<cur_sub, prev_pkg, prev_mag, is_mag_serial, db, btt>>

(* A header of a page that is neither decimal nor a TOP page closes the    *)
(* page of its magazine and leaves everything else as it is.               *)
RejectHeader(p) ==
  /\ p.pkg = 0
  /\ ~PageAcceptable(p.page)
  /\ cur_page' = [AfterSerialRule(p) EXCEPT ![p.mag] = NoPage]
  /\ UNCHANGED <<cur_sub, prev_pkg, prev_mag, is_mag_serial, db, btt>>

\* Mutant: prev_pkg is not reset at a header.
AcceptHeaderKeepsOrder(p) ==
  LET h      == <<p.page, p.sub>>
      header == IF p.suppress THEN Blank ELSE p.data
  IN /\ p.pkg = 0
     /\ PageAcceptable(p.page)
     /\ is_mag_serial' = p.serial
     /\ IF p.page # cur_page[p.mag] \/ p.sub # cur_sub[p.mag]
        THEN AddPage(h, header)
        ELSE AddPageData(h, 0, header)
     /\ cur_page' = [AfterSerialRule(p) EXCEPT ![p.mag] = p.page]
     /\ cur_sub' = [cur_sub EXCEPT ![p.mag] = p.sub]
     /\ prev_mag' = p.mag
     /\ UNCHANGED prev_pkg

\* Mutant: the page is made the open one before it is compared with it.
AcceptHeaderOpensFirst(p) ==
  /\ p.pkg = 0
  /\ PageAcceptable(p.page)
  /\ is_mag_serial' = p.serial
  /\ AddPageData(<<p.page, p.sub>>, 0, IF p.suppress THEN Blank ELSE p.data)
  /\ cur_page' = [AfterSerialRule(p) EXCEPT ![p.mag] = p.page]
  /\ cur_sub' = [cur_sub EXCEPT ![p.mag] = p.sub]
  /\ prev_pkg' = [prev_pkg EXCEPT ![p.mag] = 0]
  /\ prev_mag' = p.mag

(* Any other header opens its page; a repetition of the open page's header *)
(* only replaces its row 0.                                                *)
AcceptHeader(p) ==
  LET h      == <<p.page, p.sub>>
      header == IF p.suppress THEN Blank ELSE p.data
  IN /\ p.pkg = 0
     /\ PageAcceptable(p.page)
     /\ is_mag_serial' = p.serial
     /\ IF p.page # cur_page[p.mag] \/ p.sub # cur_sub[p.mag]
        THEN AddPage(h, header)
        ELSE AddPageData(h, 0, header)
     /\ cur_page' = [AfterSerialRule(p) EXCEPT ![p.mag] = p.page]
     /\ cur_sub' = [cur_sub EXCEPT ![p.mag] = p.sub]
     /\ prev_pkg' = [prev_pkg EXCEPT ![p.mag] = 0]
     /\ prev_mag' = p.mag

\* Mutant: the order of the packets is not looked at.
AcceptRowAnyOrder(p) ==
  /\ p.pkg \in 1 .. 27
  /\ cur_page[p.mag] # NoPage
  /\ cur_page' = AfterSerialRule(p)
  /\ prev_pkg' = IF p.pkg < 26 THEN [prev_pkg EXCEPT ![p.mag] = p.pkg] ELSE prev_pkg
  /\ AddPageData(<<cur_page[p.mag], cur_sub[p.mag]>>, p.pkg, p.data)
  /\ UNCHANGED <<cur_sub, prev_mag, is_mag_serial>>

(* A body packet goes to the page open in its magazine, provided it does   *)
(* not come before the packets already seen of that page.                  *)
AcceptRow(p) ==
  /\ p.pkg \in 1 .. 27
  /\ cur_page[p.mag] # NoPage
  /\ p.pkg >= prev_pkg[p.mag]
  /\ cur_page' = AfterSerialRule(p)
  /\ prev_pkg' = IF p.pkg < 26 THEN [prev_pkg EXCEPT ![p.mag] = p.pkg] ELSE prev_pkg
  /\ AddPageData(<<cur_page[p.mag], cur_sub[p.mag]>>, p.pkg, p.data)
  /\ UNCHANGED <<cur_sub, prev_mag, is_mag_serial>>

(* A packet out of order tells that a header was lost: the page is closed. *)
RowOutOfOrder(p) ==
  /\ p.pkg \in 1 .. 27
  /\ cur_page[p.mag] # NoPage
  /\ p.pkg < prev_pkg[p.mag]
  /\ cur_page' = [AfterSerialRule(p) EXCEPT ![p.mag] = NoPage]
  /\ UNCHANGED <<cur_sub, prev_pkg, prev_mag, is_mag_serial, db, btt>>

(* No page is open, or packet 28 or 29: only the serial rule applies.      *)
IgnoreRow(p) ==
  /\ p.pkg \in 28 .. 29 \/ (p.pkg # 0 /\ cur_page[p.mag] = NoPage)
  /\ cur_page' = AfterSerialRule(p)
  /\ UNCHANGED <<cur_sub, prev_pkg, prev_mag, is_mag_serial, db, btt>>

AddPkg(p) ==
  \/ RejectHeader(p)
  \/ AcceptHeader(p)
  \/ AcceptRow(p)
  \/ RowOutOfOrder(p)
  \/ IgnoreRow(p)

-----------------------------------------------------------------------------
(* The capture loop                                                        *)

CheckDue(p) == CapDuration = 0 /\ p.pkg = 0 /\ intv + 1 >= CheckInterval

(* Every page was received often enough: capture ends, the packet that     *)
(* triggered the check is dropped.                                         *)
StopOnStats(p) ==
  /\ running
  /\ CheckDue(p)
  /\ RepStatsReached
  /\ running' = FALSE
  /\ intv' = intv + 1
  /\ UNCHANGED <<acq, db, btt>>

\* Mutant: the header counter is not reset after a check.
HandlePkgNoReset(p) ==
  /\ running
  /\ CheckDue(p) => ~RepStatsReached
  /\ intv' = IF CapDuration = 0 /\ p.pkg = 0 THEN intv + 1 ELSE intv
  /\ AddPkg(p)
  /\ UNCHANGED running

HandlePkg(p) ==
  /\ running
  /\ CheckDue(p) => ~RepStatsReached
  /\ intv' = IF CheckDue(p) THEN 0
             ELSE IF CapDuration = 0 /\ p.pkg = 0 THEN intv + 1 ELSE intv
  /\ AddPkg(p)
  /\ UNCHANGED running

(* End of the input file, or of the time given with -duration.             *)
EndOfInput ==
  /\ running
  /\ running' = FALSE
  /\ UNCHANGED <<acq, db, btt, intv>>

ReadVbi(p) == StopOnStats(p) \/ HandlePkg(p)

AcqInit ==
  /\ cur_page = [m \in Mag |-> NoPage]
  /\ cur_sub = [m \in Mag |-> 0]
  /\ prev_pkg = [m \in Mag |-> 0]
  /\ prev_mag = 0
  /\ is_mag_serial = FALSE
  /\ reps = [h \in Handle |-> 0]
  /\ row = [h \in Handle |-> [k \in Pkg |-> NoData]]
  /\ have = {}
  /\ link = NoLink
  /\ top_tab = [t \in Table |-> [k \in Pkg |-> NoData]]
  /\ running = TRUE
  /\ intv = 0
=============================================================================
