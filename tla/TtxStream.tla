------------------------------ MODULE TtxStream ------------------------------
(***************************************************************************)
(* A teletext service on the air, received by the acquisition of TtxAcq.   *)
(*                                                                         *)
(* The transmitter sends each page as a header followed by rows in         *)
(* ascending order (packets 26 and above may come anywhere).  In parallel  *)
(* mode the magazines are interleaved; in serial mode (C11) a header ends  *)
(* the page on the air in every magazine.  A time filling header (page FF) *)
(* ends the page of its magazine and is dropped by feed_ttx_pkg().         *)
(* Packets of the kinds in Loss may be lost on the way to ReadVbi().       *)
(* Which pages and packets are sent, and how, is chosen once: `air'.       *)
(*                                                                         *)
(* The payload of every packet is marked with the page and sub-page it was *)
(* sent for, so that the properties can tell where a stored row came from. *)
(***************************************************************************)
EXTENDS TtxAcq

CONSTANTS
  Airs,   \* the services that may be on the air, records of AirType
  MaxReps, \* bound of exploration: a page is opened at most so many times
  Idle    \* no page is on the air in a magazine

(* A service: the values of C11 in use ({FALSE} parallel, {TRUE} serial, or *)
(* both), the kinds of packets that may be lost, the values of C7 in use,  *)
(* its pages and its packets.                                              *)
AirType == [modes : SUBSET BOOLEAN, loss : SUBSET {"header", "row"},
            hide : SUBSET BOOLEAN, page : SUBSET Page, pkg : SUBSET Pkg]

ASSUME StreamAssumption ==
  /\ Airs \subseteq AirType
  /\ MaxReps \in Nat
  /\ Handle \subseteq Data
  /\ Idle \notin Handle
  /\ Blank \notin Handle

VARIABLES
  air,     \* the service received, does not change
  tx,      \* page on the air in each magazine
  tx_row   \* last of its rows 1..25 that was sent

txVars == <<air, tx, tx_row>>
vars == <<acqVars, air, tx, tx_row>>

Modes == air.modes
Loss == air.loss
Hide == air.hide

TypeOK ==
  /\ AcqTypeOK
  /\ air \in Airs
  /\ tx \in [Mag -> Handle \union {Idle}]
  /\ tx_row \in [Mag -> 0 .. 25]

Header(h, c, hide) ==
  [mag |-> MagOf(h[1]), pkg |-> 0, page |-> h[1], sub |-> h[2],
   serial |-> c, suppress |-> hide, data |-> h]

(* set_pg_row(): a row does not tell its page, only its magazine.          *)
Row(m, k) ==
  [mag |-> m, pkg |-> k, page |-> 256 * m, sub |-> 0,
   serial |-> FALSE, suppress |-> FALSE, data |-> tx[m]]

(* The next page is put on the air.                                        *)
StartPage(h, c) ==
  /\ h[1] \in air.page
  /\ tx' = [m \in Mag |-> IF m = MagOf(h[1]) THEN h
                          ELSE IF c THEN Idle ELSE tx[m]]
  /\ tx_row' = [tx_row EXCEPT ![MagOf(h[1])] = 0]
  /\ UNCHANGED air

SendRow(m, k) ==
  /\ k \in air.pkg
  /\ tx[m] # Idle
  /\ k <= 25 => k > tx_row[m]
  /\ tx_row' = IF k <= 25 THEN [tx_row EXCEPT ![m] = k] ELSE tx_row
  /\ UNCHANGED <<air, tx>>

ReceiveHeader(h, c, hide) ==
  /\ reps[h] < MaxReps
  /\ StartPage(h, c)
  /\ ReadVbi(Header(h, c, hide))

ReceiveRow(m, k) == SendRow(m, k) /\ ReadVbi(Row(m, k))

LoseHeader(h, c) ==
  /\ "header" \in Loss
  /\ running
  /\ StartPage(h, c)
  /\ UNCHANGED acqVars

LoseRow(m, k) ==
  /\ "row" \in Loss
  /\ running
  /\ SendRow(m, k)
  /\ UNCHANGED acqVars

TimeFilling(m) ==
  /\ running
  /\ tx[m] # Idle
  /\ tx' = [tx EXCEPT ![m] = Idle]
  /\ UNCHANGED <<air, tx_row, acqVars>>

SourceEnds == EndOfInput /\ UNCHANGED txVars

Init ==
  /\ AcqInit
  /\ air \in Airs
  /\ tx = [m \in Mag |-> Idle]
  /\ tx_row = [m \in Mag |-> 0]

Next ==
  \/ \E h \in Handle, c \in Modes, hide \in Hide : ReceiveHeader(h, c, hide)
  \/ \E m \in Mag, k \in Pkg \ {0} : ReceiveRow(m, k)
  \/ \E h \in Handle, c \in Modes : LoseHeader(h, c)
  \/ \E m \in Mag, k \in Pkg \ {0} : LoseRow(m, k)
  \/ \E m \in Mag : TimeFilling(m)
  \/ SourceEnds

Spec == Init /\ [][Next]_vars

-----------------------------------------------------------------------------
(* Properties                                                              *)

ReliableHeaders == "header" \notin Loss

(* When no header is lost, every row in the database belongs to the page   *)
(* it is stored under, whatever rows were lost and however the magazines   *)
(* interleave: the point of cur_page, of the serial rule and of closing    *)
(* the page at headers that are not acceptable.                            *)
NoMisfiledRow ==
  ReliableHeaders =>
    \A h \in Handle : \A k \in Pkg : row[h][k] \in {NoData, Blank, h}

(* When no header is lost and the service keeps to one mode, the page on   *)
(* the air in a magazine is the page open there, so that every row of it   *)
(* that arrives is stored: closing pages (serial rule, rows out of order)  *)
(* never hits the wrong page.                                              *)
OnAirPageOpen ==
  ReliableHeaders /\ Cardinality(Modes) = 1 /\ running =>
    \A m \in Mag : tx[m] # Idle /\ Decimal(tx[m][1]) =>
      /\ <<cur_page[m], cur_sub[m]>> = tx[m]
      /\ prev_pkg[m] <= tx_row[m]

(* In serial mode at most one magazine has an open page, even when headers *)
(* are lost: rows that follow a lost header of another magazine are not    *)
(* filed under the page received before it.                                *)
SerialOneOpen ==
  Modes = {TRUE} =>
    \A m \in Mag : cur_page[m] # NoPage => m = prev_mag

(* An open page is one of its own magazine and is in the database, so that *)
(* add_page_data() never meets the case it only has a debug message for.   *)
OpenPageKnown ==
  \A m \in Mag : cur_page[m] # NoPage =>
    /\ MagOf(cur_page[m]) = m
    /\ InDb(<<cur_page[m], cur_sub[m]>>)

(* The sub-page counts and the titles are only taken from pages the BTT    *)
(* named, and a TOP table holds the lines of its own page: for a service   *)
(* whose links do not change and whose headers are not lost.               *)
StableLinks ==
  \A d, e \in Handle : d[1] = BttPage /\ e[1] = BttPage => LinkOf[d] = LinkOf[e]

TopTablesOwnLines ==
  ReliableHeaders /\ StableLinks =>
    \A k \in Pkg :
      /\ \A d \in Handle : top_tab["btt"][k] = d => d[1] = BttPage
      /\ \A d \in Handle : top_tab["mpt"][k] = d => d[1] = link[1]
      /\ \A d \in Handle : top_tab["ait"][k] = d => d[1] = link[2]
      /\ have # {} => "btt" \in have

(* What a lost header can spoil: a row stored under a page it was not sent *)
(* for was sent in the magazine of that page, and after the rows of that   *)
(* page that were received; in a serial service no accepted header of      *)
(* another magazine came between.                                          *)
LossContained ==
  [][\A h \in Handle, k \in Pkg :
       LET d == row'[h][k] IN
       d # row[h][k] /\ d \notin {Blank, h} =>
         /\ MagOf(d[1]) = MagOf(h[1])
         /\ k >= prev_pkg[MagOf(h[1])]
         /\ Modes = {TRUE} => prev_mag = MagOf(h[1])]_vars

(* The abstract store of pages is implemented by the receiver when no      *)
(* header is lost: a packet that arrives opens one page, keeps one line of *)
(* the page it was sent for, or leaves the database alone, in either mode  *)
(* and whatever the other magazines send meanwhile.                        *)
Store == INSTANCE PageStore WITH
  Line  <- Pkg,
  known <- IF ReliableHeaders THEN {h \in Handle : InDb(h)} ELSE {},
  text  <- IF ReliableHeaders THEN row ELSE [h \in Handle |-> [k \in Pkg |-> NoData]]

ImplementsStore == Store!Spec

(* Capture without -duration ends, provided every page is received again   *)
(* and again ("capturing stops automatically after reading approximately 4 *)
(* complete page cycles").                                                 *)
AllPagesRepeated ==
  \A h \in Handle : WF_vars(\E c \in Modes, hide \in Hide : ReceiveHeader(h, c, hide))

FairSpec == Spec /\ AllPagesRepeated

CaptureEnds == <>~running
=============================================================================
