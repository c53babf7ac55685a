------------------------------- MODULE TtxCif -------------------------------
(***************************************************************************)
(* The C interface through which nxtvepg feeds captured packets: any       *)
(* number of databases, made by ttx_db_create() after each channel change  *)
(* and filled by ttx_db_add_pkg(), whose cur_page and cur_sub are static   *)
(* variables of the function and so are common to all databases.           *)
(*                                                                         *)
(* Each database captures one channel, which sends a page as a header and  *)
(* rows.  In serial mode a header ends the pages of all magazines, in      *)
(* parallel mode that of its own only.  The caller hands a row over with   *)
(* the page number of the last header it received in the magazine of the   *)
(* row.  Rows may be lost, headers of some channels.                       *)
(* Abstracted: payloads (a row is marked with the page it was sent for)    *)
(* and the links of the BTT; the finite sets of pages and rows bound the   *)
(* exploration.                                                            *)
(***************************************************************************)
EXTENDS Integers

CONSTANTS
  Db,     \* databases (channels) in use at a time
  Page,   \* page numbers sent
  Sub,    \* sub-page codes sent
  Rows,   \* packet numbers of the rows sent
  NoRow,  \* a row never received
  Idle,   \* no page is on the air, or no database
  Modes   \* kinds of channels: {}, or sent in "parallel" mode, "lossy" headers

NoPage  == -1
Handle  == Page \X Sub
BttPage == 16 * 31                              \* 1F0 hex

(* Magazine of a page, and the page number that names a magazine only.     *)
MagOf(page) == (page \div 256) % 8
Mag == {MagOf(page) : page \in Page}
MagPage(m) == IF m = 0 THEN 8 * 256 ELSE m * 256

ASSUME CifAssumption ==
  /\ Page \subseteq Nat /\ Sub \subseteq Nat
  /\ Rows \subseteq 1 .. 25
  /\ Modes \subseteq SUBSET {"parallel", "lossy"}
  /\ NoRow \notin Handle /\ Idle \notin Handle

VARIABLES
  cur,      \* the static cur_page and cur_sub of ttx_db_add_pkg()
  exists,   \* databases that were created and not destroyed
  known,    \* pages in each database
  row,      \* their rows
  btt,      \* lines of the BTT in each database
  mode,     \* kind of the channel of each database
  tx,       \* page on the air in each magazine of each channel
  seen      \* page number of the last header received in it

dbVars == <<exists, known, row, btt>>
vars   == <<cur, exists, known, row, btt, mode, tx, seen>>

NoRows   == [k \in Rows |-> NoRow]
Silent   == [m \in Mag |-> Idle]
NoHeader == [m \in Mag |-> MagPage(m)]

TypeOK ==
  /\ cur \in Handle \union {<<NoPage, NoPage>>}
  /\ exists \in SUBSET Db
  /\ known \in [Db -> SUBSET Handle]
  /\ row \in [Db -> [Handle -> [Rows -> Handle \union {NoRow}]]]
  /\ btt \in [Db -> [Rows -> Handle \union {NoRow}]]
  /\ mode \in [Db -> Modes \union {{}}]
  /\ tx \in [Db -> [Mag -> Handle \union {Idle}]]
  /\ seen \in [Db -> [Mag -> Page \union {MagPage(m) : m \in Mag}]]

PageAcceptable(page) ==
  (page % 16 <= 9 /\ (page \div 16) % 16 <= 9) \/ page = BttPage

-----------------------------------------------------------------------------
(* The channel                                                             *)

(* What can be on the air: in serial mode one page at a time.              *)
OnAir(kind) ==
  {air \in [Mag -> Handle \union {Idle}] :
     LET busy == {m \in Mag : air[m] # Idle} IN
     /\ \A m \in busy : MagOf(air[m][1]) = m
     /\ "parallel" \notin kind => \A m, n \in busy : m = n}

(* The header of page h ends the page before in its magazine; those of     *)
(* other magazines go on or have ended.                                    *)
HeaderSent(d, h) ==
  \E air \in OnAir(mode[d]) :
    /\ air[MagOf(h[1])] = h
    /\ \A m \in Mag \ {MagOf(h[1])} : air[m] \in {tx[d][m], Idle}
    /\ tx' = [tx EXCEPT ![d] = air]

-----------------------------------------------------------------------------
(* ttx_db_create(): an empty database.  The channel is joined in the       *)
(* middle of whatever pages it is sending.                                 *)
Create(d, kind, air) ==
  /\ d \notin exists
  /\ exists' = exists \union {d}
  /\ known' = [known EXCEPT ![d] = {}]
  /\ row' = [row EXCEPT ![d] = [g \in Handle |-> NoRows]]
  /\ btt' = [btt EXCEPT ![d] = NoRows]
  /\ mode' = [mode EXCEPT ![d] = kind]
  /\ tx' = [tx EXCEPT ![d] = air]
  /\ seen' = [seen EXCEPT ![d] = NoHeader]
  /\ UNCHANGED cur

Destroy(d) ==
  /\ d \in exists
  /\ exists' = exists \ {d}
  /\ tx' = [tx EXCEPT ![d] = Silent]
  /\ UNCHANGED <<cur, known, row, btt, mode, seen>>

\* Mutant: the header of a page that is already known is not looked at.
AddHeaderOnce(d, h) ==
  /\ PageAcceptable(h[1])
  /\ cur' = IF h \in known[d] THEN cur ELSE h
  /\ known' = [known EXCEPT ![d] = @ \union {h}]
  /\ UNCHANGED <<exists, row, btt>>

(* ttx_db_add_pkg() for a header.                                          *)
AddHeader(d, h) ==
  /\ PageAcceptable(h[1])
  /\ cur' = h
  /\ known' = [known EXCEPT ![d] = @ \union {h}]
  /\ UNCHANGED <<exists, row, btt>>

\* Mutant: a row creates the page it is for.
AddRowBlind(d, page, h, k) ==
  /\ PageAcceptable(page)
  /\ cur # <<NoPage, NoPage>>
  /\ row' = [row EXCEPT ![d][cur][k] = h]
  /\ UNCHANGED <<cur, exists, known, btt>>

\* Mutant: the rows of a page that is not acceptable are not filtered.
AddRowUnfiltered(d, page, h, k) ==
  /\ row' = IF cur[1] # BttPage /\ cur \in known[d]
            THEN [row EXCEPT ![d][cur][k] = h] ELSE row
  /\ btt' = IF cur[1] = BttPage THEN [btt EXCEPT ![d][k] = h] ELSE btt
  /\ UNCHANGED <<cur, exists, known>>

(* ttx_db_add_pkg() for a row of page h handed over with a page number: it *)
(* goes where cur says; a page that is not in this database swallows it.   *)
AddRow(d, page, h, k) ==
  /\ PageAcceptable(page)
  /\ row' = IF cur[1] # BttPage /\ cur \in known[d]
            THEN [row EXCEPT ![d][cur][k] = h] ELSE row
  /\ btt' = IF cur[1] = BttPage THEN [btt EXCEPT ![d][k] = h] ELSE btt
  /\ UNCHANGED <<cur, exists, known>>

(* A packet of any other page is filtered.                                 *)
Filter(page) == ~PageAcceptable(page) /\ UNCHANGED <<cur, dbVars>>

ReceiveHeader(d, h) ==
  /\ d \in exists
  /\ HeaderSent(d, h)
  /\ seen' = [seen EXCEPT ![d][MagOf(h[1])] = h[1]]
  /\ AddHeader(d, h) \/ Filter(h[1])
  /\ UNCHANGED mode

LoseHeader(d, h) ==
  /\ d \in exists /\ "lossy" \in mode[d]
  /\ HeaderSent(d, h)
  /\ UNCHANGED <<cur, dbVars, mode, seen>>

ReceiveRow(d, m, k) ==
  /\ d \in exists /\ tx[d][m] # Idle
  /\ AddRow(d, seen[d][m], tx[d][m], k) \/ Filter(seen[d][m])
  /\ UNCHANGED <<mode, tx, seen>>

Init ==
  /\ cur = <<NoPage, NoPage>>
  /\ exists = {}
  /\ known = [d \in Db |-> {}]
  /\ row = [d \in Db |-> [h \in Handle |-> NoRows]]
  /\ btt = [d \in Db |-> NoRows]
  /\ mode = [d \in Db |-> {}]
  /\ tx = [d \in Db |-> Silent]
  /\ seen = [d \in Db |-> NoHeader]

Next ==
  \E d \in Db :
    \/ \E kind \in Modes : \E air \in OnAir(kind) : Create(d, kind, air)
    \/ Destroy(d)
    \/ \E h \in Handle : ReceiveHeader(d, h) \/ LoseHeader(d, h)
    \/ \E m \in Mag, k \in Rows : ReceiveRow(d, m, k)

Spec == Init /\ [][Next]_vars

-----------------------------------------------------------------------------
\* There is one database at a time, as in nxtvepg before its version 3.
OneChannel == \A d, e \in Db : d = e

\* The channel is sent in serial mode, and no header is lost.
SerialLossless(d) == mode[d] = {}

(* Rows are stored under the page they were sent for, in the database of   *)
(* their channel.  The code ensures this for one database at a time and a  *)
(* channel in serial mode, if no header is lost, across changes between    *)
(* channels of any kind and whatever page a channel was in when its        *)
(* database was created.                                                   *)
OwnRows ==
  \A d \in exists, h \in Handle, k \in Rows :
    SerialLossless(d) => row[d][h][k] \in {NoRow, h}

IsBttLine(line) == line = NoRow \/ line[1] = BttPage

(* The same for the lines of the BTT, from the first acceptable header of  *)
(* the channel on: what is stored then was sent for page 1F0.  (Before it  *)
(* the page remembered from the channel before may be 1F0, and rows of any *)
(* page go there.)                                                         *)
OwnLines ==
  [][\A d \in exists, k \in Rows :
       SerialLossless(d) /\ known[d] # {} /\ btt'[d][k] # btt[d][k]
         => IsBttLine(btt'[d][k])]_vars

(* Only pages whose header was received have rows, with channels of any    *)
(* kind and any number of databases.                                       *)
RowsOfKnownPages ==
  \A d \in exists, h \in Handle : row[d][h] # NoRows => h \in known[d]

(* "Adapted internal C interface ... for allowing capturing concurrently   *)
(* from multiple DVB channels": what a database holds does not depend on   *)
(* the other databases.                                                    *)
ConcurrentCapture == OwnRows
=============================================================================
