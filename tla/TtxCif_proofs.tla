---------------------------- MODULE TtxCif_proofs ----------------------------
(* Proofs about TtxCif: with one channel, in serial mode and without lost  *)
(* headers, the page remembered by ttx_db_add_pkg() is harmless from the   *)
(* first header on.                                                        *)
EXTENDS TtxCif, TLAPS

(* What makes OwnRows inductive: once a header of the channel was stored,  *)
(* the one page on the air is the page of the last header received in its  *)
(* magazine, and the remembered page unless it is filtered.                *)
CurIsOnAir ==
  \A d \in exists, m \in Mag :
    SerialLossless(d) /\ known[d] # {} /\ tx[d][m] # Idle =>
      /\ seen[d][m] = tx[d][m][1]
      /\ PageAcceptable(tx[d][m][1]) => cur = tx[d][m]

CifInv == TypeOK /\ CurIsOnAir /\ OwnRows

LEMMA InitCif == Init => CifInv
<1> USE CifAssumption
<1> SUFFICES ASSUME Init PROVE CifInv
  OBVIOUS
<1>1. TypeOK
  BY DEF Init, TypeOK, NoRows, Handle, Silent, NoHeader
<1> QED
  BY <1>1 DEF Init, CifInv, CurIsOnAir, OwnRows

LEMMA MagOfHandle == \A h \in Handle : h[1] \in Page /\ MagOf(h[1]) \in Mag
BY DEF Handle, Mag

(* After the header of page h nothing else is on the air in serial mode.   *)
LEMMA SerialHeader ==
  ASSUME TypeOK, NEW d \in Db, NEW h \in Handle, HeaderSent(d, h),
         SerialLossless(d)
  PROVE  \E air \in OnAir({}) :
           /\ tx' = [tx EXCEPT ![d] = air]
           /\ air[MagOf(h[1])] = h
           /\ \A m \in Mag : air[m] # Idle => m = MagOf(h[1])
<1>1. PICK air \in OnAir({}) :
        air[MagOf(h[1])] = h /\ tx' = [tx EXCEPT ![d] = air]
  BY DEF HeaderSent, SerialLossless
<1>2. ASSUME NEW m \in Mag, air[m] # Idle PROVE m = MagOf(h[1])
  <2>1. h # Idle /\ MagOf(h[1]) \in Mag
    BY MagOfHandle, CifAssumption
  <2> QED
    BY <1>1, <1>2, <2>1 DEF OnAir
<1> QED
  BY <1>1, <1>2

LEMMA StepCif == OneChannel /\ CifInv /\ [Next]_vars => CifInv'
<1> USE CifAssumption
<1> SUFFICES ASSUME OneChannel, CifInv, [Next]_vars PROVE CifInv'
  OBVIOUS
<1>0. TypeOK /\ CurIsOnAir /\ OwnRows
  BY DEF CifInv
<1>1. ASSUME NEW d \in Db, NEW kind \in Modes, NEW air \in OnAir(kind),
             Create(d, kind, air)
      PROVE  CifInv'
  <2>1. TypeOK'
    <3>1. air \in [Mag -> Handle \union {Idle}]
      BY DEF OnAir
    <3> QED
      BY <1>0, <1>1, <3>1 DEF Create, TypeOK, NoRows, NoHeader
  <2>3. CurIsOnAir'
    BY <1>0, <1>1 DEF Create, TypeOK, OneChannel, CurIsOnAir, SerialLossless
  <2>4. OwnRows'
    BY <1>0, <1>1 DEF Create, TypeOK, OneChannel, NoRows, OwnRows, SerialLossless
  <2> QED
    BY <2>1, <2>3, <2>4 DEF CifInv
<1>2. ASSUME NEW d \in Db, Destroy(d) PROVE CifInv'
  <2>1. TypeOK'
    BY <1>0, <1>2 DEF Destroy, TypeOK, Silent
  <2>2. CurIsOnAir' /\ OwnRows'
    BY <1>0, <1>2 DEF Destroy, TypeOK, OneChannel, CurIsOnAir, OwnRows, SerialLossless
  <2> QED
    BY <2>1, <2>2 DEF CifInv
<1>3. ASSUME NEW d \in Db, NEW h \in Handle, ReceiveHeader(d, h) PROVE CifInv'
  <2> DEFINE mag == MagOf(h[1])
  <2>0. PICK air \in OnAir(mode[d]) :
          tx' = [tx EXCEPT ![d] = air] /\ air[mag] = h
    BY <1>3 DEF ReceiveHeader, HeaderSent
  <2>1. mag \in Mag /\ h[1] \in Page
    BY MagOfHandle
  <2>2. d \in exists /\ exists' = exists /\ row' = row /\ btt' = btt
        /\ mode' = mode /\ seen' = [seen EXCEPT ![d][mag] = h[1]]
    BY <1>3 DEF ReceiveHeader, AddHeader, Filter, dbVars
  <2>3. \/ PageAcceptable(h[1]) /\ cur' = h /\ known' = [known EXCEPT ![d] = @ \union {h}]
        \/ ~PageAcceptable(h[1]) /\ cur' = cur /\ known' = known
    BY <1>3 DEF ReceiveHeader, AddHeader, Filter, dbVars
  <2> HIDE DEF mag
  <2>4. TypeOK'
    <3>1. tx' \in [Db -> [Mag -> Handle \union {Idle}]]
      BY <1>0, <2>0 DEF TypeOK, OnAir
    <3>2. seen' \in [Db -> [Mag -> Page \union {MagPage(m) : m \in Mag}]]
      BY <1>0, <2>1, <2>2 DEF TypeOK
    <3>3. cur' \in Handle \union {<<NoPage, NoPage>>} /\ known' \in [Db -> SUBSET Handle]
      <4>1. known' = [known EXCEPT ![d] = known[d] \union {h}] \/ known' = known
        BY <2>3
      <4>2. known \in [Db -> SUBSET Handle] /\ known[d] \union {h} \in SUBSET Handle
        BY <1>0 DEF TypeOK
      <4>3. cur' \in Handle \union {<<NoPage, NoPage>>}
        BY <1>0, <2>3 DEF TypeOK
      <4> QED
        BY <4>1, <4>2, <4>3
    <3> QED
      BY <1>0, <2>2, <3>1, <3>2, <3>3 DEF TypeOK
  <2>6. CurIsOnAir'
    <3> SUFFICES ASSUME NEW e \in exists', NEW m \in Mag,
                        SerialLossless(e)', tx'[e][m] # Idle
                 PROVE  /\ seen'[e][m] = tx'[e][m][1]
                        /\ PageAcceptable(tx'[e][m][1]) => cur' = tx'[e][m]
      BY DEF CurIsOnAir
    <3>1. e = d /\ SerialLossless(d)
      BY <1>0, <2>2 DEF TypeOK, OneChannel, SerialLossless
    <3>2. m = mag /\ tx'[e][m] = h
      BY <1>0, <1>3, <3>1, SerialHeader DEF ReceiveHeader, TypeOK, mag
    <3>3. seen'[e][m] = h[1]
      BY <1>0, <2>1, <2>2, <3>1, <3>2 DEF TypeOK
    <3> QED
      BY <2>3, <3>2, <3>3
  <2>7. OwnRows'
    BY <1>0, <2>2 DEF OwnRows, SerialLossless
  <2> QED
    BY <2>4, <2>6, <2>7 DEF CifInv
<1>4. ASSUME NEW d \in Db, NEW m \in Mag, NEW k \in Rows, ReceiveRow(d, m, k) PROVE CifInv'
  <2>0. tx[d][m] \in Handle /\ d \in exists /\ UNCHANGED <<cur, exists, known, mode, tx, seen>>
    BY <1>0, <1>4 DEF ReceiveRow, AddRow, Filter, dbVars, TypeOK
  <2>1. CASE AddRow(d, seen[d][m], tx[d][m], k)
    <3>1. TypeOK'
      <4>1. row' \in [Db -> [Handle -> [Rows -> Handle \union {NoRow}]]]
        BY <1>0, <2>0, <2>1 DEF AddRow, TypeOK
      <4>2. btt' \in [Db -> [Rows -> Handle \union {NoRow}]]
        BY <1>0, <2>0, <2>1 DEF AddRow, TypeOK
      <4> QED
        BY <1>0, <2>0, <4>1, <4>2 DEF TypeOK
    <3>2. CurIsOnAir'
      BY <1>0, <2>0 DEF CurIsOnAir, SerialLossless
    <3>3. OwnRows'
      <4> SUFFICES ASSUME NEW e \in exists', NEW g \in Handle, NEW j \in Rows,
                          SerialLossless(e)'
                   PROVE row'[e][g][j] \in {NoRow, g}
        BY DEF OwnRows
      <4>1. e \in exists /\ e = d /\ SerialLossless(d) /\ row[e][g][j] \in {NoRow, g}
        BY <1>0, <2>0 DEF OwnRows, SerialLossless, TypeOK, OneChannel
      <4>2. CASE cur[1] # BttPage /\ cur \in known[d]
        <5>1. cur = tx[d][m]
          BY <1>0, <1>4, <2>0, <2>1, <4>1, <4>2 DEF ReceiveRow, AddRow, CurIsOnAir
        <5>2. row' = [row EXCEPT ![d][cur][k] = tx[d][m]]
          BY <2>1, <4>2 DEF AddRow
        <5> QED
          BY <1>0, <2>0, <4>1, <5>1, <5>2 DEF TypeOK
      <4>3. CASE ~(cur[1] # BttPage /\ cur \in known[d])
        BY <2>1, <4>1, <4>3 DEF AddRow
      <4> QED
        BY <4>2, <4>3
    <3> QED
      BY <3>1, <3>2, <3>3 DEF CifInv
  <2>2. CASE Filter(seen[d][m])
    BY <1>0, <1>4, <2>2
    DEF ReceiveRow, Filter, dbVars, CifInv, TypeOK, CurIsOnAir, OwnRows, SerialLossless
  <2> QED
    BY <1>4, <2>1, <2>2 DEF ReceiveRow
<1>5. CASE UNCHANGED vars
  BY <1>0, <1>5 DEF vars, CifInv, TypeOK, CurIsOnAir, OwnRows, SerialLossless
<1>6. ASSUME NEW d \in Db, NEW h \in Handle, LoseHeader(d, h) PROVE CifInv'
  <2>1. d \in exists /\ ~SerialLossless(d) /\ UNCHANGED <<cur, dbVars, mode, seen>>
    BY <1>6 DEF LoseHeader, SerialLossless
  <2>2. tx' \in [Db -> [Mag -> Handle \union {Idle}]]
    BY <1>0, <1>6 DEF LoseHeader, HeaderSent, TypeOK, OnAir
  <2>3. \A e \in exists : ~SerialLossless(e)'
    BY <1>0, <2>1 DEF TypeOK, OneChannel, SerialLossless
  <2> QED
    BY <1>0, <2>1, <2>2, <2>3 DEF CifInv, TypeOK, CurIsOnAir, OwnRows, dbVars
<1> QED
  BY <1>1, <1>2, <1>3, <1>4, <1>5, <1>6 DEF Next

LEMMA CifInvariant == OneChannel /\ Spec => []CifInv
<1>1. CASE OneChannel
  <2>1. CifInv /\ [Next]_vars => CifInv'
    BY <1>1, StepCif
  <2> QED
    BY <2>1, InitCif, PTL DEF Spec
<1>2. CASE ~OneChannel
  BY <1>2
<1> QED
  BY <1>1, <1>2

(* As long as there is one channel, in serial mode and without lost        *)
(* headers, every row is stored under the page it was sent for, however    *)
(* often the database is replaced and in whatever page the channel is      *)
(* joined.                                                                 *)
THEOREM OneChannelOwnRows == OneChannel /\ Spec => []OwnRows
<1>1. CifInv => OwnRows
  BY DEF CifInv
<1> QED
  BY <1>1, CifInvariant, PTL

(* Under the same conditions the BTT receives its own lines only, once the *)
(* first header of the channel was stored; before that the page remembered *)
(* from the channel before may be 1F0, and rows of any page go there.      *)
THEOREM OneChannelOwnLines == OneChannel /\ Spec => OwnLines
<1>1. CifInv /\ [Next]_vars =>
        [\A d \in exists, k \in Rows :
           SerialLossless(d) /\ known[d] # {} /\ btt'[d][k] # btt[d][k]
             => IsBttLine(btt'[d][k])]_vars
  <2> SUFFICES ASSUME CifInv, Next, NEW d \in exists, NEW k \in Rows,
                      SerialLossless(d), known[d] # {}, btt'[d][k] # btt[d][k]
               PROVE  IsBttLine(btt'[d][k])
    OBVIOUS
  <2>0. d \in Db /\ TypeOK /\ CurIsOnAir
    BY DEF CifInv, TypeOK
  <2>1. ASSUME NEW e \in Db, NEW kind \in Modes, NEW air \in OnAir(kind)
        PROVE  ~Create(e, kind, air)
    BY <2>0, <2>1 DEF Create, TypeOK
  <2>2. PICK e \in Db, m \in Mag, j \in Rows : ReceiveRow(e, m, j)
    BY <2>0, <2>1
    DEF Next, Destroy, ReceiveHeader, LoseHeader, AddHeader, Filter, dbVars
  <2>3. /\ cur[1] = BttPage /\ PageAcceptable(seen[e][m])
        /\ btt' = [btt EXCEPT ![e][j] = tx[e][m]]
    BY <2>2 DEF ReceiveRow, AddRow, Filter, dbVars
  <2>4. e = d /\ btt'[d][k] = tx[d][m]
    BY <2>0, <2>3 DEF TypeOK
  <2>5. cur = tx[d][m]
    BY <2>0, <2>2, <2>3, <2>4 DEF ReceiveRow, CurIsOnAir
  <2> QED
    BY <2>3, <2>4, <2>5 DEF IsBttLine
<1> QED
  BY <1>1, CifInvariant, PTL DEF Spec, OwnLines

-----------------------------------------------------------------------------
(* Any number of channels                                                  *)

(* The shape of the tables, which does not depend on who is on the air.    *)
Tables ==
  /\ known \in [Db -> SUBSET Handle]
  /\ DOMAIN row = Db
  /\ \A d \in Db : DOMAIN row[d] = Handle
  /\ exists \subseteq Db

LEMMA KnownStep == Tables /\ RowsOfKnownPages /\ [Next]_vars => (Tables /\ RowsOfKnownPages)'
<1>. SUFFICES ASSUME Tables, RowsOfKnownPages, [Next]_vars
              PROVE  Tables' /\ RowsOfKnownPages'
  OBVIOUS
<1>1. ASSUME NEW d \in Db, NEW kind \in Modes, NEW air \in OnAir(kind),
             Create(d, kind, air)
      PROVE  Tables' /\ RowsOfKnownPages'
  BY <1>1 DEF Create, Tables, RowsOfKnownPages
<1>2. ASSUME NEW d \in Db, Destroy(d)
      PROVE  Tables' /\ RowsOfKnownPages'
  BY <1>2 DEF Destroy, Tables, RowsOfKnownPages
<1>3. ASSUME NEW d \in Db, NEW h \in Handle, ReceiveHeader(d, h)
      PROVE  Tables' /\ RowsOfKnownPages'
  BY <1>3 DEF ReceiveHeader, AddHeader, Filter, dbVars, Tables, RowsOfKnownPages
<1>6. ASSUME NEW d \in Db, NEW h \in Handle, LoseHeader(d, h)
      PROVE  Tables' /\ RowsOfKnownPages'
  BY <1>6 DEF LoseHeader, dbVars, Tables, RowsOfKnownPages
<1>4. ASSUME NEW d \in Db, NEW m \in Mag, NEW k \in Rows, ReceiveRow(d, m, k)
      PROVE  Tables' /\ RowsOfKnownPages'
  <2>1. CASE row' = row
    BY <1>4, <2>1 DEF ReceiveRow, AddRow, Filter, dbVars, Tables, RowsOfKnownPages
  <2>2. CASE cur \in known[d] /\ row' = [row EXCEPT ![d][cur][k] = tx[d][m]]
    <3>1. UNCHANGED <<cur, exists, known>>
      BY <1>4 DEF ReceiveRow, AddRow, Filter, dbVars
    <3>2. \A e \in Db, g \in Handle : row'[e][g] = row[e][g] \/ (e = d /\ g = cur)
      BY <2>2 DEF Tables
    <3>3. Tables'
      BY <2>2, <3>1 DEF Tables
    <3>. QED
      BY <2>2, <3>1, <3>2, <3>3 DEF RowsOfKnownPages
  <2>. QED
    BY <1>4, <2>1, <2>2 DEF ReceiveRow, AddRow, Filter, dbVars
<1>5. CASE UNCHANGED vars
  BY <1>5 DEF vars, Tables, RowsOfKnownPages
<1>. QED
  BY <1>1, <1>2, <1>3, <1>4, <1>5, <1>6 DEF Next

(* Only pages whose header was received in this database have rows, in any *)
(* mode, with any losses, and also while packets of several channels come  *)
(* in turn: the page remembered from another channel makes no page of its  *)
(* own.                                                                    *)
THEOREM RowsHaveHeaders == Spec => []RowsOfKnownPages
<1>1. Init => Tables /\ RowsOfKnownPages
  BY DEF Init, Tables, RowsOfKnownPages
<1>. QED
  BY <1>1, KnownStep, PTL DEF Spec
=============================================================================
