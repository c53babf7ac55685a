------------------------------ MODULE PageStore ------------------------------
(***************************************************************************)
(* What the receiver promises of the pages it stores, with no word of      *)
(* magazines, packets or headers: a page is stored once it was opened and  *)
(* never lost, it always has its header line, and a line that is stored,   *)
(* or replaced, is always one that was sent for this page.                 *)
(***************************************************************************)
CONSTANTS Handle, Line, NoData, Blank

VARIABLES known, text

store == <<known, text>>

Init ==
  /\ known = {}
  /\ text = [h \in Handle |-> [k \in Line |-> NoData]]

(* A header of the page arrived, possibly one with the line suppressed.    *)
Open(h) ==
  /\ known' = known \union {h}
  /\ \E d \in {h, Blank} : text' = [text EXCEPT ![h][0] = d]

(* A line of a page that was opened before, marked with its page.          *)
Keep(h, k) ==
  /\ h \in known
  /\ text' = [text EXCEPT ![h][k] = h]
  /\ UNCHANGED known

Next ==
  \E h \in Handle : Open(h) \/ \E k \in Line : Keep(h, k)

Spec == Init /\ [][Next]_store
=============================================================================
