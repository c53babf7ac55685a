------------------------------ MODULE XmltvTime ------------------------------
(***************************************************************************)
(* How a time stamp of an XMLTV file is read.  Both ParseXmltvTimestamp()  *)
(* of the grabber and ParseTimestamp() of merge.pl hand the UTC time to    *)
(* mktime() as if it were a local one, and mktime() moves a time that the  *)
(* local clock skips.                                                      *)
(***************************************************************************)
EXTENDS Integers

CONSTANTS
  Gap,      \* times that, taken for local ones, the clock skips in spring
  GapLen    \* by how much

ASSUME GapAssumption == Gap \subseteq Nat /\ GapLen \in Nat

Stamp(t) == IF t \in Gap THEN t + GapLen ELSE t

NoTime == -1    \* no stop time
=============================================================================
