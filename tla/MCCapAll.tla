------------------------------ MODULE MCCapAll ------------------------------
(* Four channels of the list on two transponders; the first transponder    *)
(* also carries a channel that is not in the list, the second one a        *)
(* channel without teletext.                                               *)
EXTENDS CapAll

MCNet == {"ard", "arte", "zdf", "mtv"}
MCChannel == MCNet \union {"tagesschau24"}
MCTransponder == [ard |-> "t1", arte |-> "t1", tagesschau24 |-> "t1",
                  zdf |-> "t2", mtv |-> "t2"]
MCNoTtx == {"mtv"}
=============================================================================
