------------------------------ MODULE MCTtxCif ------------------------------
(* Pages 100 and 200 are ordinary ones of two magazines, 10A is not        *)
(* acceptable and 1F0 is the BTT; see the configurations.                  *)
EXTENDS TtxCif

\* A good channel and a bad one, between which a user may change.
MCModes == {{}, {"parallel", "lossy"}}
Good    == {{}}
=============================================================================
