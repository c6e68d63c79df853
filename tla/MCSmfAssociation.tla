--------------------------- MODULE MCSmfAssociation ----------------------------
(* An instance of SmfAssociation: two UPFs and room for one, the second     *)
(* with the node id the SMF looks a release up under.  With Half = 4 and    *)
(* SizeMod = 32 the hash of the second survives an int32_t, that of the     *)
(* first does not.                                                          *)
EXTENDS SmfAssociation, TLC

CONSTANTS upf1, upf2

TwoUpfs == {upf1, upf2}
HighLow == (upf1 :> 5) @@ (upf2 :> 3)
================================================================================
