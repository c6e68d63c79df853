---------------------------- MODULE MCAmfConnection ----------------------------
(* Instances of AmfConnection: the UEs at the start.                        *)
EXTENDS AmfConnection, TLC

CONSTANTS ue1, ue2

OneUe == ue1 :> 1
TwoUes == (ue1 :> 1) @@ (ue2 :> 2)
================================================================================
