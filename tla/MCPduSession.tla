----------------------------- MODULE MCPduSession ------------------------------
(***************************************************************************)
(* Instances of PduSession: paths and the addresses of subscriptions, one  *)
(* inside the pool, as docs/DEPLOY_SA5G_BASIC_STATIC_UE_IP.md deploys it.  *)
(***************************************************************************)
EXTENDS PduSession, TLC

CONSTANTS ue1, ue2, upf1, upf2, upf3, upf4

OneUpf   == [s \in Sessions |-> <<upf1>>]
Chain    == [s \in Sessions |-> IF s = ue1 THEN <<upf1, upf2>> ELSE <<upf1>>]
Apart    == [s \in Sessions |-> IF s = ue1 THEN <<upf1, upf2, upf3>> ELSE <<upf4>>]
Dynamic  == [s \in Sessions |-> NoAddress]
OneStatic == [s \in Sessions |-> IF s = ue1 THEN NoAddress ELSE 0]
Symmetry == Permutations(Sessions)
================================================================================
