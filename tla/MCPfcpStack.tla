------------------------------ MODULE MCPfcpStack ------------------------------
(* Instances of PfcpStack: one SMF and one or two UPFs.                     *)
EXTENDS PfcpStack, TLC

CONSTANTS smf, upf, upf2

OneUpf  == {smf, upf}
TwoUpfs == {smf, upf, upf2}

(* The SMF's counter is about to wrap; the numbers of its two UPFs are the  *)
(* same and meet those of the SMF.                                          *)
MeetSeq     == (smf :> CtrMod - 1) @@ (upf :> 0) @@ (upf2 :> 0)
Crossing    == {<<smf, upf, HeartbeatRequest>>, <<smf, upf2, SessionEstablishment>>,
                <<upf2, smf, HeartbeatRequest>>, <<upf, smf, SessionReportRequest>>}

ApartPair   == (smf :> 0) @@ (upf :> 2)
OneWay      == {<<smf, upf, SessionEstablishment>>}
================================================================================
