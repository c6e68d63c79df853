----------------------------- MODULE MCNrfRegistry -----------------------------
(* NrfRegistry with named NFs: one that keeps its heartbeats, one that may  *)
(* fall silent at any time.                                                 *)
EXTENDS NrfRegistry

CONSTANTS amf, smf

Requests == [nf \in NFs |-> IF nf \in Punctual THEN 1 ELSE 3]
================================================================================
