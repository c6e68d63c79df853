---------------------------------- MODULE N4 -----------------------------------
(***************************************************************************)
(* The N4 interface between the session procedures of the SMF and the      *)
(* session switch of the UPFs: the PFCP session messages in flight.        *)
(*                                                                         *)
(* PfcpStack models how the transaction layer below carries a request and  *)
(* its answer.  Seen from above, a request is handed to the UPF at most    *)
(* once, its answer comes back at most once, and messages overtake each    *)
(* other or are lost when every retransmission is.                         *)
(***************************************************************************)
EXTENDS Integers, Sequences

CONSTANTS
  Sessions,    \* PDU sessions: a SUPI and a PDU session id
  Upfs,
  NoAddress,   \* in place of the IPv4 address of a UE
  MaxContexts, \* bound: SM contexts created
  MaxLost,     \* bound: messages lost
  MaxInFlight  \* bound: procedures that wait for a UPF, when one more begins

\* The SMF is not one of the UPFs.
ASSUME NamesAssumption == "smf" \notin Upfs

VARIABLES
  n4,      \* requests and answers in flight
  lost     \* messages lost

channel == <<n4, lost>>

Contexts == 1 .. MaxContexts

(***************************************************************************)
(* What a procedure of the SMF is doing for a context; with the context it *)
(* stands for the transaction number of its messages.                      *)
(***************************************************************************)
Kinds == {"create", "setup", "resume", "service", "idle", "release"}
Procs == [kind : Kinds, ctx : Contexts]

ChannelInit == n4 = {} /\ lost = 0

Lose(m) ==
  /\ lost < MaxLost
  /\ lost' = lost + 1
  /\ n4' = n4 \ {m}
================================================================================
