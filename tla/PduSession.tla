------------------------------- MODULE PduSession ------------------------------
(***************************************************************************)
(* PDU sessions from end to end: the session procedures of the SMF, the    *)
(* N4 interface and the session switches of the UPFs.                      *)
(***************************************************************************)
EXTENDS UpfSwitch, SmfSession

ASSUME BoundsAssumption ==
  {MaxContexts, MaxLost, MaxFailures, MaxAsked} \subseteq Nat

vars == <<channel, upfVars, smfVars>>

Init == ChannelInit /\ UpfInit /\ SmfInit

Next ==
  \/ \E s \in Sessions : Request(s) /\ UNCHANGED upfVars
  \/ \E m \in n4 : Receive(m) /\ UNCHANGED upfVars
  \/ \E u \in Upfs, m \in n4 : Serve(u, m) /\ UNCHANGED smfVars
  \/ \E u \in Upfs : HeartbeatFailure(u) /\ UNCHANGED smfVars
  \/ \E u \in Upfs : Associate(u) /\ UNCHANGED smfVars
  \/ \E m \in n4 : Lose(m) /\ UNCHANGED <<upfVars, smfVars>>

(***************************************************************************)
(* The task of the SMF and the one of a UPF take every message from their  *)
(* queue, in turn.  Nothing is assumed of the AMF, the UEs and the         *)
(* heartbeats.                                                             *)
(***************************************************************************)
Fairness ==
  \A p \in Procs :
    /\ WF_vars(\E m \in n4 : m.proc = p /\ Receive(m) /\ UNCHANGED upfVars)
    /\ WF_vars(\E u \in Upfs, m \in n4 : m.proc = p /\ Serve(u, m) /\ UNCHANGED smfVars)

Spec     == Init /\ [][Next]_vars
FairSpec == Spec /\ Fairness

------------------------------------------------------------------------------
\* Any: after an address below the pool was returned, ones beyond it are given.
Addresses == {NoAddress} \cup Int

\* Types of the state of the SMF and of the UPFs.
TypeOK ==
  /\ Len(ctx) <= MaxContexts
  /\ lost \in 0 .. MaxLost /\ failures \in 0 .. MaxFailures /\ asked \in 0 .. MaxAsked
  /\ cur \in [Sessions -> 0 .. Len(ctx)]
  /\ ran \in [Sessions -> {"none", "setup", "up", "idle"}]
  /\ procs \subseteq Procs
  /\ \A c \in DOMAIN ctx :
       /\ ctx[c].slot \in Sessions /\ ctx[c].graph \in BOOLEAN
       /\ ctx[c].ip \in Addresses
       /\ ctx[c].at \in Upfs /\ ctx[c].todo \in Seq(Upfs)
       /\ ctx[c].cnx \in {"ACTIVATED", "ACTIVATING", "DEACTIVATED"}
  /\ \A u \in Upfs :
       /\ DOMAIN switch[u] \subseteq 1 .. seids[u]
       /\ DOMAIN cpMap[u] \subseteq DOMAIN ctx
       /\ smf[u].sessions \subseteq DOMAIN ctx
       /\ \A k \in DOMAIN ulPdrs[u] : k \in 1 .. teids[u] /\ ulPdrs[u][k] # <<>>
       /\ \A k \in DOMAIN dlPdrs[u] : k \in Addresses \ {NoAddress} /\ dlPdrs[u][k] # <<>>

(***************************************************************************)
(* An address of the pool that nobody is subscribed to belongs to one UE:  *)
(* contexts that reached their UPF never hold the same one, and one that   *)
(* is held is not free in the pool, whichever releases, retries and late   *)
(* answers there were (smf_paa_dynamic.hpp, deallocate_ressources).  One   *)
(* that is in the pool and in a subscription is given to both UEs.         *)
(***************************************************************************)
Unsubscribed == 0 .. PoolSize - 1 \ {Static[s] : s \in Sessions}

Holders == {c \in DOMAIN ctx : ctx[c].graph /\ ctx[c].ip \in Unsubscribed}

AddressExclusive ==
  \A c \in Holders :
    /\ ~IsFree(pool, ctx[c].ip)
    /\ \A d \in Holders \ {c} : ctx[d].ip # ctx[c].ip

(***************************************************************************)
(* The two maps of the switch agree (pfcp_switch.cpp, add_pfcp_session_*,  *)
(* remove_pfcp_session): every session is found by its CP F-SEID, which is *)
(* the one of its context, and by its UP SEID.                             *)
(***************************************************************************)
SwitchConsistent ==
  \A u \in Upfs :
    /\ \A x \in DOMAIN switch[u] :
         switch[u][x].cp \in DOMAIN cpMap[u] /\ cpMap[u][switch[u][x].cp] = x
    /\ \A c \in DOMAIN cpMap[u] :
         cpMap[u][c] \in DOMAIN switch[u] /\ switch[u][cpMap[u][c]].cp = c

(***************************************************************************)
(* A downlink packet is only ever forwarded into the session of a context  *)
(* that holds its address in the SMF: a released and reused address never  *)
(* leads to the old UE, although the rules of an idle UE stay in the table *)
(* (pfcp_session_look_up_pack_in_core).                                    *)
(***************************************************************************)
NoMisdelivery ==
  \A u \in Upfs : \A k \in DOMAIN dlPdrs[u] :
    \A x \in Forwarding(u, k) : ctx[switch[u][x].cp].ip = k

(***************************************************************************)
(* What a deletion request makes a UPF remove is the session of the        *)
(* context that is released (send_n4_session_deletion_request and          *)
(* handle_pfcp_session_deletion_request): nobody else loses a session.     *)
(***************************************************************************)
OnlyOwnSession ==
  [][\A u \in Upfs, m \in n4 :
       m.type = "del" /\ m.to = u /\ m \notin n4' =>
         \A c \in DOMAIN cpMap[u] \ DOMAIN cpMap'[u] : c = m.proc.ctx]_vars

(***************************************************************************)
(* With one UPF, a deletion request that names a session of the UPF ends   *)
(* in the address of the UE being back in the pool, unless a message is    *)
(* lost or the UPF gives up the SMF meanwhile.                             *)
(***************************************************************************)
Released(c) == c \in DOMAIN ctx /\ ctx[c].ip = NoAddress

Deleting(c) ==
  \E m \in n4 : /\ m.type = "del" /\ m.to \in Upfs /\ m.proc.ctx = c
                /\ m.seid \in DOMAIN switch[m.to]
                /\ Path[ctx[c].slot] = <<m.to>>

DeletionReturnsAddress ==
  \A c \in Contexts :
    Deleting(c) ~> (Released(c) \/ lost > 0 \/ failures > 0)

(***************************************************************************)
(* A UPF is asked for its part of a path only when the UPF towards the     *)
(* data network has given the tunnel that leads to it, also when a release *)
(* has moved the traversal meanwhile (handle_itti_msg of                   *)
(* session_create_sm_context_procedure).                                   *)
(***************************************************************************)
TunnelFirst ==
  \A m \in n4 :
    m.type = "est" /\ m.to # "smf" =>
      LET x == ctx[m.cp]
          i == CHOOSE j \in DOMAIN Path[x.slot] : Path[x.slot][j] = m.to
      IN  i > 1 => x.edge[Path[x.slot][i - 1]].dl.teid # 0
================================================================================
