------------------------------- MODULE UpfSwitch -------------------------------
(***************************************************************************)
(* The session switch of the UPFs (oai-upf/src/upf_app/simpleswitch) and   *)
(* its list of the sessions of the SMF (app/upf_pfcp_association.cpp).     *)
(*                                                                         *)
(* A session holds the packet detection rules (PDRs) and forwarding rules  *)
(* (FARs) the SMF sent.  A PDR is also in one of two lookup tables, where  *)
(* packets find it: uplink packets by their tunnel (TEID), downlink ones   *)
(* by the address of the UE.  The two are filled together and emptied      *)
(* apart.  TASK_UPF_APP serves one request after another.                  *)
(*                                                                         *)
(* With one QoS flow in a session, a request holds at most one PDR and one *)
(* FAR to create.  Identifiers are numbers and 0 is the empty one.         *)
(***************************************************************************)
EXTENDS N4, FiniteSets

CONSTANT MaxFailures  \* bound: heartbeat failures

VARIABLES
  switch,   \* up_seid2pfcp_sessions
  cpMap,    \* cp_fseid2pfcp_sessions: the UP SEID of the session
  ulPdrs,   \* ul_n3_teid2pfcp_pdr
  dlPdrs,   \* ue_ipv4_hbo2pfcp_pdr
  seids,    \* UP SEIDs generated
  teids,    \* TEIDs generated
  smf,      \* the SMF's pfcp_association: is it there, and its sessions
  failures  \* heartbeat failures

upfVars == <<switch, cpMap, ulPdrs, dlPdrs, seids, teids, smf, failures>>

EmptyMap == [x \in {} |-> x]

Put(f, k, v) == [x \in DOMAIN f \cup {k} |-> IF x = k THEN v ELSE f[x]]
Erase(f, K)  == [x \in DOMAIN f \ K |-> f[x]]

(***************************************************************************)
(* Rules.  A PDR has the direction of the packets it detects; its key is   *)
(* the TEID or the UE address.                                             *)
(***************************************************************************)
Indices(s, P(_)) == {i \in DOMAIN s : P(s[i])}
First(S)         == CHOOSE i \in S : \A j \in S : i <= j
Without(s, i)    == SubSeq(s, 1, i - 1) \o SubSeq(s, i + 1, Len(s))
InsertAt(s, i, e) == SubSeq(s, 1, i - 1) \o <<e>> \o SubSeq(s, i, Len(s))

\* add_pfcp_ul_pdr_by_up_teid and add_pfcp_dl_pdr_by_ue_ip: before the first
\* rule of lower precedence.
Inserted(rules, r) ==
  LET lower == Indices(rules, LAMBDA x : x.prec < r.prec)
  IN  IF lower = {} THEN rules ELSE InsertAt(rules, First(lower), r)

AddRule(table, r) ==
  Put(table, r.key, IF r.key \in DOMAIN table THEN Inserted(table[r.key], r)
                                              ELSE <<r>>)

(***************************************************************************)
(* pfcp_session::create(create_pdr): the UPF chooses the TEID of an uplink *)
(* rule that has none; a downlink rule needs the address of the UE.        *)
(***************************************************************************)
Chooses(p)     == p.dir = "ul" /\ p.key = 0
Creatable(p)   == p.dir = "dl" => p.key # NoAddress
Rule(u, p, up) == [id |-> p.id, far |-> p.far, prec |-> p.prec, dir |-> p.dir,
                   key |-> IF Chooses(p) THEN teids[u] + 1 ELSE p.key, up |-> up]

CreateRuleStuck(u, p, r) ==
  /\ ulPdrs' = [ulPdrs EXCEPT ![u] = IF p.dir = "ul" THEN AddRule(@, r) ELSE @]
  /\ dlPdrs' = [dlPdrs EXCEPT ![u] = IF p.dir = "dl" THEN AddRule(@, r) ELSE @]
  /\ UNCHANGED teids

CreateRule(u, p, r) ==
  /\ teids'  = [teids EXCEPT ![u] = IF Chooses(p) THEN @ + 1 ELSE @]
  /\ ulPdrs' = [ulPdrs EXCEPT ![u] = IF p.dir = "ul" THEN AddRule(@, r) ELSE @]
  /\ dlPdrs' = [dlPdrs EXCEPT ![u] = IF p.dir = "dl" THEN AddRule(@, r) ELSE @]

(***************************************************************************)
(* pfcp_session::cleanup erases the whole entry of each rule the session   *)
(* still has.                                                              *)
(***************************************************************************)
KeysOf(pdrs, dir) == {pdrs[i].key : i \in {j \in DOMAIN pdrs : pdrs[j].dir = dir}}

RemoveSessionsKeepFseid(u, U) ==
  /\ switch' = [switch EXCEPT ![u] = Erase(@, U)]
  /\ ulPdrs' = [ulPdrs EXCEPT
                  ![u] = Erase(@, UNION {KeysOf(switch[u][x].pdrs, "ul") : x \in U})]
  /\ dlPdrs' = [dlPdrs EXCEPT
                  ![u] = Erase(@, UNION {KeysOf(switch[u][x].pdrs, "dl") : x \in U})]
  /\ UNCHANGED cpMap

RemoveSessions(u, U) ==
  /\ switch' = [switch EXCEPT ![u] = Erase(@, U)]
  /\ cpMap'  = [cpMap EXCEPT ![u] = Erase(@, {switch[u][x].cp : x \in U})]
  /\ ulPdrs' = [ulPdrs EXCEPT
                  ![u] = Erase(@, UNION {KeysOf(switch[u][x].pdrs, "ul") : x \in U})]
  /\ dlPdrs' = [dlPdrs EXCEPT
                  ![u] = Erase(@, UNION {KeysOf(switch[u][x].pdrs, "dl") : x \in U})]

(***************************************************************************)
(* An answer: the SMF's SEID in its header, by which the SMF finds the     *)
(* session, the UP SEID of a new session, and the tunnel of a new uplink   *)
(* rule.                                                                   *)
(***************************************************************************)
Answer(m, cause, hdr, up, rules) ==
  n4' = (n4 \ {m}) \cup
        {[to |-> "smf", from |-> m.to, type |-> m.type, proc |-> m.proc,
          cause |-> cause, hdr |-> hdr, seid |-> up,
          tunnels |-> {[pdr |-> r.id, teid |-> r.key] : r \in
                         {x \in rules : x.dir = "ul"}}]}

\* generate_seid: a number that was never used.
NextSeidReused(u) == Cardinality(DOMAIN switch[u]) + 1
NextSeid(u)       == seids[u] + 1

(***************************************************************************)
(* handle_pfcp_session_establishment_request.  The SMF's rules are well    *)
(* formed, so that creating them cannot fail; an F-SEID the UPF knows is   *)
(* refused.  A session is accepted without an association too, but then it *)
(* is on no list.                                                          *)
(***************************************************************************)
Establish(u, m) ==
  LET p  == m.pdrs[1]
      up == NextSeid(u)
      r  == Rule(u, p, up)
  IN  /\ m.type = "est" /\ m.to = u
      /\ m.cp \notin DOMAIN cpMap[u]
      /\ seids' = [seids EXCEPT ![u] = up]
      /\ CreateRule(u, p, r)
      /\ switch' = [switch EXCEPT ![u] =
                      Put(@, up, [cp |-> m.cp, pdrs |-> <<r>>, fars |-> m.fars])]
      /\ cpMap' = [cpMap EXCEPT ![u] = Put(@, m.cp, up)]
      /\ smf' = [smf EXCEPT ![u].sessions = IF smf[u].up THEN @ \cup {m.cp} ELSE @]
      /\ Answer(m, "accepted", m.cp, up, {r})
      /\ UNCHANGED <<lost, failures>>

EstablishAgain(u, m) ==
  /\ m.type = "est" /\ m.to = u
  /\ m.cp \in DOMAIN cpMap[u]
  /\ Answer(m, "rejected", m.cp, 0, {})
  /\ UNCHANGED <<upfVars, lost>>

(***************************************************************************)
(* pfcp_session::remove, for one identifier after the other: the first one *)
(* that is missing ends the request, and those before it stay removed.     *)
(* The rule leaves the session but not the lookup table.                   *)
(***************************************************************************)
RemoveRules(rules, ids) ==
  LET after[i \in 0 .. Len(ids)] ==
        IF i = 0 THEN [ok |-> TRUE, rules |-> rules]
        ELSE LET a     == after[i - 1]
                 found == Indices(a.rules, LAMBDA x : x.id = ids[i])
             IN  IF a.ok /\ found # {}
                 THEN [ok |-> TRUE, rules |-> Without(a.rules, First(found))]
                 ELSE [ok |-> FALSE, rules |-> a.rules]
  IN  after[Len(ids)]

(***************************************************************************)
(* handle_pfcp_session_modification_request: remove PDRs, remove FARs,     *)
(* create FARs, create PDRs; a failure stops there and undoes nothing.     *)
(***************************************************************************)
Modify(u, m) ==
  LET s       == switch[u][m.seid]
      pdrs    == RemoveRules(s.pdrs, m.rmPdrs)
      fars    == IF pdrs.ok THEN RemoveRules(s.fars, m.rmFars)
                            ELSE [ok |-> FALSE, rules |-> s.fars]
      creates == fars.ok /\ m.pdrs # <<>>
      made    == creates /\ Creatable(m.pdrs[1])
      r       == Rule(u, m.pdrs[1], m.seid)
      cause   == CASE ~fars.ok         -> "rulefailure"
                   [] creates /\ ~made -> "rejected"
                   [] OTHER            -> "accepted"
  IN  /\ m.type = "mod" /\ m.to = u
      /\ m.seid \in DOMAIN switch[u]
      /\ switch' = [switch EXCEPT ![u][m.seid] =
                      [cp   |-> s.cp,
                       pdrs |-> IF made THEN Append(pdrs.rules, r) ELSE pdrs.rules,
                       fars |-> IF fars.ok THEN fars.rules \o m.fars ELSE fars.rules]]
      /\ IF made THEN CreateRule(u, m.pdrs[1], r)
                 ELSE UNCHANGED <<teids, ulPdrs, dlPdrs>>
      /\ Answer(m, cause, s.cp, 0, IF made THEN {r} ELSE {})
      /\ UNCHANGED <<cpMap, seids, smf, lost, failures>>

(***************************************************************************)
(* handle_pfcp_session_deletion_request.  notify_del_session is given an   *)
(* F-SEID that was never filled in: the list of the association keeps the  *)
(* session.                                                                *)
(***************************************************************************)
DeleteUnnamed(u, m) ==
  /\ m.type = "del" /\ m.to = u
  /\ m.seid \in DOMAIN switch[u]
  /\ RemoveSessions(u, {m.seid})
  /\ Answer(m, "accepted", 0, 0, {})
  /\ UNCHANGED <<seids, teids, smf, lost, failures>>

Delete(u, m) ==
  /\ m.type = "del" /\ m.to = u
  /\ m.seid \in DOMAIN switch[u]
  /\ RemoveSessions(u, {m.seid})
  /\ Answer(m, "accepted", switch[u][m.seid].cp, 0, {})
  /\ UNCHANGED <<seids, teids, smf, lost, failures>>

\* Both: CAUSE_VALUE_SESSION_CONTEXT_NOT_FOUND, and the header of the answer
\* keeps UNASSIGNED_SEID.
NotFound(u, m) ==
  /\ m.type \in {"mod", "del"} /\ m.to = u
  /\ m.seid \notin DOMAIN switch[u]
  /\ Answer(m, "notfound", 0, 0, {})
  /\ UNCHANGED <<upfVars, lost>>

(***************************************************************************)
(* timeout_heartbeat_request, after the last retry: the sessions on the    *)
(* list of the SMF are removed, the SMF is a candidate again.              *)
(***************************************************************************)
HeartbeatFailure(u) ==
  /\ smf[u].up
  /\ failures < MaxFailures
  /\ failures' = failures + 1
  /\ RemoveSessions(u, {x \in DOMAIN switch[u] : switch[u][x].cp \in smf[u].sessions})
  /\ smf' = [smf EXCEPT ![u] = [up |-> FALSE, sessions |-> {}]]
  /\ UNCHANGED <<seids, teids, n4, lost>>

\* handle_receive_association_setup_request of a candidate; a request of an SMF
\* that has its association changes nothing.
Associate(u) ==
  /\ ~smf[u].up
  /\ smf' = [smf EXCEPT ![u] = [up |-> TRUE, sessions |-> {}]]
  /\ UNCHANGED <<switch, cpMap, ulPdrs, dlPdrs, seids, teids, failures, n4, lost>>

UpfInit ==
  /\ switch = [u \in Upfs |-> EmptyMap]
  /\ cpMap  = [u \in Upfs |-> EmptyMap]
  /\ ulPdrs = [u \in Upfs |-> EmptyMap]
  /\ dlPdrs = [u \in Upfs |-> EmptyMap]
  /\ seids  = [u \in Upfs |-> 0]
  /\ teids  = [u \in Upfs |-> 0]
  /\ smf    = [u \in Upfs |-> [up |-> TRUE, sessions |-> {}]]
  /\ failures = 0

Serve(u, m) ==
  \/ Establish(u, m)
  \/ EstablishAgain(u, m)
  \/ Modify(u, m)
  \/ Delete(u, m)
  \/ NotFound(u, m)

(***************************************************************************)
(* pfcp_session_look_up_pack_in_core: the UP SEIDs of the sessions that    *)
(* forward a downlink packet for address k, none or one.  The first rule   *)
(* decides, even when its session or its FAR is gone.                      *)
(***************************************************************************)
Forwarding(u, k) ==
  {x \in DOMAIN switch[u] :
     /\ k \in DOMAIN dlPdrs[u]
     /\ dlPdrs[u][k][1].up = x
     /\ \E i \in DOMAIN switch[u][x].fars :
          switch[u][x].fars[i].id = dlPdrs[u][k][1].far}
================================================================================
