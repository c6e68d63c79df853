------------------------------- MODULE SmfSession ------------------------------
(***************************************************************************)
(* The PDU sessions of the SMF: SM contexts, UE addresses and the N4       *)
(* procedures of smf_app.cpp, smf_context.cpp and smf_procedure.cpp.       *)
(* TASK_SMF_APP handles one request of the AMF or one answer of a UPF      *)
(* after another; the actions below are its handlers.                      *)
(*                                                                         *)
(* A procedure goes through the UPFs of the session one by one and waits   *)
(* for the answer of each.  The position of this traversal belongs to the  *)
(* graph of the session and is shared by the procedures that are under     *)
(* way, and one UP SEID is kept for the whole path.                        *)
(*                                                                         *)
(* Every UE has one PDU session and one QoS flow.  The number of a context *)
(* is also its CP SEID: both generators only count up.                     *)
(***************************************************************************)
EXTENDS N4, AddressPool

CONSTANTS
  Path,     \* the UPFs of a session, the one with N6 first
  Static,   \* the address of the subscription, or NoAddress
  PoolSize, \* addresses in the pool of the DNN
  MaxAsked  \* bound: requests of the AMF

\* The address of a subscription may lie in the pool, above it or below it: the
\* code compares nothing.
ASSUME AddressAssumption ==
  /\ PoolSize \in Nat
  /\ NoAddress \notin Int
  /\ \A s \in Sessions : Static[s] \in Int \cup {NoAddress}

\* The traversal visits a UPF once.
ASSUME PathAssumption ==
  \A s \in Sessions :
    /\ Path[s] \in Seq(Upfs) /\ Path[s] # <<>>
    /\ \A i, j \in DOMAIN Path[s] : Path[s][i] = Path[s][j] => i = j

VARIABLES
  ctx,      \* the smf_pdu_session objects, by the number of their context
  cur,      \* pdu_sessions: the context of a session, 0 if none
  pool,     \* paa_dynamic
  procs,    \* pending_procedures
  ran,      \* AMF and gNB: the N2 side of the session
  asked     \* requests of the AMF

smfVars == <<ctx, cur, pool, procs, ran, asked>>

UpfsOf(s)  == {Path[s][i] : i \in DOMAIN Path[s]}
Access(s)  == Path[s][Len(Path[s])]
Uplink(s)  == Path[s]                        \* start_asynch_dfs_procedure(true)
Downlink(s) == [i \in DOMAIN Path[s] |-> Path[s][Len(Path[s]) + 1 - i]]

(***************************************************************************)
(* qos_upf_edge.  The PDR of the downlink edge detects uplink packets, by  *)
(* the tunnel teid; the one of the uplink edge downlink packets.  next is  *)
(* the tunnel of the next hop on an uplink edge between two UPFs (N9).     *)
(***************************************************************************)
NoEdge == [pdr |-> 0, far |-> 0, teid |-> 0, next |-> 0, prec |-> 0]
Other  == [dl |-> "ul", ul |-> "dl"]

NewContext(s, ip, graph) ==
  [slot |-> s, ip |-> ip, graph |-> graph, upSeid |-> 0,
   todo |-> <<>>, at |-> Access(s), cnx |-> "DEACTIVATED", pdrIds |-> 0, farIds |-> 0,
   edge |-> [u \in UpfsOf(s) |-> [dl |-> NoEdge, ul |-> NoEdge]]]

\* clear_session: the precedence is kept.
ClearEdge(x, u, d) ==
  [x EXCEPT !.edge[u][d] = [NoEdge EXCEPT !.prec = x.edge[u][d].prec]]

(***************************************************************************)
(* dfs_next_upf and start_asynch_dfs_procedure.                            *)
(***************************************************************************)
Advance(x)     == [x EXCEPT !.at = Head(x.todo), !.todo = Tail(x.todo)]
Start(x, upfs) == Advance([x EXCEPT !.todo = upfs])

(***************************************************************************)
(* The search of the create procedure goes past a UPF whose uplink edge    *)
(* has no next hop yet.  An edge to the data network (N6) needs none.      *)
(***************************************************************************)
HopAssumed(x, u) == TRUE
HopKnown(x, u)   == u = Head(Path[x.slot]) \/ x.edge[u].ul.next # 0

Eligible(x) == {i \in DOMAIN x.todo : HopKnown(x, x.todo[i])}
Goto(x, i)  == [x EXCEPT !.at = x.todo[i], !.todo = SubSeq(x.todo, i + 1, Len(x.todo))]

(***************************************************************************)
(* pfcp_create_far and pfcp_create_pdr: an edge without an identifier gets *)
(* a new one.                                                              *)
(***************************************************************************)
WithFar(x, d) ==
  IF x.edge[x.at][d].far # 0 THEN x
  ELSE [x EXCEPT !.edge[x.at][d].far = x.farIds + 1, !.farIds = x.farIds + 1]

WithPdr(x, d) ==
  IF x.edge[x.at][d].pdr # 0 THEN x
  ELSE [x EXCEPT !.edge[x.at][d].pdr = x.pdrIds + 1, !.pdrIds = x.pdrIds + 1]

Prepared(x, d) == WithPdr(WithFar(x, Other[d]), d)

Far(x, d) == [id |-> x.edge[x.at][d].far]
Pdr(x, d) ==
  [id  |-> x.edge[x.at][d].pdr,  far |-> x.edge[x.at][Other[d]].far,
   prec |-> x.edge[x.at][d].prec, dir |-> Other[d],
   key |-> IF d = "dl" THEN x.edge[x.at].dl.teid ELSE x.ip]

(***************************************************************************)
(* The messages of a procedure k of context c, whose object is x.          *)
(***************************************************************************)
Message(k, c, x, type, rmPdrs, rmFars, fars, pdrs) ==
  [to |-> x.at, type |-> type, proc |-> [kind |-> k, ctx |-> c], cp |-> c,
   seid |-> x.upSeid, rmPdrs |-> rmPdrs, rmFars |-> rmFars, fars |-> fars, pdrs |-> pdrs]

Creating(k, c, x, type, d) ==
  Message(k, c, x, type, <<>>, <<>>, <<Far(x, Other[d])>>, <<Pdr(x, d)>>)

EstRequest(c, x)    == Creating("create", c, x, "est", "dl")
ModRequest(k, c, x) == Creating(k, c, x, "mod", "ul")
DelRequest(c, x)    == Message("release", c, x, "del", <<>>, <<>>, <<>>, <<>>)

\* remove_pdrs_and_fars of the uplink and then of the downlink edge
NonZero(ids) == SelectSeq(ids, LAMBDA i : i # 0)
IdleRequest(c, x) ==
  LET e == x.edge[x.at]
  IN  Message("idle", c, x, "mod", NonZero(<<e.ul.pdr, e.dl.pdr>>),
              NonZero(<<e.ul.far, e.dl.far>>), <<>>, <<>>)

\* pfcp_create_far of the uplink edge, pfcp_create_pdr of the downlink edge
ServiceRequest(c, x) == Creating("service", c, x, "mod", "dl")

Ask == asked < MaxAsked /\ asked' = asked + 1

Begin(k, c, m) ==
  /\ [kind |-> k, ctx |-> c] \notin procs     \* bound: one of a kind at a time
  /\ Cardinality(n4) < MaxInFlight
  /\ procs' = procs \cup {[kind |-> k, ctx |-> c]}
  /\ n4' = n4 \cup {m}
  /\ UNCHANGED lost

BeginUpdate(s, k, x, m) ==
  /\ Ask
  /\ Begin(k, cur[s], m)
  /\ ctx' = [ctx EXCEPT ![cur[s]] = x]
  /\ UNCHANGED <<cur, pool>>

(***************************************************************************)
(* handle_pdu_session_create_sm_context_request.  A context that the       *)
(* session already has is taken off pdu_sessions, and that is all.  The    *)
(* address comes from the subscription or from the pool.  The AMF has its  *)
(* answer before the UPF is asked.                                         *)
(***************************************************************************)
NextContext == Len(ctx) + 1

CreateContext(s, x) ==
  /\ Ask
  /\ Len(ctx) < MaxContexts
  /\ ctx' = Append(ctx, x)
  /\ cur' = [cur EXCEPT ![s] = NextContext]
  /\ ran' = [ran EXCEPT ![s] = "none"]

Create(s) ==
  LET ip == IF Static[s] # NoAddress THEN Static[s] ELSE NextAddress(pool)
      x  == Prepared(Start(NewContext(s, ip, TRUE), Uplink(s)), "dl")
  IN  /\ Static[s] # NoAddress \/ HasAddress(pool)
      /\ CreateContext(s, x)
      /\ pool' = IF Static[s] # NoAddress THEN pool ELSE Allocated(pool)
      /\ Begin("create", NextContext, EstRequest(NextContext, x))

\* No address is left: the request is rejected, the context stays.
CreateWithoutAddress(s) ==
  /\ Static[s] = NoAddress /\ ~HasAddress(pool)
  /\ CreateContext(s, NewContext(s, NoAddress, FALSE))
  /\ UNCHANGED <<pool, procs, channel>>

\* select_up_node finds no UPF: the address goes back to the pool, and the
\* context, which never has a graph, keeps it.
CreateWithoutUpf(s) ==
  LET ip == IF Static[s] # NoAddress THEN Static[s] ELSE NextAddress(pool)
  IN  /\ Static[s] # NoAddress \/ HasAddress(pool)
      /\ CreateContext(s, NewContext(s, ip, FALSE))
      /\ pool' = Freed(IF Static[s] # NoAddress THEN pool ELSE Allocated(pool),
                       PoolSize, ip)
      /\ UNCHANGED <<procs, channel>>

(***************************************************************************)
(* Update requests of the AMF.  Without a graph they fail.                 *)
(***************************************************************************)
Current(s) == cur[s] # 0 /\ ctx[cur[s]].graph

\* PDU_RES_SETUP_RSP: the tunnel of the gNB is known.
SetupResponse(s) ==
  LET c == cur[s]
      k == IF ctx[c].cnx = "ACTIVATING" THEN "resume" ELSE "setup"
      x == Prepared(Start(ctx[c], Downlink(s)), "ul")
  IN  /\ Current(s) /\ ran[s] = "setup"
      /\ ran' = [ran EXCEPT ![s] = "up"]
      /\ BeginUpdate(s, k, x, ModRequest(k, c, x))

\* handle_an_release: the UE is idle.
AnRelease(s) ==
  LET c == cur[s]
      x == Start([ctx[c] EXCEPT !.cnx = "DEACTIVATED"], Downlink(s))
  IN  /\ Current(s) /\ ran[s] = "up"
      /\ ran' = [ran EXCEPT ![s] = "idle"]
      /\ BeginUpdate(s, "idle", ClearEdge(ClearEdge(x, x.at, "ul"), x.at, "dl"),
                     IdleRequest(c, x))

\* handle_service_request: the UE is back, first step.
Raised(x) == [x EXCEPT !.edge[x.at].ul.prec = @ + 1, !.edge[x.at].dl.prec = @ + 1]

ServiceRequested(s) ==
  LET c == cur[s]
      x == Prepared(Raised(Start([ctx[c] EXCEPT !.cnx = "ACTIVATING"], Downlink(s))), "dl")
  IN  /\ Current(s) /\ ran[s] = "idle"
      /\ ran' = [ran EXCEPT ![s] = "none"]
      /\ BeginUpdate(s, "service", x, ServiceRequest(c, x))

\* handle_pdu_session_release_sm_context_request
ReleaseEarly(s) ==
  LET c == cur[s]
      x == Start(ctx[c], Downlink(s))
  IN  /\ Current(s) /\ x.ip # NoAddress
      /\ Ask
      /\ Begin("release", c, DelRequest(c, x))
      /\ ctx' = [ctx EXCEPT ![c] = [x EXCEPT !.ip = NoAddress]]
      /\ pool' = Freed(pool, PoolSize, x.ip)
      /\ UNCHANGED <<cur, ran>>

Release(s) ==
  LET c == cur[s]
      x == Start(ctx[c], Downlink(s))
  IN  /\ Current(s)
      /\ BeginUpdate(s, "release", x, DelRequest(c, x))
      /\ UNCHANGED ran

(***************************************************************************)
(* Answers.  smf_app finds the smf_context, one for each UE, by the SEID   *)
(* in the header, and that the procedure by its transaction.               *)
(***************************************************************************)
Dispatched(m) ==
  /\ m.hdr # 0
  /\ ctx[m.hdr].slot = ctx[m.proc.ctx].slot
  /\ m.proc \in procs

Discard(m) ==
  /\ m.to = "smf"
  /\ ~Dispatched(m)
  /\ n4' = n4 \ {m}
  /\ UNCHANGED <<smfVars, lost>>

(***************************************************************************)
(* associate_fteid_with_created_pdrs, for the downlink edge of the current *)
(* UPF, and update_next_hop_fteid: the uplink edge of the UPF behind it    *)
(* leads to that tunnel.                                                   *)
(***************************************************************************)
Behind(x, u) ==
  {Path[x.slot][i] : i \in {j \in DOMAIN Path[x.slot] : j > 1 /\ Path[x.slot][j - 1] = u}}

WithTunnel(x, t) ==
  [x EXCEPT !.edge =
     [u \in UpfsOf(x.slot) |->
        [dl |-> [x.edge[u].dl EXCEPT !.teid = IF u = x.at THEN t ELSE @],
         ul |-> [x.edge[u].ul EXCEPT !.next = IF u \in Behind(x, x.at) THEN t ELSE @]]]]

Tunnelled(x, m) ==
  LET t == {y \in m.tunnels : y.pdr = x.edge[x.at].dl.pdr}
  IN  IF t = {} THEN x ELSE WithTunnel(x, (CHOOSE y \in t : TRUE).teid)

Continue(m, x, request) ==
  /\ ctx' = [ctx EXCEPT ![m.proc.ctx] = x]
  /\ n4' = (n4 \ {m}) \cup {request}
  /\ UNCHANGED <<cur, pool, procs, ran, asked, lost>>

Finish(m, x) ==
  /\ ctx' = [ctx EXCEPT ![m.proc.ctx] = x]
  /\ n4' = n4 \ {m}
  /\ procs' = procs \ {m.proc}
  /\ UNCHANGED <<cur, asked, lost>>

\* session_create_sm_context_procedure::handle_itti_msg
EstAccepted(m) ==
  LET c == m.proc.ctx
      x == Tunnelled([ctx[c] EXCEPT !.upSeid = m.seid], m)
  IN  /\ m.to = "smf" /\ m.type = "est" /\ Dispatched(m)
      /\ m.cause = "accepted"
      /\ \/ \E i \in Eligible(x) :
              LET y == Prepared(Goto(x, i), "dl")
              IN  /\ \A j \in Eligible(x) : i <= j
                  /\ Continue(m, y, EstRequest(c, y))
         \/ /\ Eligible(x) = {}
            /\ Finish(m, IF x.todo = <<>> THEN x ELSE Goto(x, Len(x.todo)))
            /\ ran' = [ran EXCEPT ![x.slot] = "setup"]
            /\ UNCHANGED pool

\* "TODO we need to abort all ongoing sessions"
EstRejected(m) ==
  /\ m.to = "smf" /\ m.type = "est" /\ Dispatched(m)
  /\ m.cause # "accepted"
  /\ Finish(m, ctx[m.proc.ctx])
  /\ UNCHANGED <<pool, ran>>

\* session_update_sm_context_procedure::handle_itti_msg and
\* send_pdu_session_update_response
ModAnswered(m) ==
  LET c == m.proc.ctx
      k == m.proc.kind
      x == ctx[c]
      y == Prepared(Advance(x), "ul")
      accepted == m.cause = "accepted"
  IN  /\ m.to = "smf" /\ m.type = "mod" /\ Dispatched(m)
      /\ \/ /\ k \in {"setup", "resume"} /\ x.todo # <<>>
            /\ Continue(m, y, ModRequest(k, c, y))
         \/ /\ k \in {"setup", "resume"} /\ x.todo = <<>>
            /\ Finish(m, IF k = "setup" /\ accepted THEN [x EXCEPT !.cnx = "ACTIVATED"]
                                                    ELSE x)
            /\ UNCHANGED <<pool, ran>>
         \/ /\ k = "idle"
            /\ Finish(m, [x EXCEPT !.cnx = "DEACTIVATED"])
            /\ UNCHANGED <<pool, ran>>
         \/ /\ k = "service"
            /\ Finish(m, IF accepted THEN [Tunnelled(x, m) EXCEPT !.cnx = "ACTIVATING"]
                                     ELSE Tunnelled(x, m))
            /\ ran' = IF accepted THEN [ran EXCEPT ![x.slot] = "setup"] ELSE ran
            /\ UNCHANGED pool

\* deallocate_ressources: the downlink edge at the gNB's side is cleared, the
\* address returned, the object cleared.
DeallocatedUncleared(x) ==
  [ClearEdge(x, Access(x.slot), "dl") EXCEPT !.upSeid = 0, !.cnx = "DEACTIVATED"]

Deallocated(x) ==
  [ClearEdge(x, Access(x.slot), "dl") EXCEPT
     !.ip = NoAddress, !.upSeid = 0, !.cnx = "DEACTIVATED"]

ReturnAddress(x) == IF x.ip = NoAddress THEN pool ELSE Freed(pool, PoolSize, x.ip)

\* session_release_sm_context_procedure::handle_itti_msg and
\* send_pdu_session_release_response; the cause is not looked at.
DelAnswered(m) ==
  LET c == m.proc.ctx
      x == ctx[c]
      y == Advance(x)
  IN  /\ m.to = "smf" /\ m.type = "del" /\ Dispatched(m)
      /\ \/ /\ x.todo # <<>>
            /\ Continue(m, y, DelRequest(c, y))
         \/ /\ x.todo = <<>>
            /\ Finish(m, Deallocated(x))
            /\ pool' = ReturnAddress(x)
            /\ UNCHANGED ran

Request(s) ==
  \/ Create(s)
  \/ CreateWithoutAddress(s)
  \/ CreateWithoutUpf(s)
  \/ SetupResponse(s)
  \/ AnRelease(s)
  \/ ServiceRequested(s)
  \/ Release(s)

Receive(m) ==
  \/ EstAccepted(m)
  \/ EstRejected(m)
  \/ ModAnswered(m)
  \/ DelAnswered(m)
  \/ Discard(m)

SmfInit ==
  /\ ctx = <<>>
  /\ cur = [s \in Sessions |-> 0]
  /\ pool = NewPool(PoolSize)
  /\ procs = {}
  /\ ran = [s \in Sessions |-> "none"]
  /\ asked = 0
================================================================================
