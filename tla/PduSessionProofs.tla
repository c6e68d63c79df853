--------------------------- MODULE PduSessionProofs ----------------------------
(***************************************************************************)
(* Theorems about PDU sessions, for any number of UEs, UPFs and messages.  *)
(*                                                                         *)
(* The maps of a switch agree because a UP SEID is never used again: every *)
(* session has one of those generated so far (SeidsCount), so that the     *)
(* next one replaces no session.                                           *)
(***************************************************************************)
EXTENDS PduSession, AddressPoolProofs, SequenceTheorems

SeidsCount ==
  /\ DOMAIN switch = Upfs /\ DOMAIN cpMap = Upfs
  /\ seids \in [Upfs -> Nat]
  /\ \A u \in Upfs : DOMAIN switch[u] \subseteq 1 .. seids[u]

\* SwitchConsistent for one UPF with sessions sw and F-SEIDs cp.
Agree(sw, cp) ==
  /\ \A x \in DOMAIN sw : sw[x].cp \in DOMAIN cp /\ cp[sw[x].cp] = x
  /\ \A c \in DOMAIN cp : cp[c] \in DOMAIN sw /\ sw[cp[c]].cp = c

SwitchInv == SeidsCount /\ SwitchConsistent

LEMMA AgreeForEach == SwitchConsistent <=> \A u \in Upfs : Agree(switch[u], cpMap[u])
  BY DEF SwitchConsistent, Agree

LEMMA PutAgrees ==
  ASSUME NEW sw, NEW cp, Agree(sw, cp), NEW x, x \notin DOMAIN sw,
         NEW c, c \notin DOMAIN cp, NEW s, s.cp = c
  PROVE  Agree(Put(sw, x, s), Put(cp, c, x))
<1>1. \A y \in DOMAIN sw \cup {x} :
        Put(sw, x, s)[y].cp \in DOMAIN Put(cp, c, x) /\ Put(cp, c, x)[Put(sw, x, s)[y].cp] = y
  BY DEF Put, Agree
<1>2. \A d \in DOMAIN cp \cup {c} :
        Put(cp, c, x)[d] \in DOMAIN Put(sw, x, s) /\ Put(sw, x, s)[Put(cp, c, x)[d]].cp = d
  BY DEF Put, Agree
<1> QED
  BY <1>1, <1>2 DEF Put, Agree

LEMMA EraseAgrees ==
  ASSUME NEW sw, NEW cp, Agree(sw, cp), NEW U \in SUBSET DOMAIN sw
  PROVE  Agree(Erase(sw, U), Erase(cp, {sw[x].cp : x \in U}))
  BY DEF Erase, Agree

\* Erasing sessions of a UPF together with their F-SEIDs keeps its maps in step.
LEMMA RemoveKeepsSwitch ==
  ASSUME SwitchInv, NEW u \in Upfs, NEW U \in SUBSET DOMAIN switch[u],
         RemoveSessions(u, U), UNCHANGED seids
  PROVE  SwitchInv'
<1>1. /\ DOMAIN switch' = Upfs /\ DOMAIN cpMap' = Upfs
      /\ \A v \in Upfs \ {u} : switch'[v] = switch[v] /\ cpMap'[v] = cpMap[v]
      /\ switch'[u] = Erase(switch[u], U)
      /\ cpMap'[u] = Erase(cpMap[u], {switch[u][x].cp : x \in U})
  BY DEF SwitchInv, SeidsCount, RemoveSessions
<1>2. SeidsCount'
  BY <1>1 DEF SwitchInv, SeidsCount, Erase
<1>3. \A v \in Upfs : Agree(switch[v], cpMap[v])
  BY AgreeForEach DEF SwitchInv
<1>4. \A v \in Upfs : Agree(switch'[v], cpMap'[v])
  BY <1>1, <1>3, EraseAgrees
<1> QED
  BY <1>2, <1>4 DEF SwitchInv, SwitchConsistent, Agree

LEMMA EstablishKeepsSwitch ==
  ASSUME SwitchInv, NEW u \in Upfs, NEW m, Establish(u, m)
  PROVE  SwitchInv'
<1> DEFINE up == seids[u] + 1
<1>1. PICK r : switch' = [switch EXCEPT ![u] =
                            Put(@, up, [cp |-> m.cp, pdrs |-> <<r>>, fars |-> m.fars])]
  BY DEF Establish, NextSeid
<1> DEFINE s == [cp |-> m.cp, pdrs |-> <<r>>, fars |-> m.fars]
<1>2. /\ cpMap' = [cpMap EXCEPT ![u] = Put(@, m.cp, up)]
      /\ seids' = [seids EXCEPT ![u] = up]
      /\ m.cp \notin DOMAIN cpMap[u]
  BY DEF Establish, NextSeid
<1>3. /\ DOMAIN switch' = Upfs /\ DOMAIN cpMap' = Upfs
      /\ \A v \in Upfs \ {u} : switch'[v] = switch[v] /\ cpMap'[v] = cpMap[v]
      /\ switch'[u] = Put(switch[u], up, s)
      /\ cpMap'[u] = Put(cpMap[u], m.cp, up)
  BY <1>1, <1>2 DEF SwitchInv, SeidsCount
<1>4. s.cp = m.cp
  OBVIOUS
<1>5. up \notin DOMAIN switch[u]
  BY DEF SwitchInv, SeidsCount
<1> HIDE DEF s
<1>6. SeidsCount'
  BY <1>2, <1>3 DEF SwitchInv, SeidsCount, Put
<1> HIDE DEF up
<1>7. \A v \in Upfs : Agree(switch[v], cpMap[v])
  BY AgreeForEach DEF SwitchInv
<1>8. Agree(Put(switch[u], up, s), Put(cpMap[u], m.cp, up))
  BY <1>2, <1>4, <1>5, <1>7, PutAgrees
<1>9. \A v \in Upfs : Agree(switch'[v], cpMap'[v])
  BY <1>3, <1>7, <1>8
<1> QED
  BY <1>6, <1>9 DEF SwitchInv, SwitchConsistent, Agree

LEMMA ModifyKeepsSwitch ==
  ASSUME SwitchInv, NEW u \in Upfs, NEW m, Modify(u, m)
  PROVE  SwitchInv'
<1>1. UNCHANGED <<cpMap, seids>> /\ m.seid \in DOMAIN switch[u]
  BY DEF Modify
<1>2. \E P, F : switch' = [switch EXCEPT ![u][m.seid] =
                             [cp |-> switch[u][m.seid].cp, pdrs |-> P, fars |-> F]]
  BY DEF Modify
<1>3. /\ DOMAIN switch' = Upfs
      /\ \A v \in Upfs : /\ DOMAIN switch'[v] = DOMAIN switch[v]
                         /\ \A x \in DOMAIN switch[v] : switch'[v][x].cp = switch[v][x].cp
  BY <1>1, <1>2 DEF SwitchInv, SeidsCount
<1>4. SeidsCount'
  BY <1>1, <1>3 DEF SwitchInv, SeidsCount
<1>5. ASSUME NEW v \in Upfs PROVE Agree(switch'[v], cpMap[v])
  <2>1. Agree(switch[v], cpMap[v])
    BY AgreeForEach DEF SwitchInv
  <2>2. /\ DOMAIN switch'[v] = DOMAIN switch[v]
        /\ \A x \in DOMAIN switch[v] : switch'[v][x].cp = switch[v][x].cp
    BY <1>3
  <2> QED
    BY <2>1, <2>2 DEF Agree
<1> QED
  BY <1>1, <1>4, <1>5 DEF SwitchInv, SwitchConsistent, Agree

LEMMA ServeKeepsSwitch ==
  ASSUME SwitchInv, NEW u \in Upfs, NEW m, Serve(u, m)
  PROVE  SwitchInv'
<1>1. CASE Establish(u, m)
  BY <1>1, EstablishKeepsSwitch
<1>2. CASE EstablishAgain(u, m)
  BY <1>2 DEF EstablishAgain, upfVars, SwitchInv, SeidsCount, SwitchConsistent
<1>3. CASE Modify(u, m)
  BY <1>3, ModifyKeepsSwitch
<1>4. CASE Delete(u, m)
  <2>1. /\ {m.seid} \in SUBSET DOMAIN switch[u]
        /\ RemoveSessions(u, {m.seid}) /\ UNCHANGED seids
    BY <1>4 DEF Delete
  <2> QED
    BY <2>1, RemoveKeepsSwitch
<1>5. CASE NotFound(u, m)
  BY <1>5 DEF NotFound, upfVars, SwitchInv, SeidsCount, SwitchConsistent
<1> QED
  BY <1>1, <1>2, <1>3, <1>4, <1>5 DEF Serve

LEMMA InitSwitch == Init => SwitchInv
  BY DEF Init, UpfInit, EmptyMap, SwitchInv, SeidsCount, SwitchConsistent

LEMMA NextSwitch == SwitchInv /\ [Next]_vars => SwitchInv'
<1> SUFFICES ASSUME SwitchInv, [Next]_vars PROVE SwitchInv'
  OBVIOUS
<1>1. CASE \E u \in Upfs, m \in n4 : Serve(u, m)
  BY <1>1, ServeKeepsSwitch
<1>2. CASE \E u \in Upfs : HeartbeatFailure(u)
  <2>1. PICK u \in Upfs : HeartbeatFailure(u)
    BY <1>2
  <2> DEFINE U == {x \in DOMAIN switch[u] : switch[u][x].cp \in smf[u].sessions}
  <2>2. U \in SUBSET DOMAIN switch[u] /\ RemoveSessions(u, U) /\ UNCHANGED seids
    BY <2>1 DEF HeartbeatFailure
  <2> HIDE DEF U
  <2> QED
    BY <2>2, RemoveKeepsSwitch
<1>3. CASE \E u \in Upfs : Associate(u)
  BY <1>3 DEF Associate, SwitchInv, SeidsCount, SwitchConsistent
<1>4. CASE UNCHANGED upfVars
  BY <1>4 DEF upfVars, SwitchInv, SeidsCount, SwitchConsistent
<1> QED
  BY <1>1, <1>2, <1>3, <1>4 DEF Next, vars

(***************************************************************************)
(* SwitchConsistent (pfcp_switch.cpp): a session is found by its F-SEID if *)
(* and only if it is found by its UP SEID, whatever the SMF sends, in any  *)
(* order, and whatever the heartbeats do.                                  *)
(***************************************************************************)
THEOREM SwitchAgrees == Spec => []SwitchConsistent
  BY InitSwitch, NextSwitch, PTL DEF Spec, SwitchInv

--------------------------------------------------------------------------------
(***************************************************************************)
(* Addresses.  The invariant adds to AddressExclusive that the bitmap is   *)
(* in order, and that a procedure works for a context that has a graph:    *)
(* the release of another one, which keeps an address it has given back,   *)
(* would free an address of somebody else.                                 *)
(***************************************************************************)
CtxOK(x) ==
  /\ {"slot", "ip", "graph"} \subseteq DOMAIN x
  /\ x.ip \in Int \cup {NoAddress}

AddressInv ==
  /\ \E S : ctx \in Seq(S)
  /\ \A c \in DOMAIN ctx : CtxOK(ctx[c])
  /\ cur \in [Sessions -> {0} \cup DOMAIN ctx]
  /\ PoolOK(pool, PoolSize)
  /\ \A p \in procs : p.ctx \in DOMAIN ctx /\ ctx[p.ctx].graph
  /\ AddressExclusive

\* What the procedures change in a context leaves its address and graph alone.
Same(x, y) == CtxOK(y) /\ y.ip = x.ip /\ y.graph = x.graph /\ y.slot = x.slot

LEMMA ContextUpdates ==
  ASSUME NEW x, CtxOK(x)
  PROVE  /\ Same(x, x)
         /\ \A v : Same(x, [x EXCEPT !.cnx = v])
         /\ \A v : Same(x, [x EXCEPT !.upSeid = v])
         /\ Same(x, Advance(x)) /\ \A i : Same(x, Goto(x, i))
         /\ \A q : Same(x, Start(x, q))
         /\ \A d : Same(x, WithFar(x, d)) /\ Same(x, WithPdr(x, d))
         /\ \A u, d : Same(x, ClearEdge(x, u, d))
         /\ Same(x, Raised(x))
         /\ \A m : Same(x, Tunnelled(x, m))
<1>1. \A t : Same(x, WithTunnel(x, t))
  BY DEF CtxOK, Same, WithTunnel
<1>2. \A m : Same(x, Tunnelled(x, m))
  BY <1>1 DEF CtxOK, Same, Tunnelled
<1> QED
  BY <1>2 DEF CtxOK, Same, Advance, Goto, Start, WithFar, WithPdr, ClearEdge, Raised

LEMMA PreparedSame ==
  ASSUME NEW x, CtxOK(x), NEW d
  PROVE  Same(x, Prepared(x, d))
<1>1. Same(x, WithFar(x, Other[d])) /\ CtxOK(WithFar(x, Other[d]))
  BY ContextUpdates DEF Same
<1>2. Same(WithFar(x, Other[d]), WithPdr(WithFar(x, Other[d]), d))
  BY <1>1, ContextUpdates
<1> QED
  BY <1>1, <1>2 DEF Prepared, Same

\* A handler that changes one context, leaves its address alone and starts
\* procedures only for it.
LEMMA UpdateKeepsAddresses ==
  ASSUME AddressInv, NEW c \in DOMAIN ctx, NEW y, Same(ctx[c], y),
         ctx' = [ctx EXCEPT ![c] = y], UNCHANGED <<cur, pool>>,
         \A p \in procs' : p \in procs \/ (p.ctx = c /\ ctx[c].graph)
  PROVE  AddressInv'
<1>1. /\ DOMAIN ctx' = DOMAIN ctx
      /\ \A d \in DOMAIN ctx : Same(ctx[d], ctx'[d])
  <2>1. \A d \in DOMAIN ctx : Same(ctx[d], ctx[d])
    BY ContextUpdates DEF AddressInv
  <2> QED
    BY <2>1
<1>2. \E S : ctx' \in Seq(S)
  <2>1. PICK S : ctx \in Seq(S)
    BY DEF AddressInv
  <2>2. ctx \in Seq(S \cup {y}) /\ c \in 1 .. Len(ctx)
    BY <2>1, SeqMonotonic, LenProperties
  <2> QED
    BY <2>2, ExceptSeq
<1>3. \A p \in procs' : p.ctx \in DOMAIN ctx' /\ ctx'[p.ctx].graph
  BY <1>1 DEF AddressInv, Same
<1>4. AddressExclusive'
  BY <1>1 DEF AddressInv, AddressExclusive, Holders, Same
<1> QED
  BY <1>1, <1>2, <1>3, <1>4 DEF AddressInv, Same

LEMMA AppendedContext ==
  ASSUME NEW x, \E S : ctx \in Seq(S), ctx' = Append(ctx, x)
  PROVE  /\ \E S : ctx' \in Seq(S)
         /\ DOMAIN ctx' = DOMAIN ctx \cup {NextContext}
         /\ NextContext \notin DOMAIN ctx
         /\ ctx'[NextContext] = x
         /\ \A c \in DOMAIN ctx : ctx'[c] = ctx[c]
<1>1. PICK S : ctx \in Seq(S)
  OBVIOUS
<1>2. ctx \in Seq(S \cup {x})
  BY <1>1, SeqMonotonic
<1>3. ctx' \in Seq(S \cup {x}) /\ Len(ctx) \in Nat /\ Len(ctx') = Len(ctx) + 1
  BY <1>2, AppendProperties, LenProperties
<1>4. DOMAIN ctx = 1 .. Len(ctx) /\ DOMAIN ctx' = 1 .. Len(ctx) + 1
  BY <1>2, <1>3, LenProperties
<1>5. ctx'[Len(ctx) + 1] = x /\ \A c \in 1 .. Len(ctx) : ctx'[c] = ctx[c]
  BY <1>2, AppendProperties
<1> QED
  BY <1>3, <1>4, <1>5 DEF NextContext

\* The context is new.  If it has a graph, its address is taken and is nobody
\* else's; the others' addresses stay taken.
LEMMA CreateKeepsAddresses ==
  ASSUME AddressInv, NEW s \in Sessions, NEW x, CtxOK(x),
         ctx' = Append(ctx, x), cur' = [cur EXCEPT ![s] = NextContext],
         PoolOK(pool', PoolSize),
         \A c \in Holders : ~IsFree(pool', ctx[c].ip),
         x.graph /\ x.ip \in Unsubscribed =>
           ~IsFree(pool', x.ip) /\ \A c \in Holders : ctx[c].ip # x.ip,
         \A p \in procs' : p \in procs \/ (p.ctx = NextContext /\ x.graph)
  PROVE  AddressInv'
<1>1. /\ \E S : ctx' \in Seq(S)
      /\ DOMAIN ctx' = DOMAIN ctx \cup {NextContext}
      /\ NextContext \notin DOMAIN ctx
      /\ ctx'[NextContext] = x
      /\ \A c \in DOMAIN ctx : ctx'[c] = ctx[c]
  BY AppendedContext DEF AddressInv
<1>2. \A c \in DOMAIN ctx' : CtxOK(ctx'[c])
  BY <1>1 DEF AddressInv
<1>3. cur' \in [Sessions -> {0} \cup DOMAIN ctx']
  BY <1>1 DEF AddressInv
<1>4. \A p \in procs' : p.ctx \in DOMAIN ctx' /\ ctx'[p.ctx].graph
  BY <1>1 DEF AddressInv
<1>5. AddressExclusive'
  <2>1. Holders' \subseteq Holders \cup {NextContext}
    BY <1>1 DEF Holders
  <2> QED
    BY <1>1, <2>1 DEF AddressInv, AddressExclusive, Holders
<1> QED
  BY <1>1, <1>2, <1>3, <1>4, <1>5 DEF AddressInv, CtxOK

LEMMA NewContextOK ==
  ASSUME NEW s \in Sessions, NEW ip \in Int \cup {NoAddress}, NEW g \in BOOLEAN
  PROVE  /\ CtxOK(NewContext(s, ip, g))
         /\ NewContext(s, ip, g).ip = ip /\ NewContext(s, ip, g).graph = g
  BY DEF NewContext, CtxOK

\* What holds of every address a new context can get.
LEMMA AddressOfCreate ==
  ASSUME AddressInv, NEW s \in Sessions, NEW ip,
         Static[s] # NoAddress \/ HasAddress(pool),
         ip = IF Static[s] # NoAddress THEN Static[s] ELSE NextAddress(pool)
  PROVE  /\ ip \in Int
         /\ Static[s] # NoAddress => ip \notin Unsubscribed
         /\ Static[s] = NoAddress =>
              /\ IsFree(pool, ip)
              /\ PoolOK(Allocated(pool), PoolSize)
              /\ \A a \in 0 .. PoolSize - 1 :
                   IsFree(Allocated(pool), a) <=> IsFree(pool, a) /\ a # ip
<1>1. CASE Static[s] # NoAddress
  BY <1>1, AddressAssumption DEF Unsubscribed
<1>2. CASE Static[s] = NoAddress
  <2>1. PoolSize \in Nat /\ PoolOK(pool, PoolSize) /\ HasAddress(pool)
    BY <1>2, AddressAssumption DEF AddressInv
  <2>2. ip = NextAddress(pool)
    BY <1>2
  <2>3. /\ ip \in Int /\ IsFree(pool, ip)
        /\ PoolOK(Allocated(pool), PoolSize)
        /\ \A a \in 0 .. PoolSize - 1 :
             IsFree(Allocated(pool), a) <=> IsFree(pool, a) /\ a # ip
    BY <2>1, <2>2, AllocatesLowest
  <2> QED
    BY <1>2, <2>3
<1> QED
  BY <1>1, <1>2

LEMMA CreateAddresses ==
  ASSUME AddressInv, NEW s \in Sessions, Create(s)
  PROVE  AddressInv'
<1> DEFINE ip == IF Static[s] # NoAddress THEN Static[s] ELSE NextAddress(pool)
           n  == NewContext(s, ip, TRUE)
           x  == Prepared(Start(n, Uplink(s)), "dl")
<1>1. /\ Static[s] # NoAddress \/ HasAddress(pool)
      /\ ctx' = Append(ctx, x) /\ cur' = [cur EXCEPT ![s] = NextContext]
      /\ pool' = (IF Static[s] # NoAddress THEN pool ELSE Allocated(pool))
      /\ procs' = procs \cup {[kind |-> "create", ctx |-> NextContext]}
  BY DEF Create, CreateContext, Begin
<1> HIDE DEF ip
<1>2. /\ ip \in Int
      /\ Static[s] # NoAddress => ip \notin Unsubscribed
      /\ Static[s] = NoAddress =>
           /\ IsFree(pool, ip)
           /\ PoolOK(Allocated(pool), PoolSize)
           /\ \A a \in 0 .. PoolSize - 1 :
                IsFree(Allocated(pool), a) <=> IsFree(pool, a) /\ a # ip
  BY <1>1, AddressOfCreate DEF ip
<1>3. CtxOK(x) /\ x.ip = ip /\ x.graph = TRUE
  <2>1. CtxOK(n) /\ n.ip = ip /\ n.graph = TRUE
    BY <1>2, NewContextOK
  <2> HIDE DEF n
  <2>2. Same(n, Start(n, Uplink(s)))
    BY <2>1, ContextUpdates
  <2>3. Same(Start(n, Uplink(s)), x)
    BY <2>2, PreparedSame DEF Same
  <2> QED
    BY <2>1, <2>2, <2>3 DEF Same
<1> HIDE DEF x
<1>4. PoolOK(pool', PoolSize)
  BY <1>1, <1>2 DEF AddressInv
<1>5. \A c \in Holders : ~IsFree(pool', ctx[c].ip)
  BY <1>1, <1>2 DEF AddressInv, AddressExclusive, Holders, Unsubscribed
<1>6. x.ip \in Unsubscribed =>
        ~IsFree(pool', x.ip) /\ \A c \in Holders : ctx[c].ip # x.ip
  BY <1>1, <1>2, <1>3 DEF AddressInv, AddressExclusive, Unsubscribed
<1>7. \A p \in procs' : p \in procs \/ (p.ctx = NextContext /\ x.graph)
  BY <1>1, <1>3
<1> QED
  BY <1>1, <1>3, <1>4, <1>5, <1>6, <1>7, CreateKeepsAddresses

LEMMA CreateWithoutAddresses ==
  ASSUME AddressInv, NEW s \in Sessions, CreateWithoutAddress(s)
  PROVE  AddressInv'
<1> DEFINE x == NewContext(s, NoAddress, FALSE)
<1>1. /\ ctx' = Append(ctx, x) /\ cur' = [cur EXCEPT ![s] = NextContext]
      /\ UNCHANGED <<pool, procs>>
  BY DEF CreateWithoutAddress, CreateContext
<1>2. CtxOK(x) /\ x.graph = FALSE
  BY NewContextOK
<1> HIDE DEF x
<1>3. PoolOK(pool', PoolSize) /\ \A c \in Holders : ~IsFree(pool', ctx[c].ip)
  BY <1>1 DEF AddressInv, AddressExclusive
<1> QED
  BY <1>1, <1>2, <1>3, CreateKeepsAddresses

LEMMA CreateWithoutUpfAddresses ==
  ASSUME AddressInv, NEW s \in Sessions, CreateWithoutUpf(s)
  PROVE  AddressInv'
<1> DEFINE ip == IF Static[s] # NoAddress THEN Static[s] ELSE NextAddress(pool)
           x  == NewContext(s, ip, FALSE)
           q  == IF Static[s] # NoAddress THEN pool ELSE Allocated(pool)
<1>1. /\ Static[s] # NoAddress \/ HasAddress(pool)
      /\ ctx' = Append(ctx, x) /\ cur' = [cur EXCEPT ![s] = NextContext]
      /\ pool' = Freed(q, PoolSize, ip)
      /\ procs' = procs
  BY DEF CreateWithoutUpf, CreateContext
<1> HIDE DEF ip
<1>2. /\ ip \in Int
      /\ Static[s] # NoAddress => ip \notin Unsubscribed
      /\ Static[s] = NoAddress =>
           /\ IsFree(pool, ip)
           /\ PoolOK(Allocated(pool), PoolSize)
           /\ \A a \in 0 .. PoolSize - 1 :
                IsFree(Allocated(pool), a) <=> IsFree(pool, a) /\ a # ip
  BY <1>1, AddressOfCreate DEF ip
<1>3. CtxOK(x) /\ x.graph = FALSE
  BY <1>2, NewContextOK
<1> HIDE DEF x
<1>4. PoolOK(q, PoolSize) /\ PoolSize \in Nat
  BY <1>2, AddressAssumption DEF AddressInv
<1>5. \A a \in Unsubscribed : IsFree(q, a) \/ a = ip => IsFree(pool, a)
  BY <1>2, <1>4 DEF Unsubscribed
<1> HIDE DEF q
<1>6. /\ PoolOK(pool', PoolSize)
      /\ \A a \in 0 .. PoolSize - 1 : IsFree(pool', a) <=> IsFree(q, a) \/ a = ip
  BY <1>1, <1>2, <1>4, FreesOne
<1>7. \A c \in Holders : ~IsFree(pool', ctx[c].ip)
  BY <1>5, <1>6 DEF AddressInv, AddressExclusive, Holders, Unsubscribed
<1> QED
  BY <1>1, <1>3, <1>6, <1>7, CreateKeepsAddresses

\* Requests of the AMF for a context that is there.
LEMMA BeginAddresses ==
  ASSUME AddressInv, NEW s \in Sessions, Current(s), NEW k, NEW m, NEW x,
         Same(ctx[cur[s]], x), BeginUpdate(s, k, x, m)
  PROVE  AddressInv'
<1>1. cur[s] \in DOMAIN ctx /\ ctx[cur[s]].graph
  BY DEF AddressInv, Current
<1>2. /\ ctx' = [ctx EXCEPT ![cur[s]] = x] /\ UNCHANGED <<cur, pool>>
      /\ procs' = procs \cup {[kind |-> k, ctx |-> cur[s]]}
  BY DEF BeginUpdate, Begin
<1>3. \A p \in procs' : p \in procs \/ (p.ctx = cur[s] /\ ctx[cur[s]].graph)
  BY <1>1, <1>2
<1> QED
  BY <1>1, <1>2, <1>3, UpdateKeepsAddresses

LEMMA UpdateRequests ==
  ASSUME AddressInv, NEW s \in Sessions,
         SetupResponse(s) \/ AnRelease(s) \/ ServiceRequested(s) \/ Release(s)
  PROVE  AddressInv'
<1> DEFINE x0 == ctx[cur[s]]
<1>1. Current(s)
  BY DEF SetupResponse, AnRelease, ServiceRequested, Release
<1>2. CtxOK(x0)
  BY <1>1 DEF AddressInv, Current
<1>3. CASE SetupResponse(s)
  <2> DEFINE x == Prepared(Start(x0, Downlink(s)), "ul")
  <2>1. Same(x0, x)
    <3>1. Same(x0, Start(x0, Downlink(s)))
      BY <1>2, ContextUpdates
    <3>2. Same(Start(x0, Downlink(s)), x)
      BY <3>1, PreparedSame DEF Same
    <3> QED
      BY <3>1, <3>2 DEF Same
  <2>2. \E k, m : BeginUpdate(s, k, x, m)
    BY <1>3 DEF SetupResponse
  <2> HIDE DEF x
  <2> QED
    BY <1>1, <2>1, <2>2, BeginAddresses
<1>4. CASE AnRelease(s)
  <2> DEFINE y == Start([x0 EXCEPT !.cnx = "DEACTIVATED"], Downlink(s))
             z == ClearEdge(y, y.at, "ul")
             x == ClearEdge(z, y.at, "dl")
  <2>1. \E k, m : BeginUpdate(s, k, x, m)
    BY <1>4 DEF AnRelease
  <2>2. Same(x0, y)
    <3>1. Same(x0, [x0 EXCEPT !.cnx = "DEACTIVATED"])
      BY <1>2, ContextUpdates
    <3>2. Same([x0 EXCEPT !.cnx = "DEACTIVATED"], y)
      BY <3>1, ContextUpdates DEF Same
    <3> QED
      BY <3>1, <3>2 DEF Same
  <2> HIDE DEF y
  <2>3. Same(y, z)
    <3>1. CtxOK(y)
      BY <2>2 DEF Same
    <3> QED
      BY <3>1, ContextUpdates
  <2> HIDE DEF z
  <2>4. Same(z, x)
    <3>1. CtxOK(z)
      BY <2>3 DEF Same
    <3> QED
      BY <3>1, ContextUpdates
  <2>5. Same(x0, x)
    BY <2>2, <2>3, <2>4 DEF Same
  <2> HIDE DEF x
  <2> QED
    BY <1>1, <2>1, <2>5, BeginAddresses
<1>5. CASE ServiceRequested(s)
  <2> DEFINE y == Start([x0 EXCEPT !.cnx = "ACTIVATING"], Downlink(s))
             x == Prepared(Raised(y), "dl")
  <2>1. \E k, m : BeginUpdate(s, k, x, m)
    BY <1>5 DEF ServiceRequested
  <2>2. Same(x0, y)
    <3>1. Same(x0, [x0 EXCEPT !.cnx = "ACTIVATING"])
      BY <1>2, ContextUpdates
    <3>2. Same([x0 EXCEPT !.cnx = "ACTIVATING"], y)
      BY <3>1, ContextUpdates DEF Same
    <3> QED
      BY <3>1, <3>2 DEF Same
  <2> HIDE DEF y
  <2>3. Same(y, Raised(y))
    BY <2>2, ContextUpdates DEF Same
  <2>4. Same(Raised(y), x)
    BY <2>3, PreparedSame DEF Same
  <2>5. Same(x0, x)
    BY <2>2, <2>3, <2>4 DEF Same
  <2> HIDE DEF x
  <2> QED
    BY <1>1, <2>1, <2>5, BeginAddresses
<1>6. CASE Release(s)
  <2> DEFINE x == Start(x0, Downlink(s))
  <2>1. \E k, m : BeginUpdate(s, k, x, m)
    BY <1>6 DEF Release
  <2>2. Same(x0, x)
    BY <1>2, ContextUpdates
  <2> HIDE DEF x
  <2> QED
    BY <1>1, <2>1, <2>2, BeginAddresses
<1> QED
  BY <1>3, <1>4, <1>5, <1>6

\* Answers that go on with a procedure, or end one without a deallocation.
LEMMA AnswerAddresses ==
  ASSUME AddressInv, NEW m, Dispatched(m), NEW x, Same(ctx[m.proc.ctx], x),
         \/ \E r : Continue(m, x, r)
         \/ Finish(m, x) /\ UNCHANGED pool
  PROVE  AddressInv'
<1>1. m.proc \in procs /\ m.proc.ctx \in DOMAIN ctx
  BY DEF Dispatched, AddressInv
<1>2. /\ ctx' = [ctx EXCEPT ![m.proc.ctx] = x] /\ UNCHANGED <<cur, pool>>
      /\ procs' \subseteq procs
  BY DEF Continue, Finish
<1> QED
  BY <1>1, <1>2, UpdateKeepsAddresses

LEMMA EstAnswers ==
  ASSUME AddressInv, NEW m, EstAccepted(m) \/ EstRejected(m)
  PROVE  AddressInv'
<1> DEFINE x0 == ctx[m.proc.ctx]
<1>1. Dispatched(m) /\ CtxOK(x0)
  BY DEF EstAccepted, EstRejected, Dispatched, AddressInv
<1>2. CASE EstAccepted(m)
  <2> DEFINE w == [x0 EXCEPT !.upSeid = m.seid]
             x == Tunnelled(w, m)
  <2>1. Same(x0, x)
    <3>1. Same(x0, w)
      BY <1>1, ContextUpdates
    <3> HIDE DEF w
    <3>2. Same(w, x)
      BY <3>1, ContextUpdates DEF Same
    <3> QED
      BY <3>1, <3>2 DEF Same
  <2>2. \/ \E i, r : Continue(m, Prepared(Goto(x, i), "dl"), r)
        \/ /\ Finish(m, IF x.todo = <<>> THEN x ELSE Goto(x, Len(x.todo)))
           /\ UNCHANGED pool
    BY <1>2 DEF EstAccepted
  <2> HIDE DEF x
  <2>3. \A i : Same(x0, Goto(x, i))
    <3>1. CtxOK(x)
      BY <2>1 DEF Same
    <3>2. \A i : Same(x, Goto(x, i))
      BY <3>1, ContextUpdates
    <3> QED
      BY <2>1, <3>2 DEF Same
  <2>4. \A i : Same(x0, Prepared(Goto(x, i), "dl"))
    BY <2>3, PreparedSame DEF Same
  <2> QED
    BY <1>1, <2>1, <2>2, <2>3, <2>4, AnswerAddresses
<1>3. CASE EstRejected(m)
  <2>1. Finish(m, x0) /\ UNCHANGED pool
    BY <1>3 DEF EstRejected
  <2>2. Same(x0, x0)
    BY <1>1, ContextUpdates
  <2> QED
    BY <1>1, <2>1, <2>2, AnswerAddresses
<1> QED
  BY <1>2, <1>3

LEMMA ModAnswers ==
  ASSUME AddressInv, NEW m, ModAnswered(m)
  PROVE  AddressInv'
<1> DEFINE x0 == ctx[m.proc.ctx]
           y  == Prepared(Advance(x0), "ul")
           t  == Tunnelled(x0, m)
<1>1. Dispatched(m) /\ CtxOK(x0)
  BY DEF ModAnswered, Dispatched, AddressInv
<1>2. \/ \E r : Continue(m, y, r)
      \/ /\ UNCHANGED pool
         /\ \/ Finish(m, x0) \/ \E v : Finish(m, [x0 EXCEPT !.cnx = v])
            \/ Finish(m, t) \/ \E v : Finish(m, [t EXCEPT !.cnx = v])
  BY DEF ModAnswered
<1>3. Same(x0, x0) /\ \A v : Same(x0, [x0 EXCEPT !.cnx = v])
  BY <1>1, ContextUpdates
<1>4. Same(x0, y)
  <2>1. Same(x0, Advance(x0))
    BY <1>1, ContextUpdates
  <2>2. Same(Advance(x0), y)
    BY <2>1, PreparedSame DEF Same
  <2> QED
    BY <2>1, <2>2 DEF Same
<1>5. Same(x0, t) /\ \A v : Same(x0, [t EXCEPT !.cnx = v])
  <2>1. Same(x0, t)
    BY <1>1, ContextUpdates
  <2> HIDE DEF t
  <2>2. \A v : Same(t, [t EXCEPT !.cnx = v])
    BY <2>1, ContextUpdates DEF Same
  <2> QED
    BY <2>1, <2>2 DEF Same
<1> HIDE DEF y, t
<1> QED
  BY <1>1, <1>2, <1>3, <1>4, <1>5, AnswerAddresses

\* deallocate_ressources returns the address of a context that has a graph, and
\* the context no longer holds it.
LEMMA DelAnswers ==
  ASSUME AddressInv, NEW m, DelAnswered(m)
  PROVE  AddressInv'
<1> DEFINE c  == m.proc.ctx
           x0 == ctx[c]
           y  == Advance(x0)
           z  == Deallocated(x0)
<1>1. Dispatched(m) /\ m.proc \in procs /\ c \in DOMAIN ctx /\ x0.graph /\ CtxOK(x0)
  BY DEF DelAnswered, Dispatched, AddressInv
<1>2. CASE \E r : Continue(m, y, r)
  <2>1. Same(x0, y)
    BY <1>1, ContextUpdates
  <2> QED
    BY <1>1, <1>2, <2>1, AnswerAddresses
<1>3. CASE Finish(m, z) /\ pool' = ReturnAddress(x0)
  <2>1. /\ ctx' = [ctx EXCEPT ![c] = z] /\ cur' = cur /\ procs' = procs \ {m.proc}
    BY <1>3 DEF Finish
  <2>2. CtxOK(z) /\ z.ip = NoAddress /\ z.graph = x0.graph
    <3>1. CtxOK(ClearEdge(x0, Access(x0.slot), "dl")) /\
          ClearEdge(x0, Access(x0.slot), "dl").graph = x0.graph
      BY <1>1, ContextUpdates DEF Same
    <3> QED
      BY <3>1 DEF Deallocated, CtxOK
  <2> HIDE DEF z
  <2>3. /\ DOMAIN ctx' = DOMAIN ctx /\ ctx'[c] = z
        /\ \A d \in DOMAIN ctx \ {c} : ctx'[d] = ctx[d]
    BY <1>1, <2>1
  <2>4. \E S : ctx' \in Seq(S)
    <3>1. PICK S : ctx \in Seq(S)
      BY DEF AddressInv
    <3>2. ctx \in Seq(S \cup {z}) /\ c \in 1 .. Len(ctx)
      BY <1>1, <3>1, SeqMonotonic, LenProperties
    <3> QED
      BY <2>1, <3>2, ExceptSeq
  <2>5. PoolSize \in Nat /\ NoAddress \notin Int /\ PoolOK(pool, PoolSize)
    BY AddressAssumption DEF AddressInv
  <2>6. /\ PoolOK(pool', PoolSize)
        /\ \A a \in 0 .. PoolSize - 1 : IsFree(pool', a) => IsFree(pool, a) \/ a = x0.ip
    <3>1. CASE x0.ip = NoAddress
      BY <1>3, <2>5, <3>1 DEF ReturnAddress
    <3>2. CASE x0.ip # NoAddress
      <4>1. x0.ip \in Int /\ pool' = Freed(pool, PoolSize, x0.ip)
        BY <1>1, <1>3, <3>2 DEF ReturnAddress, CtxOK
      <4> QED
        BY <2>5, <4>1, FreesOne
    <3> QED
      BY <3>1, <3>2
  <2>7. Holders' = Holders \ {c}
    BY <2>2, <2>3, <2>5 DEF Holders, Unsubscribed
  <2>8. AddressExclusive'
    <3>1. ASSUME NEW d \in Holders \ {c}
          PROVE  ctx'[d].ip = ctx[d].ip /\ ~IsFree(pool', ctx[d].ip)
      <4>1. ctx[d].ip \in Unsubscribed /\ ~IsFree(pool, ctx[d].ip) /\ ctx'[d] = ctx[d]
        BY <2>3 DEF AddressInv, AddressExclusive, Holders
      <4>2. ctx[d].ip # x0.ip
        <5>1. CASE c \in Holders
          BY <5>1 DEF AddressInv, AddressExclusive
        <5>2. CASE c \notin Holders
          BY <1>1, <4>1, <5>2 DEF Holders
        <5> QED
          BY <5>1, <5>2
      <4> QED
        BY <2>6, <4>1, <4>2 DEF Unsubscribed
    <3>2. \A d, e \in Holders \ {c} : d # e => ctx[d].ip # ctx[e].ip
      BY DEF AddressInv, AddressExclusive
    <3> QED
      BY <2>7, <3>1, <3>2 DEF AddressExclusive
  <2>9. \A p \in procs' : p.ctx \in DOMAIN ctx' /\ ctx'[p.ctx].graph
    BY <1>1, <2>1, <2>2, <2>3 DEF AddressInv
  <2> QED
    BY <2>1, <2>2, <2>3, <2>4, <2>6, <2>8, <2>9 DEF AddressInv
<1> QED
  BY <1>2, <1>3 DEF DelAnswered

LEMMA InitAddresses == Init => AddressInv
<1> SUFFICES ASSUME Init PROVE AddressInv
  OBVIOUS
<1>1. ctx = <<>> /\ cur = [s \in Sessions |-> 0] /\ procs = {} /\ pool = NewPool(PoolSize)
  BY DEF Init, SmfInit
<1>2. (\E S : ctx \in Seq(S)) /\ DOMAIN ctx = {}
  BY <1>1, EmptySeq
<1>3. PoolOK(pool, PoolSize)
  BY <1>1, AddressAssumption, NewPoolOK
<1> QED
  BY <1>1, <1>2, <1>3 DEF AddressInv, AddressExclusive, Holders

LEMMA NextAddresses == AddressInv /\ [Next]_vars => AddressInv'
<1> SUFFICES ASSUME AddressInv, [Next]_vars PROVE AddressInv'
  OBVIOUS
<1>1. CASE \E s \in Sessions : Request(s)
  BY <1>1, CreateAddresses, CreateWithoutAddresses, CreateWithoutUpfAddresses,
     UpdateRequests DEF Request
<1>2. CASE \E m \in n4 : EstAccepted(m) \/ EstRejected(m) \/ ModAnswered(m) \/ DelAnswered(m)
  BY <1>2, EstAnswers, ModAnswers, DelAnswers
<1>3. CASE UNCHANGED smfVars
  BY <1>3 DEF smfVars, AddressInv, AddressExclusive, Holders
<1> QED
  BY <1>1, <1>2, <1>3 DEF Next, vars, Receive, Discard

(***************************************************************************)
(* AddressExclusive (smf_paa_dynamic.hpp, deallocate_ressources): for a    *)
(* pool of any size, any UEs, subscriptions, UPFs and paths, and any order *)
(* of requests, answers and losses, an address of the pool that nobody is  *)
(* subscribed to is never with two UEs, and one that is held is not free.  *)
(***************************************************************************)
THEOREM AddressesAreExclusive == Spec => []AddressExclusive
  BY InitAddresses, NextAddresses, PTL DEF Spec, AddressInv

--------------------------------------------------------------------------------
(***************************************************************************)
(* Types.  A context has two edges for each UPF of its path.               *)
(***************************************************************************)
Edges   == [pdr : Nat, far : Nat, teid : Nat, next : Nat, prec : Nat]
Sides   == [dl : Edges, ul : Edges]
Objects ==
  {x \in [slot : Sessions, ip : Addresses, graph : BOOLEAN, upSeid : Nat,
          todo : Seq(Upfs), at : Upfs, cnx : {"ACTIVATED", "ACTIVATING", "DEACTIVATED"},
          pdrIds : Nat, farIds : Nat, edge : UNION {[UpfsOf(s) -> Sides] : s \in Sessions}] :
     /\ x.edge \in [UpfsOf(x.slot) -> Sides]
     /\ x.todo \in Seq(UpfsOf(x.slot)) /\ x.at \in UpfsOf(x.slot)}

\* Rule identifiers of downlink edges are of one edge only.
IdsOK(x) ==
  \A u, v \in UpfsOf(x.slot) :
    /\ x.edge[u].dl.pdr <= x.pdrIds
    /\ x.edge[u].dl.pdr = x.edge[v].dl.pdr /\ x.edge[u].dl.pdr # 0 => u = v

\* The next hop of an uplink edge is a tunnel of the UPF before.
HopsOK(x) ==
  \A i \in DOMAIN Path[x.slot] :
    i > 1 /\ x.edge[Path[x.slot][i]].ul.next # 0 => x.edge[Path[x.slot][i - 1]].dl.teid # 0

\* A tunnel is one its UPF has given out; t is the number of those of each UPF.
TeidsOK(x, t) == \A u \in UpfsOf(x.slot) : x.edge[u].dl.teid <= t[u]

Object(x, t) == x \in Objects /\ IdsOK(x) /\ HopsOK(x) /\ TeidsOK(x, t)

\* What every handler does to a context: identifiers are new, and the tunnels of
\* the UPFs before the access are kept.
Evolves(x, y) ==
  /\ y.slot = x.slot /\ x.pdrIds <= y.pdrIds
  /\ \A u \in UpfsOf(x.slot) :
       /\ y.edge[u].dl.pdr \in {0, x.edge[u].dl.pdr} \/ y.edge[u].dl.pdr > x.pdrIds
       /\ u # Access(x.slot) /\ x.edge[u].dl.teid # 0 => y.edge[u].dl.teid # 0

Step(x, y, t) == Object(y, t) /\ Evolves(x, y)

LEMMA PathFacts ==
  ASSUME NEW s \in Sessions
  PROVE  /\ Len(Path[s]) \in Nat \ {0} /\ DOMAIN Path[s] = 1 .. Len(Path[s])
         /\ Head(Path[s]) = Path[s][1]
         /\ \A i \in DOMAIN Path[s] : Path[s][i] \in Upfs
         /\ \A i, j \in DOMAIN Path[s] : Path[s][i] = Path[s][j] => i = j
         /\ UpfsOf(s) \subseteq Upfs /\ Access(s) \in UpfsOf(s)
         /\ Head(Path[s]) \in UpfsOf(s)
<1>1. /\ Path[s] \in Seq(Upfs) /\ Path[s] # <<>>
      /\ \A i, j \in DOMAIN Path[s] : Path[s][i] = Path[s][j] => i = j
  BY PathAssumption
<1>2. /\ Len(Path[s]) \in Nat \ {0} /\ DOMAIN Path[s] = 1 .. Len(Path[s])
      /\ Head(Path[s]) = Path[s][1]
      /\ \A i \in DOMAIN Path[s] : Path[s][i] \in Upfs
  BY <1>1, LenProperties, ElementOfSeq, EmptySeq, HeadTailProperties
<1> QED
  BY <1>1, <1>2 DEF UpfsOf, Access

LEMMA PathSequences ==
  ASSUME NEW s \in Sessions
  PROVE  /\ Uplink(s) \in Seq(UpfsOf(s)) /\ Uplink(s) # <<>> /\ Head(Uplink(s)) = Head(Path[s])
         /\ Downlink(s) \in Seq(UpfsOf(s)) /\ Downlink(s) # <<>> /\ Head(Downlink(s)) = Access(s)
<1>1. /\ Len(Path[s]) \in Nat \ {0} /\ DOMAIN Path[s] = 1 .. Len(Path[s])
  BY PathFacts
<1>2. Path[s] \in Seq(Upfs) /\ Path[s] # <<>>
  BY PathAssumption
<1>3. Uplink(s) \in Seq(UpfsOf(s))
  <2>1. \A i \in 1 .. Len(Path[s]) : Path[s][i] \in UpfsOf(s)
    BY <1>1 DEF UpfsOf
  <2>2. Path[s] = [i \in 1 .. Len(Path[s]) |-> Path[s][i]]
    BY <1>2
  <2> QED
    BY <1>1, <2>1, <2>2, IsASeq DEF Uplink
<1>4. Downlink(s) \in Seq(UpfsOf(s)) /\ Len(Downlink(s)) = Len(Path[s])
  <2>1. \A i \in 1 .. Len(Path[s]) : Path[s][Len(Path[s]) + 1 - i] \in UpfsOf(s)
    BY <1>1 DEF UpfsOf
  <2> QED
    BY <1>1, <2>1, IsASeq DEF Downlink
<1>5. Downlink(s) # <<>> /\ Head(Downlink(s)) = Downlink(s)[1]
  BY <1>1, <1>4
<1>6. Downlink(s)[1] = Access(s)
  BY <1>1 DEF Downlink, Access
<1> QED
  BY <1>2, <1>3, <1>4, <1>5, <1>6 DEF Uplink

LEMMA Fields ==
  ASSUME NEW x \in Objects
  PROVE  /\ x.slot \in Sessions /\ x.at \in UpfsOf(x.slot) /\ x.at \in Upfs
         /\ x.pdrIds \in Nat /\ x.farIds \in Nat
         /\ x.edge \in [UpfsOf(x.slot) -> Sides]
         /\ \A u \in UpfsOf(x.slot) :
              /\ x.edge[u].dl \in Edges /\ x.edge[u].ul \in Edges
              /\ x.edge[u].dl.pdr \in Nat /\ x.edge[u].dl.teid \in Nat
              /\ x.edge[u].ul.pdr \in Nat /\ x.edge[u].ul.next \in Nat
<1>1. x.slot \in Sessions /\ x.at \in UpfsOf(x.slot) /\ x.at \in Upfs
      /\ x.pdrIds \in Nat /\ x.farIds \in Nat /\ x.edge \in [UpfsOf(x.slot) -> Sides]
  BY DEF Objects
<1>2. \A u \in UpfsOf(x.slot) : x.edge[u].dl \in Edges /\ x.edge[u].ul \in Edges
  BY <1>1 DEF Sides
<1> QED
  BY <1>1, <1>2 DEF Edges

LEMMA EvolvesTransitive ==
  ASSUME NEW x \in Objects, NEW y \in Objects, NEW z \in Objects, Evolves(x, y), Evolves(y, z)
  PROVE  Evolves(x, z)
<1>1. x.pdrIds \in Nat /\ y.pdrIds \in Nat /\ z.pdrIds \in Nat
  BY Fields
<1>2. /\ z.slot = x.slot /\ y.slot = x.slot /\ x.pdrIds <= z.pdrIds
  BY <1>1 DEF Evolves
<1>3. ASSUME NEW u \in UpfsOf(x.slot)
      PROVE  /\ z.edge[u].dl.pdr \in {0, x.edge[u].dl.pdr} \/ z.edge[u].dl.pdr > x.pdrIds
             /\ u # Access(x.slot) /\ x.edge[u].dl.teid # 0 => z.edge[u].dl.teid # 0
  <2>1. z.edge[u].dl.pdr \in Nat
    BY <1>2, Fields
  <2> QED
    BY <1>1, <1>2, <2>1 DEF Evolves
<1> QED
  BY <1>2, <1>3 DEF Evolves

LEMMA StepTransitive ==
  ASSUME NEW x, NEW y, NEW z, NEW t, Object(x, t), Step(x, y, t), Step(y, z, t)
  PROVE  Step(x, z, t)
  BY EvolvesTransitive DEF Step, Object

LEMMA Stays ==
  ASSUME NEW x, NEW t, Object(x, t)
  PROVE  Step(x, x, t)
  BY Fields DEF Step, Object, Evolves

\* Handlers that leave the edges alone.
LEMMA SameEdges ==
  ASSUME NEW x, NEW y \in Objects, NEW t, Object(x, t),
         y.slot = x.slot, y.edge = x.edge, y.pdrIds = x.pdrIds
  PROVE  Step(x, y, t)
<1>1. IdsOK(y) /\ HopsOK(y) /\ TeidsOK(y, t)
  BY DEF Object, IdsOK, HopsOK, TeidsOK
<1>2. Evolves(x, y)
  BY Fields DEF Object, Evolves
<1> QED
  BY <1>1, <1>2 DEF Step, Object

LEMMA PositionSteps ==
  ASSUME NEW x, NEW t, Object(x, t)
  PROVE  /\ \A i \in DOMAIN x.todo : Step(x, Goto(x, i), t) /\ Goto(x, i).at = x.todo[i]
         /\ x.todo # <<>> => Step(x, Advance(x), t) /\ Advance(x).at = Head(x.todo)
         /\ \A q \in Seq(UpfsOf(x.slot)) :
              q # <<>> => Step(x, Start(x, q), t) /\ Start(x, q).at = Head(q)
<1>1. x.slot \in Sessions /\ x \in Objects
  BY Fields DEF Object
<1>2. UpfsOf(x.slot) \subseteq Upfs
  BY <1>1, PathFacts
<1>3. ASSUME NEW a \in UpfsOf(x.slot), NEW r \in Seq(UpfsOf(x.slot))
      PROVE  /\ Step(x, [x EXCEPT !.at = a, !.todo = r], t)
             /\ [x EXCEPT !.at = a, !.todo = r].at = a
  <2> DEFINE y == [x EXCEPT !.at = a, !.todo = r]
  <2>1. r \in Seq(Upfs)
    BY <1>2, SeqMonotonic
  <2>2. y \in Objects /\ y.slot = x.slot /\ y.edge = x.edge /\ y.pdrIds = x.pdrIds /\ y.at = a
    BY <1>1, <1>2, <2>1 DEF Objects
  <2>3. Step(x, y, t)
    <3> HIDE DEF y
    <3> QED
      BY <2>2, SameEdges
  <2> QED
    BY <2>2, <2>3
<1>4. x.todo \in Seq(UpfsOf(x.slot))
  BY <1>1 DEF Objects
<1>5. ASSUME NEW i \in DOMAIN x.todo
      PROVE  Step(x, Goto(x, i), t) /\ Goto(x, i).at = x.todo[i]
  <2>1. DOMAIN x.todo = 1 .. Len(x.todo) /\ Len(x.todo) \in Nat
        /\ \A j \in 1 .. Len(x.todo) : x.todo[j] \in UpfsOf(x.slot)
    BY <1>4, LenProperties, ElementOfSeq
  <2>2. SubSeq(x.todo, i + 1, Len(x.todo)) \in Seq(UpfsOf(x.slot))
    BY <1>5, <2>1, SubSeqProperties
  <2> QED
    BY <1>3, <1>5, <2>1, <2>2 DEF Goto
<1>6. ASSUME x.todo # <<>> PROVE Step(x, Advance(x), t) /\ Advance(x).at = Head(x.todo)
  <2>1. Head(x.todo) \in UpfsOf(x.slot) /\ Tail(x.todo) \in Seq(UpfsOf(x.slot))
    BY <1>4, <1>6, HeadTailProperties
  <2> QED
    BY <1>3, <2>1 DEF Advance
<1>7. ASSUME NEW q \in Seq(UpfsOf(x.slot)), q # <<>>
      PROVE  Step(x, Start(x, q), t) /\ Start(x, q).at = Head(q)
  <2>1. Head(q) \in UpfsOf(x.slot) /\ Tail(q) \in Seq(UpfsOf(x.slot))
    BY <1>7, HeadTailProperties
  <2>2. Start(x, q) = [x EXCEPT !.at = Head(q), !.todo = Tail(q)]
    BY <1>1 DEF Start, Advance, Objects
  <2> QED
    BY <1>3, <2>1, <2>2
<1> QED
  BY <1>5, <1>6, <1>7

\* Handlers that keep the tunnels, the next hops and the identifiers of downlink edges.
LEMMA QuietEdges ==
  ASSUME NEW x, NEW y \in Objects, NEW t, Object(x, t),
         y.slot = x.slot, x.pdrIds <= y.pdrIds,
         \A u \in UpfsOf(x.slot) : /\ y.edge[u].dl.pdr = x.edge[u].dl.pdr
                                   /\ y.edge[u].dl.teid = x.edge[u].dl.teid
                                   /\ y.edge[u].ul.next = x.edge[u].ul.next
  PROVE  Step(x, y, t)
<1>1. /\ x.pdrIds \in Nat /\ y.pdrIds \in Nat
      /\ \A u \in UpfsOf(x.slot) : x.edge[u].dl.pdr \in Nat
      /\ \A i \in DOMAIN Path[x.slot] : i > 1 => i - 1 \in DOMAIN Path[x.slot]
  BY Fields, PathFacts DEF Object
<1>2. IdsOK(y)
  BY <1>1 DEF Object, IdsOK
<1>3. HopsOK(y)
  <2>1. \A i \in DOMAIN Path[x.slot] : Path[x.slot][i] \in UpfsOf(x.slot)
    BY DEF UpfsOf
  <2>2. HopsOK(x)
    BY DEF Object
  <2> QED
    BY <1>1, <2>1, <2>2 DEF HopsOK
<1>4. TeidsOK(y, t) /\ Evolves(x, y)
  BY DEF Object, TeidsOK, Evolves
<1> QED
  BY <1>2, <1>3, <1>4 DEF Step, Object

\* A rule gets an identifier that no edge has.
LEMMA NewIdentifier ==
  ASSUME NEW x, NEW y \in Objects, NEW t, Object(x, t), NEW a \in UpfsOf(x.slot),
         y.slot = x.slot, y.pdrIds = x.pdrIds + 1,
         \A u \in UpfsOf(x.slot) :
           /\ y.edge[u].dl.pdr = IF u = a THEN x.pdrIds + 1 ELSE x.edge[u].dl.pdr
           /\ y.edge[u].dl.teid = x.edge[u].dl.teid
           /\ y.edge[u].ul.next = x.edge[u].ul.next
  PROVE  Step(x, y, t)
<1>1. /\ x.pdrIds \in Nat /\ y.pdrIds \in Nat
      /\ \A u \in UpfsOf(x.slot) : x.edge[u].dl.pdr \in Nat
      /\ \A i \in DOMAIN Path[x.slot] : i > 1 => i - 1 \in DOMAIN Path[x.slot]
  BY Fields, PathFacts DEF Object
<1>2. IdsOK(y)
  BY <1>1 DEF Object, IdsOK
<1>3. HopsOK(y)
  <2>1. \A i \in DOMAIN Path[x.slot] : Path[x.slot][i] \in UpfsOf(x.slot)
    BY DEF UpfsOf
  <2>2. HopsOK(x)
    BY DEF Object
  <2> QED
    BY <1>1, <2>1, <2>2 DEF HopsOK
<1>4. TeidsOK(y, t)
  BY DEF Object, TeidsOK
<1>5. Evolves(x, y)
  BY <1>1 DEF Evolves
<1> QED
  BY <1>2, <1>3, <1>4, <1>5 DEF Step, Object

\* A rule or a tunnel of the UPF at the gNB's side is gone.
LEMMA ClearedEdge ==
  ASSUME NEW x, NEW y \in Objects, NEW t \in [Upfs -> Nat], Object(x, t), NEW a \in UpfsOf(x.slot),
         a = Access(x.slot), y.slot = x.slot, y.pdrIds = x.pdrIds,
         \A u \in UpfsOf(x.slot) :
           \/ /\ y.edge[u].dl.pdr = x.edge[u].dl.pdr
              /\ y.edge[u].dl.teid = x.edge[u].dl.teid
              /\ y.edge[u].ul.next \in {0, x.edge[u].ul.next}
           \/ /\ u = a /\ y.edge[u].dl.pdr = 0 /\ y.edge[u].dl.teid = 0
              /\ y.edge[u].ul.next \in {0, x.edge[u].ul.next}
  PROVE  Step(x, y, t)
<1>1. /\ x.pdrIds \in Nat /\ y.pdrIds \in Nat
      /\ x.slot \in Sessions /\ UpfsOf(x.slot) \subseteq Upfs
      /\ \A u \in UpfsOf(x.slot) : x.edge[u].dl.pdr \in Nat
      /\ \A i \in DOMAIN Path[x.slot] : i > 1 => i - 1 \in DOMAIN Path[x.slot]
  BY Fields, PathFacts DEF Object
<1>2. IdsOK(y)
  BY <1>1 DEF Object, IdsOK
<1>3. HopsOK(y)
  <2> SUFFICES ASSUME NEW i \in DOMAIN Path[x.slot], i > 1,
                      y.edge[Path[x.slot][i]].ul.next # 0
               PROVE  y.edge[Path[x.slot][i - 1]].dl.teid # 0
    BY DEF HopsOK
  <2>1. i - 1 \in DOMAIN Path[x.slot] /\ Path[x.slot][i - 1] \in UpfsOf(x.slot)
        /\ Path[x.slot][i] \in UpfsOf(x.slot)
    BY <1>1 DEF UpfsOf
  <2>2. Path[x.slot][i - 1] # a
    BY <1>1, <2>1, PathFacts DEF Access
  <2>3. x.edge[Path[x.slot][i]].ul.next # 0
    BY <2>1
  <2>4. x.edge[Path[x.slot][i - 1]].dl.teid # 0
    BY <2>3 DEF Object, HopsOK
  <2> QED
    BY <2>1, <2>2, <2>4
<1>4. TeidsOK(y, t)
  BY <1>1 DEF Object, TeidsOK
<1>5. Evolves(x, y)
  BY <1>1 DEF Evolves
<1> QED
  BY <1>2, <1>3, <1>4, <1>5 DEF Step, Object

LEMMA FieldSteps ==
  ASSUME NEW x, NEW t, Object(x, t)
  PROVE  /\ \A v \in {"ACTIVATED", "ACTIVATING", "DEACTIVATED"} : Step(x, [x EXCEPT !.cnx = v], t)
         /\ \A n \in Nat : Step(x, [x EXCEPT !.upSeid = n], t)
<1>1. ASSUME NEW v \in {"ACTIVATED", "ACTIVATING", "DEACTIVATED"}
      PROVE  Step(x, [x EXCEPT !.cnx = v], t)
  <2> DEFINE y == [x EXCEPT !.cnx = v]
  <2>1. y \in Objects /\ y.slot = x.slot /\ y.edge = x.edge /\ y.pdrIds = x.pdrIds
    BY DEF Object, Objects
  <2>2. Step(x, y, t)
    <3> HIDE DEF y
    <3> QED
      BY <2>1, SameEdges
  <2> QED
    BY <2>2
<1>2. ASSUME NEW n \in Nat
      PROVE  Step(x, [x EXCEPT !.upSeid = n], t)
  <2> DEFINE y == [x EXCEPT !.upSeid = n]
  <2>1. y \in Objects /\ y.slot = x.slot /\ y.edge = x.edge /\ y.pdrIds = x.pdrIds
    BY DEF Object, Objects
  <2>2. Step(x, y, t)
    <3> HIDE DEF y
    <3> QED
      BY <2>1, SameEdges
  <2> QED
    BY <2>2
<1> QED
  BY <1>1, <1>2

\* An edge map of the right shape makes an object.
LEMMA WithEdges ==
  ASSUME NEW x \in Objects, NEW e \in [UpfsOf(x.slot) -> Sides], NEW p \in Nat, NEW f \in Nat
  PROVE  /\ [x EXCEPT !.edge = e, !.pdrIds = p, !.farIds = f] \in Objects
         /\ [x EXCEPT !.edge = e] \in Objects
<1>1. x.slot \in Sessions
  BY Fields
<1>2. e \in UNION {[UpfsOf(s) -> Sides] : s \in Sessions}
  BY <1>1
<1> QED
  BY <1>2 DEF Objects

LEMMA FarSteps ==
  ASSUME NEW x, NEW t, Object(x, t), NEW d \in {"dl", "ul"}
  PROVE  /\ Step(x, WithFar(x, d), t)
         /\ WithFar(x, d).at = x.at /\ WithFar(x, d).ip = x.ip
<1>1. x \in Objects /\ x.at \in UpfsOf(x.slot) /\ x.farIds \in Nat /\ x.pdrIds \in Nat
      /\ x.edge \in [UpfsOf(x.slot) -> Sides]
  BY Fields DEF Object
<1>2. CASE x.edge[x.at][d].far # 0
  BY <1>2, Stays DEF WithFar
<1>3. CASE x.edge[x.at][d].far = 0
  <2> DEFINE e == [x.edge EXCEPT ![x.at][d].far = x.farIds + 1]
             y == [x EXCEPT !.edge = e, !.pdrIds = x.pdrIds, !.farIds = x.farIds + 1]
  <2>1. WithFar(x, d) = y
    BY <1>1, <1>3 DEF WithFar, Objects
  <2>2. e \in [UpfsOf(x.slot) -> Sides]
    BY <1>1 DEF Sides, Edges
  <2>3. \A u \in UpfsOf(x.slot) : /\ e[u].dl.pdr = x.edge[u].dl.pdr
                                  /\ e[u].dl.teid = x.edge[u].dl.teid
                                  /\ e[u].ul.next = x.edge[u].ul.next
    BY <1>1 DEF Sides, Edges
  <2> HIDE DEF e
  <2>4. y.slot = x.slot /\ y.pdrIds = x.pdrIds /\ y.edge = e /\ y.at = x.at /\ y.ip = x.ip
    BY <1>1 DEF Objects
  <2>5. y \in Objects
    <3>1. x.farIds + 1 \in Nat
      BY <1>1
    <3> QED
      BY <1>1, <2>2, <3>1, WithEdges
  <2> HIDE DEF y
  <2>6. Step(x, y, t)
    <3>1. /\ x.pdrIds <= y.pdrIds
          /\ \A u \in UpfsOf(x.slot) : /\ y.edge[u].dl.pdr = x.edge[u].dl.pdr
                                        /\ y.edge[u].dl.teid = x.edge[u].dl.teid
                                        /\ y.edge[u].ul.next = x.edge[u].ul.next
      BY <1>1, <2>3, <2>4
    <3> QED
      BY <2>4, <2>5, <3>1, QuietEdges
  <2> QED
    BY <2>1, <2>4, <2>6
<1> QED
  BY <1>2, <1>3

LEMMA PdrSteps ==
  ASSUME NEW x, NEW t, Object(x, t), NEW d \in {"dl", "ul"}
  PROVE  /\ Step(x, WithPdr(x, d), t)
         /\ WithPdr(x, d).at = x.at /\ WithPdr(x, d).ip = x.ip
         /\ WithPdr(x, d).edge[x.at][d].pdr # 0
<1>1. x \in Objects /\ x.at \in UpfsOf(x.slot) /\ x.farIds \in Nat /\ x.pdrIds \in Nat
      /\ x.edge \in [UpfsOf(x.slot) -> Sides]
  BY Fields DEF Object
<1>2. CASE x.edge[x.at][d].pdr # 0
  BY <1>2, Stays DEF WithPdr
<1>3. CASE x.edge[x.at][d].pdr = 0
  <2> DEFINE e == [x.edge EXCEPT ![x.at][d].pdr = x.pdrIds + 1]
             y == [x EXCEPT !.edge = e, !.pdrIds = x.pdrIds + 1, !.farIds = x.farIds]
  <2>1. WithPdr(x, d) = y
    BY <1>1, <1>3 DEF WithPdr, Objects
  <2>2. e \in [UpfsOf(x.slot) -> Sides] /\ e[x.at][d].pdr = x.pdrIds + 1
    BY <1>1 DEF Sides, Edges
  <2>3. \A u \in UpfsOf(x.slot) :
          /\ e[u].dl.pdr = IF u = x.at /\ d = "dl" THEN x.pdrIds + 1 ELSE x.edge[u].dl.pdr
          /\ e[u].dl.teid = x.edge[u].dl.teid
          /\ e[u].ul.next = x.edge[u].ul.next
    BY <1>1 DEF Sides, Edges
  <2> HIDE DEF e
  <2>4. y.slot = x.slot /\ y.pdrIds = x.pdrIds + 1 /\ y.edge = e /\ y.at = x.at /\ y.ip = x.ip
    BY <1>1 DEF Objects
  <2>5. y \in Objects
    <3>1. x.pdrIds + 1 \in Nat
      BY <1>1
    <3> QED
      BY <1>1, <2>2, <3>1, WithEdges
  <2> HIDE DEF y
  <2>6. Step(x, y, t)
    <3>1. CASE d = "dl"
      BY <1>1, <2>3, <2>4, <2>5, <3>1, NewIdentifier
    <3>2. CASE d = "ul"
      <4>1. /\ x.pdrIds <= y.pdrIds
            /\ \A u \in UpfsOf(x.slot) : /\ y.edge[u].dl.pdr = x.edge[u].dl.pdr
                                          /\ y.edge[u].dl.teid = x.edge[u].dl.teid
                                          /\ y.edge[u].ul.next = x.edge[u].ul.next
        BY <1>1, <2>3, <2>4, <3>2
      <4> QED
        BY <2>4, <2>5, <4>1, QuietEdges
    <3> QED
      BY <3>1, <3>2
  <2> QED
    BY <1>1, <2>1, <2>2, <2>4, <2>6
<1> QED
  BY <1>2, <1>3

\* The object of a request: an identifier for the rule, the tunnel as it was.
LEMMA PreparedSteps ==
  ASSUME NEW x, NEW t, Object(x, t), NEW d \in {"dl", "ul"}
  PROVE  /\ Step(x, Prepared(x, d), t)
         /\ Prepared(x, d).at = x.at /\ Prepared(x, d).ip = x.ip
         /\ Prepared(x, d).edge[x.at][d].pdr # 0
<1>1. Other[d] \in {"dl", "ul"}
  BY DEF Other
<1> DEFINE w == WithFar(x, Other[d])
<1>2. Step(x, w, t) /\ w.at = x.at /\ w.ip = x.ip
  BY <1>1, FarSteps
<1>3. Prepared(x, d) = WithPdr(w, d)
  BY DEF Prepared
<1> HIDE DEF w
<1>4. Object(w, t)
  BY <1>2 DEF Step
<1>5. /\ Step(w, WithPdr(w, d), t) /\ WithPdr(w, d).at = w.at /\ WithPdr(w, d).ip = w.ip
      /\ WithPdr(w, d).edge[w.at][d].pdr # 0
  BY <1>4, PdrSteps
<1>6. Step(x, WithPdr(w, d), t)
  BY <1>2, <1>5, StepTransitive
<1> QED
  BY <1>2, <1>3, <1>5, <1>6

LEMMA RaisedSteps ==
  ASSUME NEW x, NEW t, Object(x, t)
  PROVE  Step(x, Raised(x), t) /\ Raised(x).at = x.at /\ Raised(x).ip = x.ip
<1>1. x \in Objects /\ x.at \in UpfsOf(x.slot) /\ x.pdrIds \in Nat
      /\ x.edge \in [UpfsOf(x.slot) -> Sides]
  BY Fields DEF Object
<1> DEFINE f == [x.edge EXCEPT ![x.at].ul.prec = @ + 1]
           e == [f EXCEPT ![x.at].dl.prec = @ + 1]
           w == [x EXCEPT !.edge = f]
           y == [x EXCEPT !.edge = e]
<1>2. Raised(x) = y
  <2>1. w = [x EXCEPT !.edge[x.at].ul.prec = @ + 1]
    BY <1>1 DEF Objects
  <2>2. Raised(x) = [w EXCEPT !.edge[x.at].dl.prec = @ + 1]
    BY <2>1 DEF Raised
  <2> QED
    BY <1>1, <2>2 DEF Objects
<1>3. e \in [UpfsOf(x.slot) -> Sides]
  BY <1>1 DEF Sides, Edges
<1>4. \A u \in UpfsOf(x.slot) : /\ e[u].dl.pdr = x.edge[u].dl.pdr
                                /\ e[u].dl.teid = x.edge[u].dl.teid
                                /\ e[u].ul.next = x.edge[u].ul.next
  BY <1>1 DEF Sides, Edges
<1> HIDE DEF e
<1>5. y.slot = x.slot /\ y.pdrIds = x.pdrIds /\ y.edge = e /\ y.at = x.at /\ y.ip = x.ip
  BY <1>1 DEF Objects
<1>6. y \in Objects
  BY <1>1, <1>3, WithEdges
<1> HIDE DEF y
<1>7. /\ x.pdrIds <= y.pdrIds
      /\ \A u \in UpfsOf(x.slot) : /\ y.edge[u].dl.pdr = x.edge[u].dl.pdr
                                    /\ y.edge[u].dl.teid = x.edge[u].dl.teid
                                    /\ y.edge[u].ul.next = x.edge[u].ul.next
  BY <1>1, <1>4, <1>5
<1>8. Step(x, y, t)
  BY <1>5, <1>6, <1>7, QuietEdges
<1> QED
  BY <1>2, <1>5, <1>8

LEMMA ClearSteps ==
  ASSUME NEW x, NEW t \in [Upfs -> Nat], Object(x, t), NEW d \in {"dl", "ul"}
  PROVE  LET u == Access(x.slot)
         IN  /\ Step(x, ClearEdge(x, u, d), t)
             /\ ClearEdge(x, u, d).at = x.at /\ ClearEdge(x, u, d).slot = x.slot
             /\ ClearEdge(x, u, d).ip = x.ip
<1> DEFINE a == Access(x.slot)
<1>1. x \in Objects /\ x.slot \in Sessions /\ x.pdrIds \in Nat
      /\ x.edge \in [UpfsOf(x.slot) -> Sides]
  BY Fields DEF Object
<1>2. a \in UpfsOf(x.slot)
  BY <1>1, PathFacts
<1> HIDE DEF a
<1> DEFINE e == [x.edge EXCEPT ![a][d] = [NoEdge EXCEPT !.prec = x.edge[a][d].prec]]
           y == [x EXCEPT !.edge = e]
<1>3. ClearEdge(x, a, d) = y
  BY <1>1 DEF ClearEdge, Objects
<1>4. [NoEdge EXCEPT !.prec = x.edge[a][d].prec] \in Edges
  BY <1>1, <1>2 DEF NoEdge, Sides, Edges
<1>5. e \in [UpfsOf(x.slot) -> Sides]
  BY <1>1, <1>4 DEF Sides
<1>6. \A u \in UpfsOf(x.slot) :
        \/ /\ e[u].dl.pdr = x.edge[u].dl.pdr
           /\ e[u].dl.teid = x.edge[u].dl.teid
           /\ e[u].ul.next \in {0, x.edge[u].ul.next}
        \/ /\ u = a /\ e[u].dl.pdr = 0 /\ e[u].dl.teid = 0
           /\ e[u].ul.next \in {0, x.edge[u].ul.next}
  <2> SUFFICES ASSUME NEW u \in UpfsOf(x.slot)
               PROVE  \/ /\ e[u].dl.pdr = x.edge[u].dl.pdr
                         /\ e[u].dl.teid = x.edge[u].dl.teid
                         /\ e[u].ul.next \in {0, x.edge[u].ul.next}
                      \/ /\ u = a /\ e[u].dl.pdr = 0 /\ e[u].dl.teid = 0
                         /\ e[u].ul.next \in {0, x.edge[u].ul.next}
    OBVIOUS
  <2>1. CASE u # a
    BY <1>1, <2>1
  <2>2. CASE u = a
    <3>1. CASE d = "dl"
      BY <1>1, <2>2, <3>1 DEF NoEdge, Sides, Edges
    <3>2. CASE d = "ul"
      BY <1>1, <2>2, <3>2 DEF NoEdge, Sides, Edges
    <3> QED
      BY <3>1, <3>2
  <2> QED
    BY <2>1, <2>2
<1> HIDE DEF e
<1>7. y.slot = x.slot /\ y.pdrIds = x.pdrIds /\ y.edge = e /\ y.at = x.at /\ y.ip = x.ip
  BY <1>1 DEF Objects
<1>8. y \in Objects
  BY <1>1, <1>5, WithEdges
<1> HIDE DEF y
<1>9. Step(x, y, t)
  <2>1. \A u \in UpfsOf(x.slot) :
          \/ /\ y.edge[u].dl.pdr = x.edge[u].dl.pdr
             /\ y.edge[u].dl.teid = x.edge[u].dl.teid
             /\ y.edge[u].ul.next \in {0, x.edge[u].ul.next}
          \/ /\ u = a /\ y.edge[u].dl.pdr = 0 /\ y.edge[u].dl.teid = 0
             /\ y.edge[u].ul.next \in {0, x.edge[u].ul.next}
    BY <1>6, <1>7
  <2>2. a = Access(x.slot)
    BY DEF a
  <2> QED
    BY <1>2, <1>7, <1>8, <2>1, <2>2, ClearedEdge
<1> QED
  BY <1>3, <1>7, <1>9 DEF a

LEMMA DeallocatedSteps ==
  ASSUME NEW x, NEW t \in [Upfs -> Nat], Object(x, t)
  PROVE  Step(x, Deallocated(x), t)
<1> DEFINE w == ClearEdge(x, Access(x.slot), "dl")
           y == [w EXCEPT !.ip = NoAddress, !.upSeid = 0, !.cnx = "DEACTIVATED"]
<1>1. Deallocated(x) = y
  BY DEF Deallocated
<1>2. Step(x, w, t)
  BY ClearSteps
<1> HIDE DEF w
<1>3. Object(w, t) /\ w \in Objects
  BY <1>2 DEF Step, Object
<1>4. y \in Objects /\ y.slot = w.slot /\ y.edge = w.edge /\ y.pdrIds = w.pdrIds
  BY <1>3 DEF Objects, Addresses
<1> HIDE DEF y
<1>5. Step(w, y, t)
  BY <1>3, <1>4, SameEdges
<1>6. Step(x, y, t)
  BY <1>2, <1>5, StepTransitive
<1> QED
  BY <1>1, <1>6

(***************************************************************************)
(* update_next_hop_fteid with a tunnel the current UPF has given out.      *)
(***************************************************************************)
LEMMA TunnelSteps ==
  ASSUME NEW x, NEW t \in [Upfs -> Nat], Object(x, t), NEW n \in 1 .. t[x.at]
  PROVE  Step(x, WithTunnel(x, n), t)
<1> DEFINE e == [u \in UpfsOf(x.slot) |->
                   [dl |-> [x.edge[u].dl EXCEPT !.teid = IF u = x.at THEN n ELSE @],
                    ul |-> [x.edge[u].ul EXCEPT !.next = IF u \in Behind(x, x.at) THEN n ELSE @]]]
           y == [x EXCEPT !.edge = e]
<1>1. x \in Objects /\ x.slot \in Sessions /\ x.at \in UpfsOf(x.slot) /\ x.at \in Upfs
      /\ x.pdrIds \in Nat /\ x.edge \in [UpfsOf(x.slot) -> Sides]
  BY Fields DEF Object
<1>2. n \in Nat /\ n # 0 /\ n <= t[x.at]
  BY <1>1
<1>3. WithTunnel(x, n) = y
  BY DEF WithTunnel
<1>4. \A u \in UpfsOf(x.slot) : x.edge[u].dl \in Edges /\ x.edge[u].ul \in Edges
  BY Fields DEF Object
<1>5. \A u \in UpfsOf(x.slot) :
        /\ e[u].dl.pdr = x.edge[u].dl.pdr
        /\ e[u].dl.teid = IF u = x.at THEN n ELSE x.edge[u].dl.teid
        /\ e[u].ul.next = IF u \in Behind(x, x.at) THEN n ELSE x.edge[u].ul.next
  BY <1>4 DEF Edges
<1>6. e \in [UpfsOf(x.slot) -> Sides]
  <2>1. \A u \in UpfsOf(x.slot) : e[u].dl \in Edges /\ e[u].ul \in Edges
    BY <1>2, <1>4 DEF Edges
  <2> QED
    BY <2>1 DEF Sides
<1> HIDE DEF e
<1>7. y.slot = x.slot /\ y.pdrIds = x.pdrIds /\ y.edge = e
  BY <1>1 DEF Objects
<1>8. y \in Objects
  BY <1>1, <1>6, WithEdges
<1> HIDE DEF y
<1>9. IdsOK(y)
  BY <1>5, <1>7 DEF Object, IdsOK
<1>10. HopsOK(y)
  <2> SUFFICES ASSUME NEW i \in DOMAIN Path[x.slot], i > 1,
                      e[Path[x.slot][i]].ul.next # 0
               PROVE  e[Path[x.slot][i - 1]].dl.teid # 0
    BY <1>7 DEF HopsOK
  <2>1. i - 1 \in DOMAIN Path[x.slot] /\ Path[x.slot][i - 1] \in UpfsOf(x.slot)
        /\ Path[x.slot][i] \in UpfsOf(x.slot)
    BY <1>1, PathFacts DEF UpfsOf
  <2>2. CASE Path[x.slot][i] \in Behind(x, x.at)
    <3>1. PICK j \in DOMAIN Path[x.slot] : /\ Path[x.slot][j - 1] = x.at
                                           /\ Path[x.slot][i] = Path[x.slot][j]
      BY <2>2 DEF Behind
    <3>2. i = j
      BY <1>1, <3>1, PathFacts
    <3> QED
      BY <1>2, <1>5, <2>1, <3>1, <3>2
  <2>3. CASE Path[x.slot][i] \notin Behind(x, x.at)
    <3>1. x.edge[Path[x.slot][i]].ul.next # 0
      BY <1>5, <2>1, <2>3
    <3>2. x.edge[Path[x.slot][i - 1]].dl.teid # 0
      BY <3>1 DEF Object, HopsOK
    <3> QED
      BY <1>2, <1>5, <2>1, <3>2
  <2> QED
    BY <2>2, <2>3
<1>11. TeidsOK(y, t)
  BY <1>2, <1>5, <1>7 DEF Object, TeidsOK
<1>12. Evolves(x, y)
  BY <1>1, <1>2, <1>5, <1>7 DEF Evolves
<1>13. Step(x, y, t)
  BY <1>8, <1>9, <1>10, <1>11, <1>12 DEF Step, Object
<1> QED
  BY <1>3, <1>13

--------------------------------------------------------------------------------
(***************************************************************************)
(* Messages of a context x; t is the number of tunnels of each UPF.  An    *)
(* uplink rule is of an edge of the UPF it is sent to, and a UPF is asked  *)
(* for its part of the path when the tunnel it leads to is known.          *)
(***************************************************************************)
Belongs(p, u, x) ==
  p \in 1 .. x.pdrIds /\ \A w \in UpfsOf(x.slot) : x.edge[w].dl.pdr = p => w = u

HopOpen(u, x) ==
  \A i \in DOMAIN Path[x.slot] :
    i > 1 /\ Path[x.slot][i] = u => x.edge[Path[x.slot][i - 1]].dl.teid # 0

PdrOK(p, u, x, t) ==
  \/ p.dir = "ul" /\ p.key \in 0 .. t[u] /\ Belongs(p.id, u, x)
  \/ p.dir = "dl" /\ p.key \in Addresses

RequestOK(m, x, t) ==
  /\ m.to \in UpfsOf(x.slot) /\ m.cp = m.proc.ctx
  /\ m.pdrs # <<>> => PdrOK(m.pdrs[1], m.to, x, t)
  /\ m.type = "est" => m.pdrs # <<>> /\ m.pdrs[1].dir = "ul" /\ HopOpen(m.to, x)

AnswerOK(m, x, t) ==
  /\ m.from \in UpfsOf(x.slot) /\ m.seid \in Nat
  /\ \A y \in m.tunnels : y.teid \in 1 .. t[m.from] /\ Belongs(y.pdr, m.from, x)

MessageOK(m, x, t) ==
  IF m.to = "smf" THEN AnswerOK(m, x, t) ELSE RequestOK(m, x, t)

LEMMA BelongsStill ==
  ASSUME NEW x \in Objects, NEW y \in Objects, Evolves(x, y), NEW p, NEW u, Belongs(p, u, x)
  PROVE  Belongs(p, u, y)
<1>1. x.pdrIds \in Nat /\ y.pdrIds \in Nat /\ y.slot = x.slot /\ x.pdrIds <= y.pdrIds
  BY Fields DEF Evolves
<1>2. p \in 1 .. x.pdrIds
  BY DEF Belongs
<1>3. ASSUME NEW w \in UpfsOf(x.slot), y.edge[w].dl.pdr = p PROVE w = u
  <2>1. p # 0 /\ ~(p > x.pdrIds)
    BY <1>1, <1>2
  <2>2. x.edge[w].dl.pdr = p
    BY <1>3, <2>1 DEF Evolves
  <2> QED
    BY <2>2 DEF Belongs
<1> QED
  BY <1>1, <1>2, <1>3 DEF Belongs

LEMMA HopStillOpen ==
  ASSUME NEW x \in Objects, NEW y \in Objects, Evolves(x, y), NEW u, HopOpen(u, x)
  PROVE  HopOpen(u, y)
<1>1. x.slot \in Sessions /\ y.slot = x.slot
  BY Fields DEF Evolves
<1> SUFFICES ASSUME NEW i \in DOMAIN Path[x.slot], i > 1, Path[x.slot][i] = u
             PROVE  y.edge[Path[x.slot][i - 1]].dl.teid # 0
  BY <1>1 DEF HopOpen
<1>2. i - 1 \in DOMAIN Path[x.slot] /\ Path[x.slot][i - 1] \in UpfsOf(x.slot)
  BY <1>1, PathFacts DEF UpfsOf
<1>3. Path[x.slot][i - 1] # Access(x.slot)
  BY <1>1, <1>2, PathFacts DEF Access
<1>4. x.edge[Path[x.slot][i - 1]].dl.teid # 0
  BY DEF HopOpen
<1> QED
  BY <1>2, <1>3, <1>4 DEF Evolves

LEMMA MessageKept ==
  ASSUME NEW x, NEW y, NEW t, Object(x, t), Step(x, y, t), NEW m, MessageOK(m, x, t)
  PROVE  MessageOK(m, y, t)
<1>1. x \in Objects /\ y \in Objects /\ Evolves(x, y) /\ y.slot = x.slot
  BY DEF Step, Object, Evolves
<1>2. \A p, u : Belongs(p, u, x) => Belongs(p, u, y)
  BY <1>1, BelongsStill
<1>3. \A u : HopOpen(u, x) => HopOpen(u, y)
  BY <1>1, HopStillOpen
<1>4. CASE m.to = "smf"
  BY <1>1, <1>2, <1>4 DEF MessageOK, AnswerOK
<1>5. CASE m.to # "smf"
  BY <1>1, <1>2, <1>3, <1>5 DEF MessageOK, RequestOK, PdrOK
<1> QED
  BY <1>4, <1>5

\* UPFs give out more tunnels.
LEMMA MoreTunnels ==
  ASSUME NEW t \in [Upfs -> Nat], NEW n \in [Upfs -> Nat], \A u \in Upfs : t[u] <= n[u],
         NEW x, Object(x, t)
  PROVE  Object(x, n) /\ \A m : MessageOK(m, x, t) => MessageOK(m, x, n)
<1>1. x \in Objects /\ x.slot \in Sessions /\ UpfsOf(x.slot) \subseteq Upfs
      /\ \A u \in UpfsOf(x.slot) : x.edge[u].dl.teid \in Nat
  BY Fields, PathFacts DEF Object
<1>2. TeidsOK(x, n)
  BY <1>1 DEF Object, TeidsOK
<1>3. \A u \in UpfsOf(x.slot) : t[u] \in Nat /\ n[u] \in Nat /\ t[u] <= n[u]
  BY <1>1
<1>4. ASSUME NEW m, MessageOK(m, x, t) PROVE MessageOK(m, x, n)
  <2>1. CASE m.to = "smf"
    BY <1>3, <1>4, <2>1 DEF MessageOK, AnswerOK
  <2>2. CASE m.to # "smf"
    <3>1. RequestOK(m, x, t) /\ m.to \in UpfsOf(x.slot)
      BY <1>4, <2>2 DEF MessageOK, RequestOK
    <3>2. \A p : PdrOK(p, m.to, x, t) => PdrOK(p, m.to, x, n)
      BY <1>3, <3>1 DEF PdrOK
    <3> QED
      BY <2>2, <3>1, <3>2 DEF MessageOK, RequestOK
  <2> QED
    BY <2>1, <2>2
<1> QED
  BY <1>2, <1>4 DEF Object

LEMMA TunnelledSteps ==
  ASSUME NEW x, NEW t \in [Upfs -> Nat], Object(x, t), NEW m, AnswerOK(m, x, t)
  PROVE  Step(x, Tunnelled(x, m), t)
<1> DEFINE T == {y \in m.tunnels : y.pdr = x.edge[x.at].dl.pdr}
<1>1. CASE T = {}
  BY <1>1, Stays DEF Tunnelled
<1>2. CASE T # {}
  <2> DEFINE y == CHOOSE z \in T : TRUE
  <2>1. y \in m.tunnels /\ y.pdr = x.edge[x.at].dl.pdr
    BY <1>2
  <2>2. x.at \in UpfsOf(x.slot)
    BY Fields DEF Object
  <2>3. Tunnelled(x, m) = WithTunnel(x, y.teid)
    BY <1>2 DEF Tunnelled
  <2> HIDE DEF y, T
  <2>4. y.teid \in 1 .. t[m.from] /\ Belongs(y.pdr, m.from, x)
    BY <2>1 DEF AnswerOK
  <2>5. x.at = m.from
    BY <2>1, <2>2, <2>4 DEF Belongs
  <2> QED
    BY <2>3, <2>4, <2>5, TunnelSteps
<1> QED
  BY <1>1, <1>2

\* The hop of a UPF the search does not go past.
LEMMA EligibleIsOpen ==
  ASSUME NEW x, NEW t, Object(x, t), NEW u, HopKnown(x, u)
  PROVE  HopOpen(u, x)
<1>1. x.slot \in Sessions
  BY Fields DEF Object
<1> SUFFICES ASSUME NEW i \in DOMAIN Path[x.slot], i > 1, Path[x.slot][i] = u
             PROVE  x.edge[Path[x.slot][i - 1]].dl.teid # 0
  BY DEF HopOpen
<1>2. u # Head(Path[x.slot])
  BY <1>1, PathFacts
<1>3. x.edge[u].ul.next # 0
  BY <1>2 DEF HopKnown
<1> QED
  BY <1>3 DEF Object, HopsOK

\* The requests of the procedures.
LEMMA CreatingOK ==
  ASSUME NEW x, NEW t \in [Upfs -> Nat], Object(x, t), NEW k, NEW c, NEW type,
         NEW d \in {"dl", "ul"}, x.edge[x.at][d].pdr # 0,
         type = "est" => d = "dl" /\ HopOpen(x.at, x)
  PROVE  /\ MessageOK(Creating(k, c, x, type, d), x, t)
         /\ Creating(k, c, x, type, d).proc = [kind |-> k, ctx |-> c]
<1> DEFINE m == Creating(k, c, x, type, d)
           p == Pdr(x, d)
<1>1. /\ x \in Objects /\ x.at \in UpfsOf(x.slot) /\ x.at \in Upfs /\ x.pdrIds \in Nat
      /\ \A u \in UpfsOf(x.slot) : x.edge[u].dl.pdr \in Nat /\ x.edge[u].dl.teid \in Nat
      /\ x.ip \in Addresses
  BY Fields DEF Object, Objects
<1>2. /\ m.to = x.at /\ m.type = type /\ m.proc = [kind |-> k, ctx |-> c] /\ m.cp = c
      /\ m.pdrs = <<p>>
  BY DEF Creating, Message
<1>3. PdrOK(p, x.at, x, t)
  <2>1. CASE d = "dl"
    <3>1. p.dir = "ul" /\ p.key = x.edge[x.at].dl.teid /\ p.id = x.edge[x.at].dl.pdr
      BY <2>1 DEF Pdr, Other
    <3>2. x.edge[x.at].dl.teid <= t[x.at] /\ t[x.at] \in Nat
      BY <1>1 DEF Object, TeidsOK
    <3>3. Belongs(x.edge[x.at].dl.pdr, x.at, x)
      BY <1>1, <2>1 DEF Belongs, Object, IdsOK
    <3> QED
      BY <1>1, <3>1, <3>2, <3>3 DEF PdrOK
  <2>2. CASE d = "ul"
    BY <1>1, <2>2 DEF PdrOK, Pdr, Other
  <2> QED
    BY <2>1, <2>2
<1>4. m.type = "est" => p.dir = "ul"
  BY <1>2 DEF Pdr, Other
<1>5. m.to # "smf"
  BY <1>1, <1>2, NamesAssumption
<1> HIDE DEF m, p
<1>6. m.pdrs # <<>> /\ m.pdrs[1] = p
  BY <1>2
<1>7. m.proc.ctx = c
  BY <1>2
<1>8. MessageOK(m, x, t)
  BY <1>1, <1>2, <1>3, <1>4, <1>5, <1>6, <1>7 DEF MessageOK, RequestOK
<1> QED
  BY <1>2, <1>8 DEF m

\* Requests without rules to create.
LEMMA BareOK ==
  ASSUME NEW x, NEW t, Object(x, t), NEW k, NEW c, NEW w, w.at = x.at,
         NEW type, type # "est", NEW r, NEW f
  PROVE  /\ MessageOK(Message(k, c, w, type, r, f, <<>>, <<>>), x, t)
         /\ Message(k, c, w, type, r, f, <<>>, <<>>).proc = [kind |-> k, ctx |-> c]
<1>1. x.at \in UpfsOf(x.slot) /\ x.at \in Upfs
  BY Fields DEF Object
<1>2. x.at # "smf"
  BY <1>1, NamesAssumption
<1> QED
  BY <1>1, <1>2 DEF Message, MessageOK, RequestOK

--------------------------------------------------------------------------------
(***************************************************************************)
(* The lookup tables of a UPF.  A key leads to a list of rules that is     *)
(* never empty; K are the keys there can be.                               *)
(***************************************************************************)
TableOK(f, K) ==
  \A k \in DOMAIN f : k \in K /\ f[k] # <<>> /\ \E S : f[k] \in Seq(S)

LEMMA InsertedRules ==
  ASSUME NEW S, NEW q \in Seq(S), q # <<>>, NEW r
  PROVE  /\ Inserted(q, r) \in Seq({q[j] : j \in DOMAIN q} \cup {r})
         /\ Inserted(q, r) # <<>>
<1> DEFINE T     == {q[j] : j \in DOMAIN q} \cup {r}
           lower == Indices(q, LAMBDA x : x.prec < r.prec)
           i     == First(lower)
<1>1. DOMAIN q = 1 .. Len(q) /\ Len(q) \in Nat
  BY LenProperties
<1>2. \A j \in 1 .. Len(q) : q[j] \in T
  BY <1>1
<1>3. q \in Seq(T)
  <2>1. q = [j \in 1 .. Len(q) |-> q[j]]
    BY <1>1, LenProperties
  <2> HIDE DEF T
  <2> QED
    BY <1>1, <1>2, <2>1, IsASeq
<1>4. CASE lower = {}
  BY <1>3, <1>4 DEF Inserted
<1>5. CASE lower # {}
  <2>1. lower \in SUBSET Nat /\ lower \subseteq 1 .. Len(q)
    BY <1>1 DEF Indices
  <2>2. Inserted(q, r) = InsertAt(q, i, r)
    BY <1>5 DEF Inserted
  <2> HIDE DEF lower
  <2>3. Lowest(lower) \in lower
    BY <1>5, <2>1, LowestIsIn
  <2>4. i \in lower
    BY <2>3 DEF Lowest, First
  <2>5. i \in 1 .. Len(q)
    BY <2>1, <2>4
  <2> HIDE DEF i
  <2>6. SubSeq(q, 1, i - 1) \in Seq(T) /\ SubSeq(q, i, Len(q)) \in Seq(T)
    <3>1. (\A j \in 1 .. i - 1 : q[j] \in T) /\ (\A j \in i .. Len(q) : q[j] \in T)
      BY <1>1, <1>2, <2>5
    <3> HIDE DEF T
    <3> QED
      BY <1>1, <2>5, <3>1, SubSeqProperties
  <2>7. <<r>> \in Seq(T) /\ Len(<<r>>) = 1
    OBVIOUS
  <2> HIDE DEF T
  <2>8. SubSeq(q, 1, i - 1) \o <<r>> \in Seq(T) /\ Len(SubSeq(q, 1, i - 1) \o <<r>>) >= 1
    BY <2>6, <2>7, ConcatProperties, LenProperties
  <2>9. /\ InsertAt(q, i, r) \in Seq(T) /\ Len(InsertAt(q, i, r)) >= 1
    BY <2>6, <2>8, ConcatProperties, LenProperties DEF InsertAt
  <2> QED
    BY <2>2, <2>9, EmptySeq DEF T
<1> QED
  BY <1>4, <1>5

LEMMA AddRuleOK ==
  ASSUME NEW K, NEW f, TableOK(f, K), NEW r, r.key \in K
  PROVE  /\ TableOK(AddRule(f, r), K)
         /\ \A k \in DOMAIN AddRule(f, r) : \A i \in DOMAIN AddRule(f, r)[k] :
              \/ AddRule(f, r)[k][i] = r /\ k = r.key
              \/ k \in DOMAIN f /\ \E j \in DOMAIN f[k] : AddRule(f, r)[k][i] = f[k][j]
<1> DEFINE q == IF r.key \in DOMAIN f THEN Inserted(f[r.key], r) ELSE <<r>>
           g == AddRule(f, r)
<1>1. /\ DOMAIN g = DOMAIN f \cup {r.key} /\ g[r.key] = q
      /\ \A k \in DOMAIN f \ {r.key} : g[k] = f[k]
  BY DEF AddRule, Put
<1> HIDE DEF g
<1>2. /\ q # <<>>
      /\ \E S : q \in Seq(S)
      /\ \A i \in DOMAIN q :
           q[i] = r \/ (r.key \in DOMAIN f /\ \E j \in DOMAIN f[r.key] : q[i] = f[r.key][j])
  <2>1. CASE r.key \in DOMAIN f
    <3> DEFINE T == {f[r.key][j] : j \in DOMAIN f[r.key]} \cup {r}
    <3>1. q \in Seq(T) /\ q # <<>>
      BY <2>1, InsertedRules DEF TableOK
    <3>2. \A i \in DOMAIN q : q[i] \in T
      <4> HIDE DEF T, q
      <4> QED
        BY <3>1, LenProperties, ElementOfSeq
    <3>3. \E S : q \in Seq(S)
      <4> HIDE DEF T, q
      <4> QED
        BY <3>1
    <3>4. \A i \in DOMAIN q : q[i] = r \/ \E j \in DOMAIN f[r.key] : q[i] = f[r.key][j]
      <4> HIDE DEF q
      <4> QED
        BY <3>2
    <3>5. q # <<>>
      BY <3>1
    <3> HIDE DEF q, T
    <3>6. \A i \in DOMAIN q :
            q[i] = r \/ (r.key \in DOMAIN f /\ \E j \in DOMAIN f[r.key] : q[i] = f[r.key][j])
      BY <2>1, <3>4
    <3> QED
      BY <3>3, <3>5, <3>6
  <2>2. CASE r.key \notin DOMAIN f
    <3>1. q = <<r>>
      BY <2>2
    <3>2. <<r>> \in Seq({r}) /\ <<r>> # <<>> /\ \A i \in DOMAIN <<r>> : <<r>>[i] = r
      OBVIOUS
    <3> HIDE DEF q
    <3>3. q \in Seq({r}) /\ q # <<>> /\ \A i \in DOMAIN q : q[i] = r
      BY <3>1, <3>2
    <3>4. \E S : q \in Seq(S)
      BY <3>3
    <3> QED
      BY <3>3, <3>4
  <2> QED
    BY <2>1, <2>2
<1> HIDE DEF q
<1>3. TableOK(g, K)
  BY <1>1, <1>2 DEF TableOK
<1>4. ASSUME NEW k \in DOMAIN g, NEW i \in DOMAIN g[k]
      PROVE  \/ g[k][i] = r /\ k = r.key
             \/ k \in DOMAIN f /\ \E j \in DOMAIN f[k] : g[k][i] = f[k][j]
  BY <1>1, <1>2
<1> QED
  BY <1>3, <1>4 DEF g

--------------------------------------------------------------------------------
(***************************************************************************)
(* The invariant: objects and messages as above, tables that are in order, *)
(* and no name of a context that is not there.                             *)
(***************************************************************************)
Steps == {"none", "setup", "up", "idle"}

SmfTypes ==
  /\ ctx \in Seq(Objects) /\ Len(ctx) <= MaxContexts
  /\ \A c \in DOMAIN ctx : Object(ctx[c], teids)
  /\ cur \in [Sessions -> {0} \cup DOMAIN ctx] /\ ran \in [Sessions -> Steps]
  /\ \A s \in Sessions : cur[s] # 0 => ctx[cur[s]].slot = s
  /\ procs \subseteq Procs /\ \A p \in procs : p.ctx \in DOMAIN ctx
  /\ asked \in 0 .. MaxAsked

UpfTypes ==
  /\ teids \in [Upfs -> Nat]
  /\ smf \in [Upfs -> [up : BOOLEAN, sessions : SUBSET DOMAIN ctx]]
  /\ DOMAIN cpMap = Upfs /\ DOMAIN ulPdrs = Upfs /\ DOMAIN dlPdrs = Upfs
  /\ \A u \in Upfs : /\ DOMAIN cpMap[u] \subseteq DOMAIN ctx
                     /\ TableOK(ulPdrs[u], 1 .. teids[u])
                     /\ TableOK(dlPdrs[u], Addresses \ {NoAddress})
  /\ failures \in 0 .. MaxFailures

MessageTypes ==
  /\ \A m \in n4 : m.proc.ctx \in DOMAIN ctx /\ MessageOK(m, ctx[m.proc.ctx], teids)
  /\ lost \in 0 .. MaxLost

TypesInv == SmfTypes /\ UpfTypes /\ MessageTypes

\* What the SMF does to a context it has.
LEMMA UpdateKeepsTypes ==
  ASSUME TypesInv, NEW c \in DOMAIN ctx, NEW y, Step(ctx[c], y, teids),
         ctx' = [ctx EXCEPT ![c] = y], UNCHANGED <<cur, lost, upfVars>>,
         procs' \subseteq procs \cup {p \in Procs : p.ctx = c},
         \A m \in n4' : m \in n4 \/ (m.proc.ctx = c /\ MessageOK(m, y, teids)),
         ran' \in [Sessions -> Steps], asked' \in 0 .. MaxAsked
  PROVE  TypesInv'
<1>1. ctx \in Seq(Objects) /\ c \in 1 .. Len(ctx) /\ y \in Objects /\ Object(ctx[c], teids)
  BY LenProperties DEF TypesInv, SmfTypes, Step, Object
<1>2. /\ ctx' \in Seq(Objects) /\ Len(ctx') = Len(ctx) /\ DOMAIN ctx' = DOMAIN ctx
      /\ ctx'[c] = y /\ \A d \in DOMAIN ctx \ {c} : ctx'[d] = ctx[d]
  BY <1>1, ExceptSeq, LenProperties
<1>3. teids' = teids
  BY DEF upfVars
<1>4. SmfTypes'
  <2>1. y.slot = ctx[c].slot
    BY DEF Step, Evolves
  <2>2. \A s \in Sessions : cur'[s] # 0 => ctx'[cur'[s]].slot = s
    BY <1>2, <2>1 DEF TypesInv, SmfTypes
  <2>3. \A d \in DOMAIN ctx' : Object(ctx'[d], teids')
    BY <1>2, <1>3 DEF TypesInv, SmfTypes, Step
  <2> QED
    BY <1>2, <2>2, <2>3 DEF TypesInv, SmfTypes
<1>5. UpfTypes'
  BY <1>2 DEF TypesInv, UpfTypes, upfVars
<1>6. MessageTypes'
  <2>1. ASSUME NEW m \in n4'
        PROVE  m.proc.ctx \in DOMAIN ctx' /\ MessageOK(m, ctx'[m.proc.ctx], teids)
    <3>1. CASE m.proc.ctx = c /\ MessageOK(m, y, teids)
      BY <1>2, <3>1
    <3>2. CASE m \in n4
      <4>1. m.proc.ctx \in DOMAIN ctx /\ MessageOK(m, ctx[m.proc.ctx], teids)
        BY <3>2 DEF TypesInv, MessageTypes
      <4>2. CASE m.proc.ctx # c
        BY <1>2, <4>1, <4>2
      <4>3. CASE m.proc.ctx = c
        BY <1>1, <1>2, <4>1, <4>3, MessageKept
      <4> QED
        BY <4>2, <4>3
    <3> QED
      BY <2>1, <3>1, <3>2
  <2> QED
    BY <1>3, <2>1 DEF TypesInv, MessageTypes
<1> QED
  BY <1>4, <1>5, <1>6 DEF TypesInv

\* A new context.
LEMMA CreateKeepsTypes ==
  ASSUME TypesInv, NEW s \in Sessions, NEW x, Object(x, teids), x.slot = s, CreateContext(s, x),
         UNCHANGED <<lost, upfVars>>,
         procs' \subseteq procs \cup {p \in Procs : p.ctx = NextContext},
         \A m \in n4' : m \in n4 \/ (m.proc.ctx = NextContext /\ MessageOK(m, x, teids))
  PROVE  TypesInv'
<1>1. ctx' = Append(ctx, x) /\ x \in Objects /\ ctx \in Seq(Objects)
  BY DEF CreateContext, TypesInv, SmfTypes, Object
<1>2. /\ ctx' \in Seq(Objects) /\ Len(ctx) \in Nat /\ Len(ctx') = Len(ctx) + 1
  BY <1>1, AppendProperties, LenProperties
<1>3. /\ DOMAIN ctx' = DOMAIN ctx \cup {NextContext} /\ NextContext \notin DOMAIN ctx
      /\ ctx'[NextContext] = x /\ \A c \in DOMAIN ctx : ctx'[c] = ctx[c]
  <2>1. \E S : ctx \in Seq(S)
    BY <1>1
  <2> QED
    BY <1>1, <2>1, AppendedContext
<1>4. teids' = teids
  BY DEF upfVars
<1>5. /\ Len(ctx) < MaxContexts /\ MaxContexts \in Nat /\ asked < MaxAsked /\ asked' = asked + 1
      /\ cur' = [cur EXCEPT ![s] = NextContext] /\ ran' = [ran EXCEPT ![s] = "none"]
      /\ MaxAsked \in Nat
  BY BoundsAssumption DEF CreateContext, Ask
<1>6. SmfTypes'
  <2>1. Len(ctx') <= MaxContexts /\ asked' \in 0 .. MaxAsked
    BY <1>2, <1>5 DEF TypesInv, SmfTypes
  <2>2. cur' \in [Sessions -> {0} \cup DOMAIN ctx'] /\ ran' \in [Sessions -> Steps]
    BY <1>3, <1>5 DEF TypesInv, SmfTypes, Steps
  <2>3. \A c \in DOMAIN ctx' : Object(ctx'[c], teids')
    BY <1>3, <1>4 DEF TypesInv, SmfTypes
  <2>4. procs' \subseteq Procs /\ \A p \in procs' : p.ctx \in DOMAIN ctx'
    BY <1>3 DEF TypesInv, SmfTypes
  <2>5. \A r \in Sessions : cur'[r] # 0 => ctx'[cur'[r]].slot = r
    BY <1>3, <1>5 DEF TypesInv, SmfTypes
  <2> QED
    BY <1>2, <2>1, <2>2, <2>3, <2>4, <2>5 DEF SmfTypes
<1>7. UpfTypes'
  <2>1. smf' \in [Upfs -> [up : BOOLEAN, sessions : SUBSET DOMAIN ctx']]
    BY <1>3 DEF TypesInv, UpfTypes, upfVars
  <2> QED
    BY <1>3, <2>1 DEF TypesInv, UpfTypes, upfVars
<1>8. MessageTypes'
  BY <1>3, <1>4 DEF TypesInv, MessageTypes
<1> QED
  BY <1>6, <1>7, <1>8 DEF TypesInv

LEMMA NewObject ==
  ASSUME NEW s \in Sessions, NEW ip \in Addresses, NEW g \in BOOLEAN, NEW t \in [Upfs -> Nat]
  PROVE  Object(NewContext(s, ip, g), t) /\ NewContext(s, ip, g).slot = s
<1> DEFINE x == NewContext(s, ip, g)
           e == [u \in UpfsOf(s) |-> [dl |-> NoEdge, ul |-> NoEdge]]
<1>1. x.slot = s /\ x.edge = e /\ x.pdrIds = 0
  BY DEF NewContext
<1>2. e \in [UpfsOf(s) -> Sides]
  BY DEF Sides, Edges, NoEdge
<1>3. x \in Objects
  <2>1. e \in UNION {[UpfsOf(z) -> Sides] : z \in Sessions}
    BY <1>2
  <2>2. Access(s) \in UpfsOf(s) /\ Access(s) \in Upfs /\ <<>> \in Seq(UpfsOf(s)) /\ <<>> \in Seq(Upfs)
    BY PathFacts, EmptySeq
  <2> HIDE DEF e
  <2>3. x = [slot |-> s, ip |-> ip, graph |-> g, upSeid |-> 0, todo |-> <<>>, at |-> Access(s),
             cnx |-> "DEACTIVATED", pdrIds |-> 0, farIds |-> 0, edge |-> e]
    BY DEF NewContext, e
  <2> HIDE DEF x
  <2> QED
    BY <1>2, <2>1, <2>2, <2>3 DEF Objects
<1>4. \A u \in UpfsOf(s) : e[u].dl.pdr = 0 /\ e[u].dl.teid = 0 /\ e[u].ul.next = 0
  BY DEF NoEdge
<1>5. IdsOK(x)
  BY <1>1, <1>4 DEF IdsOK
<1>6. HopsOK(x)
  <2>1. \A i \in DOMAIN Path[s] : Path[s][i] \in UpfsOf(s)
    BY DEF UpfsOf
  <2> HIDE DEF x, e
  <2> QED
    BY <1>1, <1>4, <2>1 DEF HopsOK
<1>7. TeidsOK(x, t)
  <2>1. \A u \in UpfsOf(s) : t[u] \in Nat
    BY PathFacts
  <2> HIDE DEF x, e
  <2> QED
    BY <1>1, <1>4, <2>1 DEF TeidsOK
<1> QED
  BY <1>1, <1>3, <1>5, <1>6, <1>7 DEF Object


--------------------------------------------------------------------------------
(***************************************************************************)
(* The handlers keep the types.                                            *)
(***************************************************************************)
LEMMA FirstAddress ==
  ASSUME AddressInv, NEW s \in Sessions, NEW ip,
         Static[s] # NoAddress \/ HasAddress(pool),
         ip = IF Static[s] # NoAddress THEN Static[s] ELSE NextAddress(pool)
  PROVE  ip \in Addresses /\ ip # NoAddress
<1>1. ip \in Int
  BY AddressOfCreate
<1> QED
  BY <1>1, AddressAssumption DEF Addresses

LEMMA NextIsContext ==
  ASSUME TypesInv, NEW s \in Sessions, NEW x, CreateContext(s, x)
  PROVE  NextContext \in Contexts /\ teids \in [Upfs -> Nat]
<1>1. Len(ctx) \in Nat /\ Len(ctx) < MaxContexts /\ MaxContexts \in Nat
  BY LenProperties, BoundsAssumption DEF TypesInv, SmfTypes, CreateContext
<1> QED
  BY <1>1 DEF TypesInv, UpfTypes, Contexts, NextContext

LEMMA CreateTypes ==
  ASSUME TypesInv, AddressInv, NEW s \in Sessions, Create(s), UNCHANGED upfVars
  PROVE  TypesInv'
<1> DEFINE ip == IF Static[s] # NoAddress THEN Static[s] ELSE NextAddress(pool)
           n  == NewContext(s, ip, TRUE)
           q  == Start(n, Uplink(s))
           x  == Prepared(q, "dl")
           c  == NextContext
           t  == teids
<1>1. /\ Static[s] # NoAddress \/ HasAddress(pool)
      /\ CreateContext(s, x)
      /\ procs' = procs \cup {[kind |-> "create", ctx |-> c]}
      /\ n4' = n4 \cup {EstRequest(c, x)} /\ UNCHANGED lost
  BY DEF Create, Begin
<1>2. ip \in Addresses
  BY <1>1, FirstAddress
<1>3. c \in Contexts /\ t \in [Upfs -> Nat]
  BY <1>1, NextIsContext
<1> HIDE DEF ip
<1>4. Object(n, t) /\ n.slot = s
  BY <1>2, <1>3, NewObject
<1> HIDE DEF n
<1>5. Step(n, q, t) /\ q.at = Head(Path[s])
  BY <1>4, PathSequences, PositionSteps
<1>6. Object(q, t) /\ q.slot = s
  BY <1>4, <1>5 DEF Step, Evolves
<1> HIDE DEF q
<1>7. Step(q, x, t) /\ x.at = q.at /\ x.edge[q.at]["dl"].pdr # 0
  BY <1>6, PreparedSteps
<1>8. Object(x, t) /\ x.slot = s
  BY <1>6, <1>7 DEF Step, Evolves
<1> HIDE DEF x
<1>9. HopOpen(x.at, x)
  BY <1>5, <1>7, <1>8, EligibleIsOpen DEF HopKnown
<1> HIDE DEF c
<1>10. /\ MessageOK(EstRequest(c, x), x, t)
       /\ EstRequest(c, x).proc = [kind |-> "create", ctx |-> c]
  BY <1>3, <1>7, <1>8, <1>9, CreatingOK DEF EstRequest
<1>11. [kind |-> "create", ctx |-> c] \in {p \in Procs : p.ctx = c}
  BY <1>3 DEF Procs, Kinds
<1>12. \A m \in n4' : m \in n4 \/ (m.proc.ctx = c /\ MessageOK(m, x, t))
  BY <1>1, <1>10
<1> QED
  BY <1>1, <1>8, <1>11, <1>12, CreateKeepsTypes DEF c

LEMMA CreateWithoutTypes ==
  ASSUME TypesInv, AddressInv, NEW s \in Sessions,
         CreateWithoutAddress(s) \/ CreateWithoutUpf(s), UNCHANGED upfVars
  PROVE  TypesInv'
<1>1. \E ip \in Addresses : CreateContext(s, NewContext(s, ip, FALSE))
  <2>1. CASE CreateWithoutAddress(s)
    BY <2>1 DEF CreateWithoutAddress, Addresses
  <2>2. CASE CreateWithoutUpf(s)
    <3> DEFINE ip == IF Static[s] # NoAddress THEN Static[s] ELSE NextAddress(pool)
    <3>1. /\ Static[s] # NoAddress \/ HasAddress(pool)
          /\ CreateContext(s, NewContext(s, ip, FALSE))
      BY <2>2 DEF CreateWithoutUpf
    <3>2. ip \in Addresses
      BY <3>1, FirstAddress
    <3> HIDE DEF ip
    <3> QED
      BY <3>1, <3>2
  <2> QED
    BY <2>1, <2>2
<1>2. UNCHANGED <<procs, n4, lost>>
  BY DEF CreateWithoutAddress, CreateWithoutUpf, channel
<1>3. PICK ip \in Addresses : CreateContext(s, NewContext(s, ip, FALSE))
  BY <1>1
<1>4. teids \in [Upfs -> Nat]
  BY <1>3, NextIsContext
<1>5. Object(NewContext(s, ip, FALSE), teids) /\ NewContext(s, ip, FALSE).slot = s
  BY <1>4, NewObject
<1> QED
  BY <1>2, <1>3, <1>5, CreateKeepsTypes

\* Requests of the AMF for a context that is there.
LEMMA BeginTypes ==
  ASSUME TypesInv, NEW s \in Sessions, Current(s), NEW k \in Kinds, NEW m, NEW y,
         BeginUpdate(s, k, y, m), UNCHANGED upfVars, ran' \in [Sessions -> Steps],
         Step(ctx[cur[s]], y, teids), MessageOK(m, y, teids), m.proc.ctx = cur[s]
  PROVE  TypesInv'
<1>1. cur[s] \in DOMAIN ctx /\ cur[s] \in Contexts
  <2>1. cur[s] \in DOMAIN ctx
    BY DEF Current, TypesInv, SmfTypes
  <2>2. DOMAIN ctx = 1 .. Len(ctx) /\ Len(ctx) \in Nat /\ Len(ctx) <= MaxContexts /\ MaxContexts \in Nat
    BY LenProperties, BoundsAssumption DEF TypesInv, SmfTypes
  <2> QED
    BY <2>1, <2>2 DEF Contexts
<1>2. /\ ctx' = [ctx EXCEPT ![cur[s]] = y] /\ UNCHANGED <<cur, lost>>
      /\ procs' = procs \cup {[kind |-> k, ctx |-> cur[s]]}
      /\ n4' = n4 \cup {m}
      /\ asked < MaxAsked /\ asked' = asked + 1
  BY DEF BeginUpdate, Begin, Ask
<1>3. asked' \in 0 .. MaxAsked
  BY <1>2, BoundsAssumption DEF TypesInv, SmfTypes
<1>4. procs' \subseteq procs \cup {p \in Procs : p.ctx = cur[s]}
  BY <1>1, <1>2 DEF Procs
<1>5. \A o \in n4' : o \in n4 \/ (o.proc.ctx = cur[s] /\ MessageOK(o, y, teids))
  BY <1>2
<1> QED
  BY <1>1, <1>2, <1>3, <1>4, <1>5, UpdateKeepsTypes

\* The context a request of the AMF is about, and the start of its traversal.
LEMMA CurrentObject ==
  ASSUME TypesInv, NEW s \in Sessions, Current(s)
  PROVE  /\ Object(ctx[cur[s]], teids) /\ ctx[cur[s]] \in Objects /\ teids \in [Upfs -> Nat]
         /\ ctx[cur[s]].slot = s
<1>1. cur[s] \in DOMAIN ctx
  BY DEF Current, TypesInv, SmfTypes
<1> QED
  BY <1>1 DEF Current, TypesInv, SmfTypes, UpfTypes, Object

\* The downlink traversal of a session starts at the gNB's side.
LEMMA SlotOfCurrent ==
  ASSUME NEW x, NEW t, Object(x, t), NEW s \in Sessions, x.slot = s
  PROVE  /\ Step(x, Start(x, Downlink(s)), t)
         /\ Start(x, Downlink(s)).at = Access(s) /\ Start(x, Downlink(s)).slot = s
<1>1. Downlink(s) \in Seq(UpfsOf(x.slot)) /\ Downlink(s) # <<>> /\ Head(Downlink(s)) = Access(s)
  BY PathSequences
<1>2. Step(x, Start(x, Downlink(s)), t) /\ Start(x, Downlink(s)).at = Access(s)
  BY <1>1, PositionSteps
<1> QED
  BY <1>2 DEF Step, Evolves

LEMMA SetupTypes ==
  ASSUME TypesInv, NEW s \in Sessions, SetupResponse(s), UNCHANGED upfVars
  PROVE  TypesInv'
<1> DEFINE c == cur[s]
           k == IF ctx[c].cnx = "ACTIVATING" THEN "resume" ELSE "setup"
           q == Start(ctx[c], Downlink(s))
           x == Prepared(q, "ul")
<1>1. Current(s) /\ ran' = [ran EXCEPT ![s] = "up"] /\ BeginUpdate(s, k, x, ModRequest(k, c, x))
  BY DEF SetupResponse
<1>2. Object(ctx[c], teids) /\ teids \in [Upfs -> Nat] /\ Step(ctx[c], q, teids)
  BY <1>1, CurrentObject, SlotOfCurrent
<1>3. Object(q, teids)
  BY <1>2 DEF Step
<1> HIDE DEF q
<1>4. Step(q, x, teids) /\ x.at = q.at /\ x.edge[q.at]["ul"].pdr # 0
  BY <1>3, PreparedSteps
<1> HIDE DEF x
<1>5. Step(ctx[c], x, teids) /\ Object(x, teids)
  BY <1>2, <1>4, StepTransitive DEF Step
<1>6. MessageOK(ModRequest(k, c, x), x, teids) /\ ModRequest(k, c, x).proc = [kind |-> k, ctx |-> c]
  BY <1>2, <1>4, <1>5, CreatingOK DEF ModRequest
<1>7. k \in Kinds /\ ran' \in [Sessions -> Steps]
  BY <1>1 DEF Kinds, Steps, TypesInv, SmfTypes
<1> HIDE DEF k
<1>8. ModRequest(k, c, x).proc.ctx = c
  BY <1>6
<1> QED
  BY <1>1, <1>5, <1>6, <1>7, <1>8, BeginTypes

LEMMA IdleTypes ==
  ASSUME TypesInv, NEW s \in Sessions, AnRelease(s), UNCHANGED upfVars
  PROVE  TypesInv'
<1> DEFINE c == cur[s]
           p == [ctx[c] EXCEPT !.cnx = "DEACTIVATED"]
           x == Start(p, Downlink(s))
           v == ClearEdge(x, x.at, "ul")
           w == ClearEdge(v, x.at, "dl")
<1>1. Current(s) /\ ran' = [ran EXCEPT ![s] = "idle"] /\ BeginUpdate(s, "idle", w, IdleRequest(c, x))
  BY DEF AnRelease
<1>2. Object(ctx[c], teids) /\ teids \in [Upfs -> Nat] /\ ctx[c].slot = s
  BY <1>1, CurrentObject
<1>3. Step(ctx[c], p, teids)
  BY <1>2, FieldSteps
<1>4. Object(p, teids) /\ p.slot = s
  BY <1>2, <1>3 DEF Step, Evolves
<1> HIDE DEF p
<1>5. Step(p, x, teids) /\ x.at = Access(s) /\ x.slot = s
  BY <1>4, SlotOfCurrent
<1>6. Object(x, teids)
  BY <1>5 DEF Step
<1> HIDE DEF x
<1>7. Step(x, v, teids) /\ v.at = x.at /\ v.slot = s
  BY <1>2, <1>5, <1>6, ClearSteps
<1>8. Object(v, teids)
  BY <1>7 DEF Step
<1> HIDE DEF v
<1>9. Step(v, w, teids) /\ w.at = x.at
  BY <1>2, <1>5, <1>7, <1>8, ClearSteps
<1> HIDE DEF w
<1>10. Step(ctx[c], w, teids) /\ Object(w, teids)
  <2>1. Step(p, v, teids)
    BY <1>4, <1>5, <1>7, StepTransitive
  <2>2. Step(p, w, teids)
    BY <1>4, <1>9, <2>1, StepTransitive
  <2> QED
    BY <1>2, <1>3, <2>2, StepTransitive DEF Step
<1>11. MessageOK(IdleRequest(c, x), w, teids) /\ IdleRequest(c, x).proc = [kind |-> "idle", ctx |-> c]
  BY <1>9, <1>10, BareOK DEF IdleRequest
<1>12. "idle" \in Kinds /\ ran' \in [Sessions -> Steps]
  BY <1>1 DEF Kinds, Steps, TypesInv, SmfTypes
<1>13. IdleRequest(c, x).proc.ctx = c
  BY <1>11
<1> QED
  BY <1>1, <1>10, <1>11, <1>12, <1>13, BeginTypes

LEMMA ServiceTypes ==
  ASSUME TypesInv, NEW s \in Sessions, ServiceRequested(s), UNCHANGED upfVars
  PROVE  TypesInv'
<1> DEFINE c == cur[s]
           p == [ctx[c] EXCEPT !.cnx = "ACTIVATING"]
           q == Start(p, Downlink(s))
           v == Raised(q)
           x == Prepared(v, "dl")
<1>1. Current(s) /\ ran' = [ran EXCEPT ![s] = "none"] /\ BeginUpdate(s, "service", x, ServiceRequest(c, x))
  BY DEF ServiceRequested
<1>2. Object(ctx[c], teids) /\ teids \in [Upfs -> Nat] /\ ctx[c].slot = s
  BY <1>1, CurrentObject
<1>3. Step(ctx[c], p, teids)
  BY <1>2, FieldSteps
<1>4. Object(p, teids) /\ p.slot = s
  BY <1>2, <1>3 DEF Step, Evolves
<1> HIDE DEF p
<1>5. Step(p, q, teids)
  BY <1>4, SlotOfCurrent
<1>6. Object(q, teids)
  BY <1>5 DEF Step
<1> HIDE DEF q
<1>7. Step(q, v, teids)
  BY <1>6, RaisedSteps
<1>8. Object(v, teids)
  BY <1>7 DEF Step
<1> HIDE DEF v
<1>9. Step(v, x, teids) /\ x.at = v.at /\ x.edge[v.at]["dl"].pdr # 0
  BY <1>8, PreparedSteps
<1> HIDE DEF x
<1>10. Step(ctx[c], x, teids) /\ Object(x, teids)
  <2>1. Step(p, v, teids)
    BY <1>4, <1>5, <1>7, StepTransitive
  <2>2. Step(p, x, teids)
    BY <1>4, <1>9, <2>1, StepTransitive
  <2> QED
    BY <1>2, <1>3, <2>2, StepTransitive DEF Step
<1>11. /\ MessageOK(ServiceRequest(c, x), x, teids)
       /\ ServiceRequest(c, x).proc = [kind |-> "service", ctx |-> c]
  BY <1>2, <1>9, <1>10, CreatingOK DEF ServiceRequest
<1>12. "service" \in Kinds /\ ran' \in [Sessions -> Steps]
  BY <1>1 DEF Kinds, Steps, TypesInv, SmfTypes
<1>13. ServiceRequest(c, x).proc.ctx = c
  BY <1>11
<1> QED
  BY <1>1, <1>10, <1>11, <1>12, <1>13, BeginTypes

LEMMA ReleaseTypes ==
  ASSUME TypesInv, NEW s \in Sessions, Release(s), UNCHANGED upfVars
  PROVE  TypesInv'
<1> DEFINE c == cur[s]
           x == Start(ctx[c], Downlink(s))
<1>1. Current(s) /\ ran' = ran /\ BeginUpdate(s, "release", x, DelRequest(c, x))
  BY DEF Release
<1>2. Object(ctx[c], teids) /\ Step(ctx[c], x, teids)
  BY <1>1, CurrentObject, SlotOfCurrent
<1>3. Object(x, teids)
  BY <1>2 DEF Step
<1> HIDE DEF x
<1>4. MessageOK(DelRequest(c, x), x, teids) /\ DelRequest(c, x).proc = [kind |-> "release", ctx |-> c]
  BY <1>3, BareOK DEF DelRequest
<1>5. "release" \in Kinds /\ ran' \in [Sessions -> Steps]
  BY <1>1 DEF Kinds, TypesInv, SmfTypes
<1>6. DelRequest(c, x).proc.ctx = c
  BY <1>4
<1> QED
  BY <1>1, <1>2, <1>4, <1>5, <1>6, BeginTypes


\* Answers that go on with a procedure, or end it.
LEMMA AnswerTypes ==
  ASSUME TypesInv, NEW m \in n4, Dispatched(m), NEW y, Step(ctx[m.proc.ctx], y, teids),
         UNCHANGED upfVars,
         \/ /\ Finish(m, y) /\ ran' \in [Sessions -> Steps]
         \/ \E r : Continue(m, y, r) /\ r.proc.ctx = m.proc.ctx /\ MessageOK(r, y, teids)
  PROVE  TypesInv'
<1> DEFINE c == m.proc.ctx
<1>1. c \in DOMAIN ctx
  BY DEF Dispatched, TypesInv, SmfTypes
<1>2. /\ ctx' = [ctx EXCEPT ![c] = y] /\ UNCHANGED <<cur, asked, lost>>
      /\ procs' \subseteq procs /\ ran' \in [Sessions -> Steps]
  BY DEF Finish, Continue, TypesInv, SmfTypes
<1>3. \A o \in n4' : o \in n4 \/ (o.proc.ctx = c /\ MessageOK(o, y, teids))
  BY DEF Finish, Continue
<1>4. asked' \in 0 .. MaxAsked
  BY <1>2 DEF TypesInv, SmfTypes
<1> QED
  BY <1>1, <1>2, <1>3, <1>4, UpdateKeepsTypes

LEMMA AnsweredObject ==
  ASSUME TypesInv, NEW m \in n4, Dispatched(m), m.to = "smf"
  PROVE  /\ Object(ctx[m.proc.ctx], teids) /\ teids \in [Upfs -> Nat]
         /\ AnswerOK(m, ctx[m.proc.ctx], teids)
<1>1. m.proc.ctx \in DOMAIN ctx
  BY DEF Dispatched, TypesInv, SmfTypes
<1> QED
  BY <1>1 DEF TypesInv, SmfTypes, UpfTypes, MessageTypes, MessageOK

LEMMA LastOfTodo ==
  ASSUME NEW x, NEW t, Object(x, t)
  PROVE  /\ x.todo # <<>> => Len(x.todo) \in DOMAIN x.todo
         /\ DOMAIN x.todo = 1 .. Len(x.todo)
<1>1. x.todo \in Seq(Upfs)
  BY DEF Object, Objects
<1> QED
  BY <1>1, LenProperties, EmptySeq

LEMMA EstAcceptedTypes ==
  ASSUME TypesInv, NEW m \in n4, EstAccepted(m), UNCHANGED upfVars
  PROVE  TypesInv'
<1> DEFINE c == m.proc.ctx
           p == [ctx[c] EXCEPT !.upSeid = m.seid]
           x == Tunnelled(p, m)
<1>1. m.to = "smf" /\ Dispatched(m)
  BY DEF EstAccepted
<1>2. Object(ctx[c], teids) /\ teids \in [Upfs -> Nat] /\ AnswerOK(m, ctx[c], teids)
  BY <1>1, AnsweredObject
<1>3. Step(ctx[c], p, teids)
  BY <1>2, FieldSteps DEF AnswerOK
<1>4. Object(p, teids) /\ AnswerOK(m, p, teids)
  BY <1>1, <1>2, <1>3, MessageKept DEF Step, MessageOK
<1>5. \/ \E i \in Eligible(x) :
           LET y == Prepared(Goto(x, i), "dl") IN Continue(m, y, EstRequest(c, y))
      \/ /\ Finish(m, IF x.todo = <<>> THEN x ELSE Goto(x, Len(x.todo)))
         /\ ran' = [ran EXCEPT ![x.slot] = "setup"]
  BY DEF EstAccepted
<1> HIDE DEF p
<1>6. Step(p, x, teids)
  BY <1>2, <1>4, TunnelledSteps
<1> HIDE DEF x
<1>7. Step(ctx[c], x, teids) /\ Object(x, teids)
  BY <1>2, <1>3, <1>6, StepTransitive DEF Step
<1>8. CASE \E i \in Eligible(x) :
             LET y == Prepared(Goto(x, i), "dl") IN Continue(m, y, EstRequest(c, y))
  <2>1. PICK i \in Eligible(x) :
               LET y == Prepared(Goto(x, i), "dl") IN Continue(m, y, EstRequest(c, y))
    BY <1>8
  <2> DEFINE w == Goto(x, i)
             y == Prepared(w, "dl")
  <2>2. Continue(m, y, EstRequest(c, y))
    BY <2>1
  <2>3. i \in DOMAIN x.todo /\ HopKnown(x, x.todo[i])
    BY <2>1 DEF Eligible
  <2>4. Step(x, w, teids) /\ w.at = x.todo[i]
    BY <1>7, <2>3, PositionSteps
  <2>5. Object(w, teids)
    BY <2>4 DEF Step
  <2> HIDE DEF w
  <2>6. Step(w, y, teids) /\ y.at = w.at /\ y.edge[w.at]["dl"].pdr # 0
    BY <2>5, PreparedSteps
  <2> HIDE DEF y
  <2>7. Step(x, y, teids) /\ Object(y, teids)
    BY <1>7, <2>4, <2>6, StepTransitive DEF Step
  <2>8. HopOpen(y.at, y)
    <3>1. HopOpen(x.todo[i], x)
      BY <1>7, <2>3, EligibleIsOpen
    <3> QED
      BY <1>7, <2>4, <2>6, <2>7, <3>1, HopStillOpen DEF Step, Object
  <2>9. /\ MessageOK(EstRequest(c, y), y, teids)
        /\ EstRequest(c, y).proc = [kind |-> "create", ctx |-> c]
    BY <1>2, <2>6, <2>7, <2>8, CreatingOK DEF EstRequest
  <2>10. EstRequest(c, y).proc.ctx = c
    BY <2>9
  <2>11. Step(ctx[c], y, teids)
    BY <1>2, <1>7, <2>7, StepTransitive
  <2>12. \E r : Continue(m, y, r) /\ r.proc.ctx = c /\ MessageOK(r, y, teids)
    BY <2>2, <2>9, <2>10
  <2> QED
    BY <1>1, <2>11, <2>12, AnswerTypes
<1>9. CASE /\ Finish(m, IF x.todo = <<>> THEN x ELSE Goto(x, Len(x.todo)))
           /\ ran' = [ran EXCEPT ![x.slot] = "setup"]
  <2>1. ran' \in [Sessions -> Steps]
    BY <1>9 DEF TypesInv, SmfTypes, Steps
  <2>2. CASE x.todo = <<>>
    BY <1>1, <1>7, <1>9, <2>1, <2>2, AnswerTypes
  <2>3. CASE x.todo # <<>>
    <3>1. Step(x, Goto(x, Len(x.todo)), teids)
      BY <1>7, <2>3, LastOfTodo, PositionSteps
    <3>2. Step(ctx[c], Goto(x, Len(x.todo)), teids)
      BY <1>2, <1>7, <3>1, StepTransitive
    <3> QED
      BY <1>1, <1>9, <2>1, <2>3, <3>2, AnswerTypes
  <2> QED
    BY <2>2, <2>3
<1> QED
  BY <1>5, <1>8, <1>9

LEMMA EstRejectedTypes ==
  ASSUME TypesInv, NEW m \in n4, EstRejected(m), UNCHANGED upfVars
  PROVE  TypesInv'
<1>1. m.to = "smf" /\ Dispatched(m) /\ Finish(m, ctx[m.proc.ctx]) /\ ran' = ran
  BY DEF EstRejected
<1>2. Object(ctx[m.proc.ctx], teids)
  BY <1>1, AnsweredObject
<1>3. Step(ctx[m.proc.ctx], ctx[m.proc.ctx], teids)
  BY <1>2, Stays
<1>4. ran' \in [Sessions -> Steps]
  BY <1>1 DEF TypesInv, SmfTypes
<1> QED
  BY <1>1, <1>3, <1>4, AnswerTypes

LEMMA ModTypes ==
  ASSUME TypesInv, NEW m \in n4, ModAnswered(m), UNCHANGED upfVars
  PROVE  TypesInv'
<1> DEFINE c == m.proc.ctx
           k == m.proc.kind
           x == ctx[c]
           a == Advance(x)
           y == Prepared(a, "ul")
           u == Tunnelled(x, m)
<1>1. m.to = "smf" /\ Dispatched(m)
  BY DEF ModAnswered
<1>2. Object(x, teids) /\ teids \in [Upfs -> Nat] /\ AnswerOK(m, x, teids)
  BY <1>1, AnsweredObject
<1>3. \/ x.todo # <<>> /\ Continue(m, y, ModRequest(k, c, y))
      \/ /\ \/ Finish(m, x) \/ \E v \in {"ACTIVATED", "DEACTIVATED"} : Finish(m, [x EXCEPT !.cnx = v])
            \/ Finish(m, u) \/ Finish(m, [u EXCEPT !.cnx = "ACTIVATING"])
         /\ ran' = ran \/ ran' = [ran EXCEPT ![x.slot] = "setup"]
  BY DEF ModAnswered
<1>4. CASE x.todo # <<>> /\ Continue(m, y, ModRequest(k, c, y))
  <2>1. Step(x, a, teids)
    BY <1>2, <1>4, PositionSteps
  <2>2. Object(a, teids)
    BY <2>1 DEF Step
  <2> HIDE DEF a
  <2>3. Step(a, y, teids) /\ y.at = a.at /\ y.edge[a.at]["ul"].pdr # 0
    BY <2>2, PreparedSteps
  <2> HIDE DEF y
  <2>4. Step(x, y, teids) /\ Object(y, teids)
    BY <1>2, <2>1, <2>3, StepTransitive DEF Step
  <2>5. MessageOK(ModRequest(k, c, y), y, teids) /\ ModRequest(k, c, y).proc = [kind |-> k, ctx |-> c]
    BY <1>2, <2>3, <2>4, CreatingOK DEF ModRequest
  <2>6. ModRequest(k, c, y).proc.ctx = c
    BY <2>5
  <2>7. \E r : Continue(m, y, r) /\ r.proc.ctx = c /\ MessageOK(r, y, teids)
    BY <1>4, <2>5, <2>6
  <2> QED
    BY <1>1, <2>4, <2>7, AnswerTypes
<1> HIDE DEF y
<1>5. CASE /\ \/ Finish(m, x)
              \/ \E v \in {"ACTIVATED", "DEACTIVATED"} : Finish(m, [x EXCEPT !.cnx = v])
              \/ Finish(m, u) \/ Finish(m, [u EXCEPT !.cnx = "ACTIVATING"])
           /\ ran' = ran \/ ran' = [ran EXCEPT ![x.slot] = "setup"]
  <2>1. ran' \in [Sessions -> Steps]
    BY <1>5 DEF TypesInv, SmfTypes, Steps
  <2>2. Step(x, x, teids) /\ \A v \in {"ACTIVATED", "DEACTIVATED"} : Step(x, [x EXCEPT !.cnx = v], teids)
    BY <1>2, Stays, FieldSteps
  <2>3. Step(x, u, teids)
    BY <1>2, TunnelledSteps
  <2> HIDE DEF u
  <2>4. Step(x, [u EXCEPT !.cnx = "ACTIVATING"], teids)
    <3>1. Object(u, teids)
      BY <2>3 DEF Step
    <3>2. Step(u, [u EXCEPT !.cnx = "ACTIVATING"], teids)
      BY <3>1, FieldSteps
    <3> QED
      BY <1>2, <2>3, <3>2, StepTransitive
  <2>5. \E z : Finish(m, z) /\ Step(x, z, teids)
    BY <1>5, <2>2, <2>3, <2>4
  <2> QED
    BY <1>1, <2>1, <2>5, AnswerTypes
<1> QED
  BY <1>3, <1>4, <1>5

LEMMA DelTypes ==
  ASSUME TypesInv, NEW m \in n4, DelAnswered(m), UNCHANGED upfVars
  PROVE  TypesInv'
<1> DEFINE c == m.proc.ctx
           x == ctx[c]
           y == Advance(x)
<1>1. m.to = "smf" /\ Dispatched(m)
  BY DEF DelAnswered
<1>2. Object(x, teids) /\ teids \in [Upfs -> Nat]
  BY <1>1, AnsweredObject
<1>3. CASE x.todo # <<>> /\ Continue(m, y, DelRequest(c, y))
  <2>1. Step(x, y, teids)
    BY <1>2, <1>3, PositionSteps
  <2>2. Object(y, teids)
    BY <2>1 DEF Step
  <2> HIDE DEF y
  <2>3. MessageOK(DelRequest(c, y), y, teids) /\ DelRequest(c, y).proc = [kind |-> "release", ctx |-> c]
    BY <2>2, BareOK DEF DelRequest
  <2>4. DelRequest(c, y).proc.ctx = c
    BY <2>3
  <2>5. \E r : Continue(m, y, r) /\ r.proc.ctx = c /\ MessageOK(r, y, teids)
    BY <1>3, <2>3, <2>4
  <2> QED
    BY <1>1, <2>1, <2>5, AnswerTypes
<1>4. CASE Finish(m, Deallocated(x)) /\ ran' = ran
  <2>1. Step(x, Deallocated(x), teids)
    BY <1>2, DeallocatedSteps
  <2>2. ran' \in [Sessions -> Steps]
    BY <1>4 DEF TypesInv, SmfTypes
  <2> QED
    BY <1>1, <1>4, <2>1, <2>2, AnswerTypes
<1> QED
  BY <1>3, <1>4 DEF DelAnswered

LEMMA DiscardTypes ==
  ASSUME TypesInv, UNCHANGED <<smfVars, upfVars>>, n4' \subseteq n4, lost' \in 0 .. MaxLost
  PROVE  TypesInv'
<1>1. SmfTypes'
  BY DEF TypesInv, SmfTypes, smfVars, upfVars
<1>2. UpfTypes'
  BY DEF TypesInv, UpfTypes, smfVars, upfVars
<1>3. MessageTypes'
  BY DEF TypesInv, MessageTypes, smfVars, upfVars
<1> QED
  BY <1>1, <1>2, <1>3 DEF TypesInv

\* What a UPF does: it answers, and its counters and tables are as they should be.
LEMMA AnswerKeepsTypes ==
  ASSUME TypesInv, NEW u \in Upfs, NEW m \in n4, m.to = u, NEW cause, NEW hdr, NEW up \in Nat, NEW R,
         UNCHANGED <<smfVars, lost>>, UpfTypes', \A v \in Upfs : teids[v] <= teids'[v],
         Answer(m, cause, hdr, up, R),
         \A r \in R : r.dir = "ul" => r.key \in 1 .. teids'[u] /\ Belongs(r.id, u, ctx[m.proc.ctx])
  PROVE  TypesInv'
<1> DEFINE a == [to |-> "smf", from |-> m.to, type |-> m.type, proc |-> m.proc,
                 cause |-> cause, hdr |-> hdr, seid |-> up,
                 tunnels |-> {[pdr |-> r.id, teid |-> r.key] : r \in {x \in R : x.dir = "ul"}}]
<1>1. n4' = (n4 \ {m}) \cup {a} /\ UNCHANGED <<ctx, cur, ran, procs, asked, lost>>
  BY DEF Answer, smfVars
<1>2. teids \in [Upfs -> Nat] /\ teids' \in [Upfs -> Nat]
  BY DEF TypesInv, UpfTypes
<1>3. \A c \in DOMAIN ctx : /\ Object(ctx[c], teids')
                            /\ \A o : MessageOK(o, ctx[c], teids) => MessageOK(o, ctx[c], teids')
  <2>1. ASSUME NEW c \in DOMAIN ctx
        PROVE  /\ Object(ctx[c], teids')
               /\ \A o : MessageOK(o, ctx[c], teids) => MessageOK(o, ctx[c], teids')
    <3>1. Object(ctx[c], teids)
      BY DEF TypesInv, SmfTypes
    <3> QED
      BY <1>2, <3>1, MoreTunnels
  <2> QED
    BY <2>1
<1>4. SmfTypes'
  BY <1>1, <1>3 DEF TypesInv, SmfTypes
<1>5. m.proc.ctx \in DOMAIN ctx /\ RequestOK(m, ctx[m.proc.ctx], teids)
  BY NamesAssumption DEF TypesInv, MessageTypes, MessageOK
<1>6. MessageOK(a, ctx[m.proc.ctx], teids')
  <2>1. a.to = "smf" /\ a.from = u /\ a.seid = up
    OBVIOUS
  <2>2. \A y \in a.tunnels : \E r \in R : r.dir = "ul" /\ y.teid = r.key /\ y.pdr = r.id
    OBVIOUS
  <2> HIDE DEF a
  <2>3. \A y \in a.tunnels : y.teid \in 1 .. teids'[u] /\ Belongs(y.pdr, u, ctx[m.proc.ctx])
    BY <2>2
  <2> QED
    BY <1>5, <2>1, <2>3 DEF MessageOK, AnswerOK, RequestOK
<1>7. a.proc = m.proc
  OBVIOUS
<1> HIDE DEF a
<1>8. MessageTypes'
  BY <1>1, <1>3, <1>5, <1>6, <1>7 DEF TypesInv, MessageTypes
<1> QED
  BY <1>4, <1>8 DEF TypesInv

\* The rule a UPF creates, and its tables with it.
LEMMA CreateRuleTypes ==
  ASSUME UpfTypes, NEW u \in Upfs, NEW x, NEW p, PdrOK(p, u, x, teids), Creatable(p), NEW up,
         NEW r, r = Rule(u, p, up), CreateRule(u, p, r)
  PROVE  /\ teids' \in [Upfs -> Nat] /\ \A v \in Upfs : teids[v] <= teids'[v]
         /\ DOMAIN ulPdrs' = Upfs /\ DOMAIN dlPdrs' = Upfs
         /\ \A v \in Upfs : /\ TableOK(ulPdrs'[v], 1 .. teids'[v])
                            /\ TableOK(dlPdrs'[v], Addresses \ {NoAddress})
         /\ r.dir = "ul" => r.key \in 1 .. teids'[u] /\ Belongs(r.id, u, x)
         /\ r.dir = p.dir /\ r.up = up /\ (p.dir = "dl" => r.key = p.key)
<1>1. teids \in [Upfs -> Nat] /\ DOMAIN ulPdrs = Upfs /\ DOMAIN dlPdrs = Upfs
  BY DEF UpfTypes
<1>2. /\ r.id = p.id /\ r.dir = p.dir /\ r.up = up
      /\ r.key = IF Chooses(p) THEN teids[u] + 1 ELSE p.key
  BY DEF Rule
<1>3. /\ teids' = [teids EXCEPT ![u] = IF Chooses(p) THEN @ + 1 ELSE @]
      /\ ulPdrs' = [ulPdrs EXCEPT ![u] = IF p.dir = "ul" THEN AddRule(@, r) ELSE @]
      /\ dlPdrs' = [dlPdrs EXCEPT ![u] = IF p.dir = "dl" THEN AddRule(@, r) ELSE @]
  BY DEF CreateRule
<1>4. /\ teids' \in [Upfs -> Nat] /\ \A v \in Upfs : teids[v] <= teids'[v]
      /\ \A v \in Upfs \ {u} : teids'[v] = teids[v]
      /\ teids'[u] = IF Chooses(p) THEN teids[u] + 1 ELSE teids[u]
  BY <1>1, <1>3
<1>5. p.dir = "ul" => r.key \in 1 .. teids'[u] /\ Belongs(r.id, u, x)
  BY <1>1, <1>2, <1>4 DEF PdrOK, Chooses
<1>6. p.dir = "dl" => r.key = p.key /\ r.key \in Addresses \ {NoAddress}
  BY <1>2 DEF PdrOK, Chooses, Creatable
<1>7. \A v \in Upfs : TableOK(ulPdrs[v], 1 .. teids'[v]) /\ TableOK(dlPdrs[v], Addresses \ {NoAddress})
  <2>1. \A v \in Upfs : 1 .. teids[v] \subseteq 1 .. teids'[v]
    BY <1>1, <1>4
  <2> QED
    BY <2>1 DEF UpfTypes, TableOK
<1>8. ASSUME NEW v \in Upfs
      PROVE  TableOK(ulPdrs'[v], 1 .. teids'[v]) /\ TableOK(dlPdrs'[v], Addresses \ {NoAddress})
  <2>1. CASE v # u
    BY <1>1, <1>3, <1>7, <2>1
  <2>2. CASE v = u
    <3>1. p.dir = "ul" => TableOK(AddRule(ulPdrs[u], r), 1 .. teids'[u])
      BY <1>5, <1>7, AddRuleOK
    <3>2. p.dir = "dl" => TableOK(AddRule(dlPdrs[u], r), Addresses \ {NoAddress})
      BY <1>6, <1>7, AddRuleOK
    <3>3. /\ ulPdrs'[u] = IF p.dir = "ul" THEN AddRule(ulPdrs[u], r) ELSE ulPdrs[u]
          /\ dlPdrs'[u] = IF p.dir = "dl" THEN AddRule(dlPdrs[u], r) ELSE dlPdrs[u]
      BY <1>1, <1>3
    <3> QED
      BY <1>7, <2>2, <3>1, <3>2, <3>3
  <2> QED
    BY <2>1, <2>2
<1>9. DOMAIN ulPdrs' = Upfs /\ DOMAIN dlPdrs' = Upfs
  BY <1>1, <1>3
<1> QED
  BY <1>2, <1>4, <1>5, <1>6, <1>8, <1>9


LEMMA ErasedTable ==
  ASSUME NEW K, NEW f, TableOK(f, K), NEW E
  PROVE  TableOK(Erase(f, E), K)
  BY DEF TableOK, Erase

LEMMA EstablishTypes ==
  ASSUME TypesInv, SwitchInv, NEW u \in Upfs, NEW m \in n4, Establish(u, m), UNCHANGED smfVars
  PROVE  TypesInv'
<1> DEFINE p  == m.pdrs[1]
           up == NextSeid(u)
           r  == Rule(u, p, up)
<1>1. /\ m.type = "est" /\ m.to = u /\ CreateRule(u, p, r)
      /\ cpMap' = [cpMap EXCEPT ![u] = Put(@, m.cp, up)]
      /\ smf' = [smf EXCEPT ![u].sessions = IF smf[u].up THEN @ \cup {m.cp} ELSE @]
      /\ Answer(m, "accepted", m.cp, up, {r})
      /\ UNCHANGED <<lost, failures>>
  BY DEF Establish
<1>2. up \in Nat
  BY DEF NextSeid, SwitchInv, SeidsCount
<1> HIDE DEF up
<1> DEFINE x == ctx[m.proc.ctx]
<1>3. m.proc.ctx \in DOMAIN ctx /\ RequestOK(m, x, teids)
  BY <1>1, NamesAssumption DEF TypesInv, MessageTypes, MessageOK
<1>4. PdrOK(p, u, x, teids) /\ p.dir = "ul" /\ m.cp \in DOMAIN ctx
  BY <1>1, <1>3 DEF RequestOK
<1> HIDE DEF x, p
<1>5. Creatable(p)
  BY <1>4 DEF Creatable
<1>6. UpfTypes /\ ctx' = ctx
  BY DEF TypesInv, smfVars
<1> DEFINE q == r
<1>7. /\ q = Rule(u, p, up) /\ CreateRule(u, p, q)
      /\ Answer(m, "accepted", m.cp, up, {q})
  BY <1>1
<1> HIDE DEF q
<1>8. /\ teids' \in [Upfs -> Nat] /\ \A v \in Upfs : teids[v] <= teids'[v]
      /\ DOMAIN ulPdrs' = Upfs /\ DOMAIN dlPdrs' = Upfs
      /\ \A v \in Upfs : /\ TableOK(ulPdrs'[v], 1 .. teids'[v])
                         /\ TableOK(dlPdrs'[v], Addresses \ {NoAddress})
      /\ q.dir = "ul" => q.key \in 1 .. teids'[u] /\ Belongs(q.id, u, x)
  BY <1>4, <1>5, <1>6, <1>7, CreateRuleTypes
<1>9. DOMAIN cpMap' = Upfs /\ \A v \in Upfs : DOMAIN cpMap'[v] \subseteq DOMAIN ctx
  BY <1>1, <1>4, <1>6 DEF UpfTypes, Put
<1>10. smf' \in [Upfs -> [up : BOOLEAN, sessions : SUBSET DOMAIN ctx]]
  BY <1>1, <1>4, <1>6 DEF UpfTypes
<1>11. UpfTypes'
  BY <1>1, <1>6, <1>8, <1>9, <1>10 DEF UpfTypes
<1>12. \A y \in {q} : y.dir = "ul" => y.key \in 1 .. teids'[u] /\ Belongs(y.id, u, ctx[m.proc.ctx])
  BY <1>8 DEF x
<1>13. UNCHANGED <<smfVars, lost>>
  BY <1>1
<1> QED
  BY <1>1, <1>2, <1>7, <1>8, <1>11, <1>12, <1>13, AnswerKeepsTypes

LEMMA ModifyTypes ==
  ASSUME TypesInv, NEW u \in Upfs, NEW m \in n4, Modify(u, m), UNCHANGED smfVars
  PROVE  TypesInv'
<1> DEFINE p == m.pdrs[1]
           x == ctx[m.proc.ctx]
<1>1. /\ m.to = u /\ UNCHANGED <<cpMap, smf, lost, failures>>
      /\ \E cause, hdr :
           \/ /\ UNCHANGED <<teids, ulPdrs, dlPdrs>> /\ Answer(m, cause, hdr, 0, {})
           \/ \E r : /\ m.pdrs # <<>> /\ Creatable(p) /\ r = Rule(u, p, m.seid)
                     /\ CreateRule(u, p, r) /\ Answer(m, cause, hdr, 0, {r})
  BY DEF Modify
<1>2. m.proc.ctx \in DOMAIN ctx /\ RequestOK(m, x, teids)
  BY <1>1, NamesAssumption DEF TypesInv, MessageTypes, MessageOK
<1>3. m.pdrs # <<>> => PdrOK(p, u, x, teids)
  BY <1>1, <1>2 DEF RequestOK
<1> HIDE DEF x, p
<1>4. UpfTypes /\ ctx' = ctx
  BY DEF TypesInv, smfVars
<1>5. UNCHANGED <<smfVars, lost>>
  BY <1>1
<1>6. PICK cause, hdr :
           \/ /\ UNCHANGED <<teids, ulPdrs, dlPdrs>> /\ Answer(m, cause, hdr, 0, {})
           \/ \E r : /\ m.pdrs # <<>> /\ Creatable(p) /\ r = Rule(u, p, m.seid)
                     /\ CreateRule(u, p, r) /\ Answer(m, cause, hdr, 0, {r})
  BY <1>1
<1>7. CASE UNCHANGED <<teids, ulPdrs, dlPdrs>> /\ Answer(m, cause, hdr, 0, {})
  <2>1. UpfTypes'
    BY <1>1, <1>4, <1>7 DEF UpfTypes
  <2>2. \A v \in Upfs : teids[v] <= teids'[v]
    BY <1>4, <1>7 DEF UpfTypes
  <2> QED
    BY <1>1, <1>5, <1>7, <2>1, <2>2, AnswerKeepsTypes
<1>8. CASE \E r : /\ m.pdrs # <<>> /\ Creatable(p) /\ r = Rule(u, p, m.seid)
                  /\ CreateRule(u, p, r) /\ Answer(m, cause, hdr, 0, {r})
  <2>1. PICK r : /\ m.pdrs # <<>> /\ Creatable(p) /\ r = Rule(u, p, m.seid)
                 /\ CreateRule(u, p, r) /\ Answer(m, cause, hdr, 0, {r})
    BY <1>8
  <2>2. /\ teids' \in [Upfs -> Nat] /\ \A v \in Upfs : teids[v] <= teids'[v]
        /\ DOMAIN ulPdrs' = Upfs /\ DOMAIN dlPdrs' = Upfs
        /\ \A v \in Upfs : /\ TableOK(ulPdrs'[v], 1 .. teids'[v])
                           /\ TableOK(dlPdrs'[v], Addresses \ {NoAddress})
        /\ r.dir = "ul" => r.key \in 1 .. teids'[u] /\ Belongs(r.id, u, x)
    BY <1>3, <1>4, <2>1, CreateRuleTypes
  <2>3. UpfTypes'
    BY <1>1, <1>4, <2>2 DEF UpfTypes
  <2>4. \A y \in {r} : y.dir = "ul" => y.key \in 1 .. teids'[u] /\ Belongs(y.id, u, ctx[m.proc.ctx])
    BY <2>2 DEF x
  <2> QED
    BY <1>1, <1>5, <2>1, <2>2, <2>3, <2>4, AnswerKeepsTypes
<1> QED
  BY <1>6, <1>7, <1>8

LEMMA RemovedTypes ==
  ASSUME UpfTypes, NEW u \in Upfs, NEW U, RemoveSessions(u, U), UNCHANGED <<teids, ctx>>,
         smf' \in [Upfs -> [up : BOOLEAN, sessions : SUBSET DOMAIN ctx]],
         failures' \in 0 .. MaxFailures
  PROVE  UpfTypes'
<1>1. /\ \E E : cpMap' = [cpMap EXCEPT ![u] = Erase(@, E)]
      /\ \E E : ulPdrs' = [ulPdrs EXCEPT ![u] = Erase(@, E)]
      /\ \E E : dlPdrs' = [dlPdrs EXCEPT ![u] = Erase(@, E)]
  BY DEF RemoveSessions
<1>2. DOMAIN cpMap' = Upfs /\ \A v \in Upfs : DOMAIN cpMap'[v] \subseteq DOMAIN ctx
  BY <1>1 DEF UpfTypes, Erase
<1>3. DOMAIN ulPdrs' = Upfs /\ \A v \in Upfs : TableOK(ulPdrs'[v], 1 .. teids[v])
  <2>1. PICK E : ulPdrs' = [ulPdrs EXCEPT ![u] = Erase(@, E)]
    BY <1>1
  <2>2. TableOK(Erase(ulPdrs[u], E), 1 .. teids[u])
    BY ErasedTable DEF UpfTypes
  <2> QED
    BY <2>1, <2>2 DEF UpfTypes
<1>4. DOMAIN dlPdrs' = Upfs /\ \A v \in Upfs : TableOK(dlPdrs'[v], Addresses \ {NoAddress})
  <2>1. PICK E : dlPdrs' = [dlPdrs EXCEPT ![u] = Erase(@, E)]
    BY <1>1
  <2>2. TableOK(Erase(dlPdrs[u], E), Addresses \ {NoAddress})
    BY ErasedTable DEF UpfTypes
  <2> QED
    BY <2>1, <2>2 DEF UpfTypes
<1> QED
  BY <1>2, <1>3, <1>4 DEF UpfTypes

LEMMA OtherAnswers ==
  ASSUME TypesInv, NEW u \in Upfs, NEW m \in n4,
         EstablishAgain(u, m) \/ Delete(u, m) \/ NotFound(u, m), UNCHANGED smfVars
  PROVE  TypesInv'
<1>1. /\ m.to = u /\ UNCHANGED <<lost, teids>>
      /\ \E cause, hdr : Answer(m, cause, hdr, 0, {})
  BY DEF EstablishAgain, Delete, NotFound, upfVars
<1>2. \A v \in Upfs : teids[v] <= teids'[v]
  BY <1>1 DEF TypesInv, UpfTypes
<1>3. UpfTypes'
  <2>1. CASE UNCHANGED upfVars
    BY <2>1 DEF TypesInv, UpfTypes, upfVars, smfVars
  <2>2. CASE Delete(u, m)
    BY <2>2, RemovedTypes DEF Delete, TypesInv, UpfTypes, smfVars
  <2> QED
    BY <2>1, <2>2 DEF EstablishAgain, NotFound
<1> QED
  BY <1>1, <1>2, <1>3, AnswerKeepsTypes

LEMMA HeartbeatTypes ==
  ASSUME TypesInv, NEW u \in Upfs, HeartbeatFailure(u) \/ Associate(u), UNCHANGED smfVars
  PROVE  TypesInv'
<1>1. /\ UNCHANGED <<teids, n4, lost, ctx, cur, procs, ran, asked>>
      /\ \E b \in BOOLEAN : smf' = [smf EXCEPT ![u] = [up |-> b, sessions |-> {}]]
  BY DEF HeartbeatFailure, Associate, smfVars
<1>2. smf' \in [Upfs -> [up : BOOLEAN, sessions : SUBSET DOMAIN ctx]]
  <2>1. PICK b \in BOOLEAN : smf' = [smf EXCEPT ![u] = [up |-> b, sessions |-> {}]]
    BY <1>1
  <2>2. smf \in [Upfs -> [up : BOOLEAN, sessions : SUBSET DOMAIN ctx]]
    BY DEF TypesInv, UpfTypes
  <2>3. [up |-> b, sessions |-> {}] \in [up : BOOLEAN, sessions : SUBSET DOMAIN ctx]
    OBVIOUS
  <2> QED
    BY <2>1, <2>2, <2>3
<1>3. SmfTypes' /\ MessageTypes'
  BY <1>1 DEF TypesInv, SmfTypes, MessageTypes
<1>4. UpfTypes'
  <2>1. CASE HeartbeatFailure(u)
    <3>1. failures < MaxFailures /\ failures' = failures + 1 /\ MaxFailures \in Nat
          /\ failures \in 0 .. MaxFailures
      BY <2>1, BoundsAssumption DEF HeartbeatFailure, TypesInv, UpfTypes
    <3>2. failures' \in 0 .. MaxFailures
      BY <3>1
    <3>3. \E U : RemoveSessions(u, U)
      BY <2>1 DEF HeartbeatFailure
    <3> QED
      BY <1>1, <1>2, <3>2, <3>3, RemovedTypes DEF TypesInv
  <2>2. CASE Associate(u)
    BY <1>1, <1>2, <2>2 DEF Associate, TypesInv, UpfTypes
  <2> QED
    BY <2>1, <2>2
<1> QED
  BY <1>3, <1>4 DEF TypesInv

LEMMA InitTypes == Init => TypesInv
<1> SUFFICES ASSUME Init PROVE TypesInv
  OBVIOUS
<1>1. MaxContexts \in Nat /\ MaxLost \in Nat /\ MaxFailures \in Nat /\ MaxAsked \in Nat
  BY BoundsAssumption
<1>2. SmfTypes
  <2>1. ctx = <<>> /\ cur = [s \in Sessions |-> 0] /\ procs = {} /\ asked = 0
        /\ ran = [s \in Sessions |-> "none"]
    BY DEF Init, SmfInit
  <2>2. ctx \in Seq(Objects) /\ DOMAIN ctx = {} /\ Len(ctx) = 0
    BY <2>1, EmptySeq
  <2> QED
    BY <1>1, <2>1, <2>2 DEF SmfTypes, Steps
<1>3. UpfTypes
  BY <1>1 DEF Init, UpfInit, UpfTypes, EmptyMap, TableOK
<1>4. MessageTypes
  BY <1>1 DEF Init, ChannelInit, MessageTypes
<1> QED
  BY <1>2, <1>3, <1>4 DEF TypesInv

LEMMA NextTypes == TypesInv /\ SwitchInv /\ AddressInv /\ [Next]_vars => TypesInv'
<1> SUFFICES ASSUME TypesInv, SwitchInv, AddressInv, [Next]_vars PROVE TypesInv'
  OBVIOUS
<1>1. CASE \E s \in Sessions : Request(s) /\ UNCHANGED upfVars
  BY <1>1, CreateTypes, CreateWithoutTypes, SetupTypes, IdleTypes, ServiceTypes, ReleaseTypes
  DEF Request
<1>2. CASE \E m \in n4 : Receive(m) /\ UNCHANGED upfVars
  <2>1. PICK m \in n4 : Receive(m) /\ UNCHANGED upfVars
    BY <1>2
  <2>2. CASE Discard(m)
    BY <2>1, <2>2, DiscardTypes DEF Discard, TypesInv, MessageTypes
  <2> QED
    BY <2>1, <2>2, EstAcceptedTypes, EstRejectedTypes, ModTypes, DelTypes DEF Receive
<1>3. CASE \E u \in Upfs, m \in n4 : Serve(u, m) /\ UNCHANGED smfVars
  BY <1>3, EstablishTypes, ModifyTypes, OtherAnswers DEF Serve
<1>4. CASE \E u \in Upfs : (HeartbeatFailure(u) \/ Associate(u)) /\ UNCHANGED smfVars
  BY <1>4, HeartbeatTypes
<1>5. CASE \E m \in n4 : Lose(m) /\ UNCHANGED <<upfVars, smfVars>>
  <2>1. n4' \subseteq n4 /\ lost < MaxLost /\ lost' = lost + 1 /\ UNCHANGED <<smfVars, upfVars>>
    BY <1>5 DEF Lose
  <2>2. lost' \in 0 .. MaxLost
    BY <2>1, BoundsAssumption DEF TypesInv, MessageTypes
  <2> QED
    BY <2>1, <2>2, DiscardTypes
<1>6. CASE UNCHANGED vars
  BY <1>6, DiscardTypes DEF vars, channel, TypesInv, MessageTypes
<1> QED
  BY <1>1, <1>2, <1>3, <1>4, <1>5, <1>6 DEF Next

LEMMA TypesHold == Spec => [](TypesInv /\ SwitchInv)
  BY InitTypes, InitSwitch, InitAddresses, NextTypes, NextSwitch, NextAddresses, PTL DEF Spec

(***************************************************************************)
(* TypeOK: the state of the SMF and of the UPFs has the expected types,    *)
(* for any paths.  In particular every entry of a lookup table is a list   *)
(* with a first rule, the tunnels in the table are those the UPF has given *)
(* out, and a UPF knows no session of a context that is not there.         *)
(***************************************************************************)
THEOREM TypeCorrect == Spec => []TypeOK
<1>1. ASSUME TypesInv, SwitchInv PROVE TypeOK
  <2>1. /\ DOMAIN ctx = 1 .. Len(ctx) /\ Len(ctx) \in Nat
        /\ cur \in [Sessions -> 0 .. Len(ctx)]
    <3>1. DOMAIN ctx = 1 .. Len(ctx) /\ Len(ctx) \in Nat
      BY <1>1, LenProperties DEF TypesInv, SmfTypes
    <3>2. {0} \cup 1 .. Len(ctx) = 0 .. Len(ctx)
      BY <3>1
    <3> QED
      BY <1>1, <3>1, <3>2 DEF TypesInv, SmfTypes
  <2>2. \A c \in DOMAIN ctx :
          /\ ctx[c].slot \in Sessions /\ ctx[c].graph \in BOOLEAN
          /\ ctx[c].ip \in Addresses
          /\ ctx[c].at \in Upfs /\ ctx[c].todo \in Seq(Upfs)
          /\ ctx[c].cnx \in {"ACTIVATED", "ACTIVATING", "DEACTIVATED"}
    BY <1>1 DEF TypesInv, SmfTypes, Object, Objects
  <2>3. \A u \in Upfs :
          /\ DOMAIN switch[u] \subseteq 1 .. seids[u]
          /\ DOMAIN cpMap[u] \subseteq DOMAIN ctx
          /\ smf[u].sessions \subseteq DOMAIN ctx
          /\ \A k \in DOMAIN ulPdrs[u] : k \in 1 .. teids[u] /\ ulPdrs[u][k] # <<>>
          /\ \A k \in DOMAIN dlPdrs[u] : k \in Addresses \ {NoAddress} /\ dlPdrs[u][k] # <<>>
    BY <1>1 DEF TypesInv, UpfTypes, TableOK, SwitchInv, SeidsCount
  <2>4. /\ Len(ctx) <= MaxContexts /\ ran \in [Sessions -> {"none", "setup", "up", "idle"}]
        /\ procs \subseteq Procs
        /\ lost \in 0 .. MaxLost /\ failures \in 0 .. MaxFailures /\ asked \in 0 .. MaxAsked
    BY <1>1 DEF TypesInv, SmfTypes, UpfTypes, MessageTypes, Steps
  <2> QED
    BY <2>1, <2>2, <2>3, <2>4 DEF TypeOK
<1> QED
  BY <1>1, TypesHold, PTL

(***************************************************************************)
(* TunnelFirst (session_create_sm_context_procedure): for paths of any     *)
(* length and any order of answers, releases and losses, no UPF is asked   *)
(* for its part of a path before the tunnel it leads to is known.          *)
(***************************************************************************)
THEOREM TunnelsComeFirst == Spec => []TunnelFirst
<1>1. ASSUME TypesInv PROVE TunnelFirst
  <2> SUFFICES ASSUME NEW m \in n4, m.type = "est", m.to # "smf"
               PROVE  LET x == ctx[m.cp]
                          i == CHOOSE j \in DOMAIN Path[x.slot] : Path[x.slot][j] = m.to
                      IN  i > 1 => x.edge[Path[x.slot][i - 1]].dl.teid # 0
    BY DEF TunnelFirst
  <2> DEFINE x == ctx[m.cp]
             i == CHOOSE j \in DOMAIN Path[x.slot] : Path[x.slot][j] = m.to
  <2>1. m.cp = m.proc.ctx /\ RequestOK(m, x, teids)
    BY <1>1 DEF TypesInv, MessageTypes, MessageOK, RequestOK
  <2>2. m.to \in UpfsOf(x.slot) /\ HopOpen(m.to, x)
    BY <2>1 DEF RequestOK
  <2> HIDE DEF x
  <2>3. i \in DOMAIN Path[x.slot] /\ Path[x.slot][i] = m.to
    BY <2>2 DEF UpfsOf
  <2> HIDE DEF i
  <2>4. i > 1 => x.edge[Path[x.slot][i - 1]].dl.teid # 0
    BY <2>2, <2>3 DEF HopOpen
  <2> QED
    BY <2>4 DEF x, i
<1> QED
  BY <1>1, TypesHold, PTL

--------------------------------------------------------------------------------
(***************************************************************************)
(* Whose session a UP SEID names.  The rest is about paths of one UPF: on  *)
(* a longer one the SMF keeps the SEID of the UPF that answered last and   *)
(* sends it to all of them (n4_path), so that nothing below holds.         *)
(*                                                                         *)
(* A SEID the SMF keeps or sends names the session of its own context, or  *)
(* none.  A context whose address went back has no session and gets none   *)
(* any more (Gone), because the UPF named it in the answer to a deletion.  *)
(***************************************************************************)
OneUpfPaths == \A s \in Sessions : Len(Path[s]) = 1

SeidOK(u, s, c) == s \in 0 .. seids[u] /\ (s \in DOMAIN switch[u] => switch[u][s].cp = c)

Asks(m, c) == m.to # "smf" /\ m.type = "est" /\ m.cp = c
Gone(c)    == (\A u \in Upfs : c \notin DOMAIN cpMap[u]) /\ \A m \in n4 : ~Asks(m, c)

ContextNames ==
  \A c \in DOMAIN ctx :
    /\ ctx[c].todo = <<>>
    /\ SeidOK(Access(ctx[c].slot), ctx[c].upSeid, c)
    /\ ctx[c].ip = NoAddress => Gone(c)

RequestNames ==
  \A m \in n4 : m.to # "smf" =>
    /\ SeidOK(m.to, m.seid, m.cp)
    /\ m.pdrs # <<>> /\ m.pdrs[1].dir = "dl" => ctx[m.cp].ip \in {m.pdrs[1].key, NoAddress}
    /\ m.type = "est" => \A u \in Upfs : m.cp \notin DOMAIN cpMap[u]

\* A context is established by one request.
OneAsks == \A m, o \in n4 : Asks(m, m.cp) /\ Asks(o, m.cp) => o = m

AnswerNamed(m) ==
  /\ m.type = "est" /\ m.cause = "accepted" => SeidOK(m.from, m.seid, m.proc.ctx)
  /\ m.type = "del" /\ m.hdr # 0 => Gone(m.proc.ctx)

AnswerNames == \A m \in n4 : m.to = "smf" => AnswerNamed(m)

\* The UPF of a session, and rules by address that lead to the holder or nowhere.
SessionNames == \A u \in Upfs : \A c \in DOMAIN cpMap[u] : u = Access(ctx[c].slot)

RuleNamed(u, k, r) ==
  /\ r.up \in 0 .. seids[u]
  /\ r.up \in DOMAIN switch[u] => ctx[switch[u][r.up].cp].ip = k

RuleNames ==
  \A u \in Upfs : \A k \in DOMAIN dlPdrs[u] : \A i \in DOMAIN dlPdrs[u][k] :
    RuleNamed(u, k, dlPdrs[u][k][i])

NamesInv ==
  ContextNames /\ RequestNames /\ OneAsks /\ AnswerNames /\ SessionNames /\ RuleNames

LEMMA OneUpf ==
  ASSUME OneUpfPaths, NEW s \in Sessions
  PROVE  /\ UpfsOf(s) = {Access(s)} /\ Access(s) \in Upfs
         /\ Uplink(s) = <<Access(s)>> /\ Downlink(s) = <<Access(s)>>
<1>1. /\ Path[s] \in Seq(Upfs) /\ Len(Path[s]) = 1 /\ DOMAIN Path[s] = 1 .. 1
      /\ Access(s) = Path[s][1] /\ Access(s) \in Upfs
  BY PathFacts, PathAssumption DEF OneUpfPaths, Access
<1>2. UpfsOf(s) = {Access(s)}
  BY <1>1 DEF UpfsOf
<1>3. Path[s] = <<Access(s)>>
  BY <1>1
<1>4. Downlink(s) = <<Access(s)>>
  BY <1>1 DEF Downlink
<1> QED
  BY <1>1, <1>2, <1>3, <1>4 DEF Uplink

\* The UPF a message is for or from is the one of its context.
LEMMA MessageUpf ==
  ASSUME OneUpfPaths, TypesInv, NEW m \in n4
  PROVE  /\ m.proc.ctx \in DOMAIN ctx /\ ctx[m.proc.ctx].slot \in Sessions
         /\ m.to # "smf" => m.cp = m.proc.ctx /\ m.to = Access(ctx[m.cp].slot)
         /\ m.to = "smf" => m.from = Access(ctx[m.proc.ctx].slot)
<1>1. /\ m.proc.ctx \in DOMAIN ctx /\ MessageOK(m, ctx[m.proc.ctx], teids)
      /\ ctx[m.proc.ctx].slot \in Sessions
  BY Fields DEF TypesInv, MessageTypes, SmfTypes, Object
<1>2. UpfsOf(ctx[m.proc.ctx].slot) = {Access(ctx[m.proc.ctx].slot)}
  BY <1>1, OneUpf
<1> QED
  BY <1>1, <1>2 DEF MessageOK, RequestOK, AnswerOK

\* What no step does to a UPF: take a UP SEID for another session.
Grows ==
  \A u \in Upfs :
    /\ seids[u] \in Nat /\ seids'[u] \in Nat /\ seids[u] <= seids'[u]
    /\ \A x \in DOMAIN switch'[u] :
         x <= seids[u] => x \in DOMAIN switch[u] /\ switch'[u][x].cp = switch[u][x].cp

LEMMA SeidsStay ==
  ASSUME Grows, NEW u \in Upfs, NEW s, NEW c, SeidOK(u, s, c)
  PROVE  SeidOK(u, s, c)'
BY DEF Grows, SeidOK

(***************************************************************************)
(* A step of a UPF, or a loss.  A context gets a session only when it is   *)
(* asked for, and the request is taken with it.                            *)
(***************************************************************************)
LEMMA UpfKeepsNames ==
  ASSUME OneUpfPaths, TypesInv, NamesInv, ctx' = ctx, Grows,
         \A v \in Upfs : \A c \in DOMAIN cpMap'[v] :
           \/ c \in DOMAIN cpMap[v]
           \/ \E m \in n4 \ n4' : Asks(m, c) /\ m.to = v,
         \A o \in n4' : o \in n4 \/ (o.to = "smf" /\ AnswerNamed(o)'),
         \A v \in Upfs : \A k \in DOMAIN dlPdrs'[v] : \A i \in DOMAIN dlPdrs'[v][k] :
           \/ k \in DOMAIN dlPdrs[v] /\ \E j \in DOMAIN dlPdrs[v][k] : dlPdrs'[v][k][i] = dlPdrs[v][k][j]
           \/ \E r : dlPdrs'[v][k][i] = r /\ RuleNamed(v, k, r)'
  PROVE  NamesInv'
<1>1. ASSUME NEW c, Gone(c) PROVE Gone(c)'
  BY <1>1 DEF Gone, Asks
<1>2. ContextNames'
  <2> SUFFICES ASSUME NEW c \in DOMAIN ctx
               PROVE  /\ ctx[c].todo = <<>>
                      /\ (SeidOK(Access(ctx[c].slot), ctx[c].upSeid, c))'
                      /\ ctx[c].ip = NoAddress => Gone(c)'
    BY DEF ContextNames
  <2> DEFINE a == Access(ctx[c].slot)
             s == ctx[c].upSeid
  <2>1. ctx[c].todo = <<>> /\ SeidOK(a, s, c) /\ (ctx[c].ip = NoAddress => Gone(c))
    BY DEF NamesInv, ContextNames
  <2>2. a \in Upfs
    <3>1. ctx[c].slot \in Sessions
      BY Fields DEF TypesInv, SmfTypes, Object
    <3> QED
      BY <3>1, OneUpf
  <2>3. ASSUME NEW v \in Upfs, NEW n, SeidOK(v, n, c) PROVE SeidOK(v, n, c)'
    BY <2>3, SeidsStay
  <2>4. SeidOK(a, s, c)'
    BY <2>1, <2>2, <2>3 DEF SeidOK
  <2> QED
    BY <1>1, <2>1, <2>4
<1>3. RequestNames'
  <2> SUFFICES ASSUME NEW m \in n4', m.to # "smf"
               PROVE  /\ SeidOK(m.to, m.seid, m.cp)'
                      /\ m.pdrs # <<>> /\ m.pdrs[1].dir = "dl" =>
                           ctx[m.cp].ip \in {m.pdrs[1].key, NoAddress}
                      /\ m.type = "est" => \A u \in Upfs : m.cp \notin DOMAIN cpMap'[u]
    BY DEF RequestNames
  <2>1. m \in n4
    OBVIOUS
  <2>2. /\ SeidOK(m.to, m.seid, m.cp)
        /\ m.pdrs # <<>> /\ m.pdrs[1].dir = "dl" => ctx[m.cp].ip \in {m.pdrs[1].key, NoAddress}
        /\ m.type = "est" => \A u \in Upfs : m.cp \notin DOMAIN cpMap[u]
    BY <2>1 DEF NamesInv, RequestNames
  <2>3. m.to \in Upfs
    BY <2>1, MessageUpf, OneUpf
  <2>4. SeidOK(m.to, m.seid, m.cp)'
    BY <2>2, <2>3, SeidsStay
  <2>5. ASSUME m.type = "est", NEW u \in Upfs, m.cp \in DOMAIN cpMap'[u] PROVE FALSE
    <3>1. PICK o \in n4 \ n4' : Asks(o, m.cp)
      BY <2>2, <2>5
    <3>2. Asks(m, m.cp)
      BY <2>5 DEF Asks
    <3> QED
      BY <2>1, <3>1, <3>2 DEF NamesInv, OneAsks
  <2> QED
    BY <2>2, <2>4, <2>5
<1>4. OneAsks'
  BY DEF NamesInv, OneAsks, Asks
<1>5. AnswerNames'
  <2> SUFFICES ASSUME NEW m \in n4', m.to = "smf", m \in n4 PROVE AnswerNamed(m)'
    BY DEF AnswerNames
  <2>1. AnswerNamed(m) /\ m.from \in Upfs
    BY MessageUpf, OneUpf DEF NamesInv, AnswerNames
  <2>2. ASSUME SeidOK(m.from, m.seid, m.proc.ctx) PROVE SeidOK(m.from, m.seid, m.proc.ctx)'
    BY <2>1, <2>2, SeidsStay
  <2>3. ASSUME Gone(m.proc.ctx) PROVE Gone(m.proc.ctx)'
    BY <1>1, <2>3
  <2> QED
    BY <2>1, <2>2, <2>3 DEF AnswerNamed
<1>6. SessionNames'
  <2> SUFFICES ASSUME NEW u \in Upfs, NEW c \in DOMAIN cpMap'[u] PROVE u = Access(ctx[c].slot)
    BY DEF SessionNames
  <2>1. CASE c \in DOMAIN cpMap[u]
    BY <2>1 DEF NamesInv, SessionNames
  <2>2. CASE \E m \in n4 \ n4' : Asks(m, c) /\ m.to = u
    BY <2>2, MessageUpf DEF Asks
  <2> QED
    BY <2>1, <2>2
<1>7. ASSUME NEW u \in Upfs, NEW k, NEW r, RuleNamed(u, k, r) PROVE RuleNamed(u, k, r)'
  <2>1. r.up \in 0 .. seids[u] /\ r.up <= seids[u] /\ r.up \in 0 .. seids'[u]
    BY <1>7 DEF RuleNamed, Grows
  <2>2. r.up \in DOMAIN switch'[u] =>
          r.up \in DOMAIN switch[u] /\ switch'[u][r.up].cp = switch[u][r.up].cp
    BY <2>1 DEF Grows
  <2>3. r.up \in DOMAIN switch[u] => ctx[switch[u][r.up].cp].ip = k
    BY <1>7 DEF RuleNamed
  <2> QED
    BY <2>1, <2>2, <2>3 DEF RuleNamed
<1>8. RuleNames'
  <2>1. ASSUME NEW u \in Upfs, NEW k \in DOMAIN dlPdrs'[u], NEW i \in DOMAIN dlPdrs'[u][k]
        PROVE  \E r : dlPdrs'[u][k][i] = r /\ RuleNamed(u, k, r)'
    <3>1. CASE k \in DOMAIN dlPdrs[u] /\ \E j \in DOMAIN dlPdrs[u][k] : dlPdrs'[u][k][i] = dlPdrs[u][k][j]
      <4>1. PICK j \in DOMAIN dlPdrs[u][k] : dlPdrs'[u][k][i] = dlPdrs[u][k][j]
        BY <3>1
      <4>2. RuleNamed(u, k, dlPdrs[u][k][j])
        BY <3>1 DEF NamesInv, RuleNames
      <4>3. PICK r : r = dlPdrs[u][k][j]
        OBVIOUS
      <4>4. RuleNamed(u, k, r)'
        BY <1>7, <4>2, <4>3
      <4> QED
        BY <4>1, <4>3, <4>4
    <3> QED
      BY <3>1
  <2> QED
    BY <2>1 DEF RuleNames, RuleNamed
<1> QED
  BY <1>2, <1>3, <1>4, <1>5, <1>6, <1>8 DEF NamesInv

LEMMA AnswerShape ==
  ASSUME NEW m, NEW cause, NEW hdr, NEW up, NEW R, Answer(m, cause, hdr, up, R)
  PROVE  \E a : /\ n4' = (n4 \ {m}) \cup {a}
                /\ a.to = "smf" /\ a.from = m.to /\ a.type = m.type /\ a.proc = m.proc
                /\ a.cause = cause /\ a.hdr = hdr /\ a.seid = up
<1> DEFINE a == [to |-> "smf", from |-> m.to, type |-> m.type, proc |-> m.proc,
                 cause |-> cause, hdr |-> hdr, seid |-> up,
                 tunnels |-> {[pdr |-> r.id, teid |-> r.key] : r \in {x \in R : x.dir = "ul"}}]
<1>1. n4' = (n4 \ {m}) \cup {a}
  BY DEF Answer
<1>2. /\ a.to = "smf" /\ a.from = m.to /\ a.type = m.type /\ a.proc = m.proc
      /\ a.cause = cause /\ a.hdr = hdr /\ a.seid = up
  OBVIOUS
<1> HIDE DEF a
<1> QED
  BY <1>1, <1>2

LEMMA EstablishNames ==
  ASSUME OneUpfPaths, TypesInv, SwitchInv, NamesInv, NEW u \in Upfs, NEW m \in n4, Establish(u, m),
         UNCHANGED smfVars
  PROVE  NamesInv'
<1> DEFINE p == m.pdrs[1]
<1>0. PICK up : up = seids[u] + 1
  OBVIOUS
<1>1. /\ m.type = "est" /\ m.to = u /\ m.cp \notin DOMAIN cpMap[u]
      /\ seids' = [seids EXCEPT ![u] = up] /\ CreateRule(u, p, Rule(u, p, up))
      /\ cpMap' = [cpMap EXCEPT ![u] = Put(@, m.cp, up)]
      /\ \E R : Answer(m, "accepted", m.cp, up, R)
      /\ ctx' = ctx
  BY <1>0 DEF Establish, NextSeid, smfVars
<1>2. \E r : switch' = [switch EXCEPT ![u] =
                          Put(@, up, [cp |-> m.cp, pdrs |-> <<r>>, fars |-> m.fars])]
  BY <1>0 DEF Establish, NextSeid
<1>3. m.to # "smf" /\ m.cp = m.proc.ctx
  BY <1>1, MessageUpf, NamesAssumption
<1>4. p.dir = "ul"
  <2>1. RequestOK(m, ctx[m.proc.ctx], teids)
    BY <1>3 DEF TypesInv, MessageTypes, MessageOK
  <2> QED
    BY <1>1, <2>1 DEF RequestOK
<1>5. \A v \in Upfs : dlPdrs'[v] = dlPdrs[v]
  BY <1>1, <1>4 DEF CreateRule, TypesInv, UpfTypes
<1>6. PICK a : /\ n4' = (n4 \ {m}) \cup {a} /\ a.to = "smf"
               /\ a.type = "est" /\ a.from = u /\ a.seid = up /\ a.proc = m.proc
  BY <1>1, AnswerShape
<1> HIDE DEF p
<1>7. /\ seids[u] \in Nat /\ up \in Nat /\ up \in 1 .. up /\ ~(up <= seids[u])
      /\ seids'[u] = up
      /\ DOMAIN switch = Upfs /\ DOMAIN cpMap = Upfs
  BY <1>0, <1>1 DEF SwitchInv, SeidsCount
<1>8. /\ DOMAIN switch'[u] = DOMAIN switch[u] \cup {up}
      /\ switch'[u][up].cp = m.cp
      /\ \A x \in DOMAIN switch[u] : x # up => switch'[u][x] = switch[u][x]
      /\ \A v \in Upfs \ {u} : switch'[v] = switch[v]
  BY <1>2, <1>7 DEF Put
<1>9. Grows
  BY <1>1, <1>7, <1>8 DEF Grows, SwitchInv, SeidsCount
<1>10. SeidOK(u, up, m.proc.ctx)'
  BY <1>3, <1>7, <1>8 DEF SeidOK
<1>11. AnswerNamed(a)'
  BY <1>6, <1>10 DEF AnswerNamed, SeidOK
<1>12. ASSUME NEW v \in Upfs, NEW c \in DOMAIN cpMap'[v]
       PROVE  \/ c \in DOMAIN cpMap[v]
              \/ \E o \in n4 \ n4' : Asks(o, c) /\ o.to = v
  <2>1. c \in DOMAIN cpMap[v] \/ (v = u /\ c = m.cp)
    BY <1>1, <1>7 DEF Put
  <2>2. m \in n4 \ n4' /\ Asks(m, m.cp)
    BY <1>1, <1>3, <1>6 DEF Asks
  <2> QED
    BY <1>1, <2>1, <2>2
<1>13. \A o \in n4' : o \in n4 \/ (o.to = "smf" /\ AnswerNamed(o)')
  BY <1>1, <1>6, <1>11
<1>14. \A v \in Upfs : \A k \in DOMAIN dlPdrs'[v] : \A i \in DOMAIN dlPdrs'[v][k] :
          \/ k \in DOMAIN dlPdrs[v] /\ \E j \in DOMAIN dlPdrs[v][k] : dlPdrs'[v][k][i] = dlPdrs[v][k][j]
          \/ \E r : dlPdrs'[v][k][i] = r /\ RuleNamed(v, k, r)'
  BY <1>5
<1> QED
  BY <1>1, <1>9, <1>12, <1>13, <1>14, UpfKeepsNames

\* A rule by address that a UPF creates belongs to a session, so the context of
\* the session still has that address.
LEMMA ModifyNames ==
  ASSUME OneUpfPaths, TypesInv, SwitchInv, NamesInv, NEW u \in Upfs, NEW m \in n4, Modify(u, m),
         UNCHANGED smfVars
  PROVE  NamesInv'
<1> DEFINE p == m.pdrs[1]
<1>1. /\ m.type = "mod" /\ m.to = u /\ m.seid \in DOMAIN switch[u]
      /\ UNCHANGED <<cpMap, seids, ctx>>
      /\ \E P, F : switch' = [switch EXCEPT ![u][m.seid] =
                                [cp |-> switch[u][m.seid].cp, pdrs |-> P, fars |-> F]]
  BY DEF Modify, smfVars
<1>2. /\ \E a : n4' = (n4 \ {m}) \cup {a} /\ a.to = "smf" /\ a.type = "mod"
      /\ \/ UNCHANGED dlPdrs
         \/ /\ m.pdrs # <<>> /\ Creatable(p)
            /\ CreateRule(u, p, Rule(u, p, m.seid))
  <2>1. \E cause, hdr, R : Answer(m, cause, hdr, 0, R)
    BY DEF Modify
  <2>2. \E a : n4' = (n4 \ {m}) \cup {a} /\ a.to = "smf" /\ a.type = "mod"
    BY <1>1, <2>1, AnswerShape
  <2>3. \/ UNCHANGED dlPdrs
        \/ /\ m.pdrs # <<>> /\ Creatable(p)
           /\ CreateRule(u, p, Rule(u, p, m.seid))
    BY DEF Modify
  <2> QED
    BY <2>2, <2>3
<1>3. m.to # "smf" /\ m.cp = m.proc.ctx
  BY <1>1, MessageUpf, NamesAssumption
<1>4. /\ \A v \in Upfs : /\ DOMAIN switch'[v] = DOMAIN switch[v]
                         /\ \A x \in DOMAIN switch[v] : switch'[v][x].cp = switch[v][x].cp
  BY <1>1 DEF SwitchInv, SeidsCount
<1>5. Grows
  BY <1>1, <1>4 DEF Grows, SwitchInv, SeidsCount
<1>6. /\ m.seid \in 0 .. seids[u] /\ switch[u][m.seid].cp = m.cp
      /\ m.cp \in DOMAIN cpMap[u]
      /\ m.pdrs # <<>> /\ p.dir = "dl" => ctx[m.cp].ip \in {p.key, NoAddress}
  <2>1. /\ SeidOK(u, m.seid, m.cp)
        /\ m.pdrs # <<>> /\ p.dir = "dl" => ctx[m.cp].ip \in {p.key, NoAddress}
    BY <1>1, <1>3 DEF NamesInv, RequestNames
  <2> QED
    BY <1>1, <2>1 DEF SeidOK, SwitchInv, SwitchConsistent
<1>7. ctx[m.cp].ip # NoAddress
  <2>1. m.cp \in DOMAIN ctx
    BY <1>6 DEF TypesInv, UpfTypes
  <2> QED
    BY <1>6, <2>1 DEF NamesInv, ContextNames, Gone
<1>8. ASSUME NEW v \in Upfs, NEW k \in DOMAIN dlPdrs'[v], NEW i \in DOMAIN dlPdrs'[v][k]
      PROVE  \/ k \in DOMAIN dlPdrs[v] /\ \E j \in DOMAIN dlPdrs[v][k] : dlPdrs'[v][k][i] = dlPdrs[v][k][j]
             \/ \E r : dlPdrs'[v][k][i] = r /\ RuleNamed(v, k, r)'
  <2>0. PICK r : r = Rule(u, p, m.seid)
    OBVIOUS
  <2>1. CASE dlPdrs'[v] = dlPdrs[v]
    BY <2>1
  <2>2. CASE dlPdrs'[v] # dlPdrs[v]
    <3>1. m.pdrs # <<>> /\ CreateRule(u, p, r)
      BY <1>2, <2>0, <2>2
    <3>2. dlPdrs' = [dlPdrs EXCEPT ![u] = IF p.dir = "dl" THEN AddRule(@, r) ELSE @]
      BY <3>1 DEF CreateRule
    <3>3. v = u /\ p.dir = "dl" /\ dlPdrs'[u] = AddRule(dlPdrs[u], r)
      <4> HIDE DEF p
      <4>1. DOMAIN dlPdrs = Upfs
        BY DEF TypesInv, UpfTypes
      <4> QED
        BY <2>2, <3>2, <4>1
    <3>4. r.key = p.key /\ r.up = m.seid
      BY <2>0, <3>3 DEF Rule, Chooses
    <3>5. TableOK(dlPdrs[u], Addresses \ {NoAddress})
      BY DEF TypesInv, UpfTypes
    <3>6. p.key \in Addresses \ {NoAddress}
      <4>1. RequestOK(m, ctx[m.proc.ctx], teids)
        BY <1>3 DEF TypesInv, MessageTypes, MessageOK
      <4>2. PdrOK(p, m.to, ctx[m.proc.ctx], teids)
        BY <3>1, <4>1 DEF RequestOK
      <4> HIDE DEF p
      <4>3. p.key \in Addresses
        BY <3>3, <4>2 DEF PdrOK
      <4> QED
        BY <1>6, <1>7, <3>1, <3>3, <4>3 DEF p
    <3>7. \/ dlPdrs'[v][k][i] = r /\ k = p.key
          \/ k \in DOMAIN dlPdrs[v] /\ \E j \in DOMAIN dlPdrs[v][k] : dlPdrs'[v][k][i] = dlPdrs[v][k][j]
      BY <3>3, <3>4, <3>5, <3>6, AddRuleOK
    <3>8. ctx[m.cp].ip = p.key
      BY <1>6, <1>7, <3>1, <3>3
    <3>9. k = p.key => RuleNamed(v, k, r)'
      BY <1>1, <1>4, <1>6, <3>3, <3>4, <3>8 DEF RuleNamed
    <3> QED
      BY <3>7, <3>9
  <2> QED
    BY <2>1, <2>2
<1>9. \A o \in n4' : o \in n4 \/ (o.to = "smf" /\ AnswerNamed(o)')
  BY <1>2 DEF AnswerNamed
<1>10. \A v \in Upfs : \A c \in DOMAIN cpMap'[v] : c \in DOMAIN cpMap[v]
  BY <1>1
<1>11. ctx' = ctx
  BY <1>1
<1> QED
  BY <1>5, <1>8, <1>9, <1>10, <1>11, UpfKeepsNames

\* Erased sessions and rules.
LEMMA ErasedNames ==
  ASSUME OneUpfPaths, TypesInv, SwitchInv, NamesInv, UNCHANGED <<ctx, seids>>, NEW u \in Upfs, NEW U,
         RemoveSessions(u, U),
         \A o \in n4' : o \in n4 \/ (o.to = "smf" /\ AnswerNamed(o)')
  PROVE  NamesInv'
<1>1. /\ switch' = [switch EXCEPT ![u] = Erase(@, U)]
      /\ \E E : cpMap' = [cpMap EXCEPT ![u] = Erase(@, E)]
      /\ \E E : dlPdrs' = [dlPdrs EXCEPT ![u] = Erase(@, E)]
  BY DEF RemoveSessions
<1>2. DOMAIN switch = Upfs /\ DOMAIN cpMap = Upfs /\ DOMAIN dlPdrs = Upfs
  BY DEF SwitchInv, SeidsCount, TypesInv, UpfTypes
<1>3. Grows
  BY <1>1, <1>2 DEF Grows, SwitchInv, SeidsCount, Erase
<1>4. \A v \in Upfs : \A c \in DOMAIN cpMap'[v] : c \in DOMAIN cpMap[v]
  BY <1>1, <1>2 DEF Erase
<1>5. \A v \in Upfs : \A k \in DOMAIN dlPdrs'[v] : k \in DOMAIN dlPdrs[v] /\ dlPdrs'[v][k] = dlPdrs[v][k]
  BY <1>1, <1>2 DEF Erase
<1>6. ctx' = ctx
  OBVIOUS
<1> QED
  BY <1>3, <1>4, <1>5, <1>6, UpfKeepsNames

LEMMA DeleteNames ==
  ASSUME OneUpfPaths, TypesInv, SwitchInv, NamesInv, NEW u \in Upfs, NEW m \in n4, Delete(u, m),
         UNCHANGED smfVars
  PROVE  NamesInv'
<1>1. /\ m.type = "del" /\ m.to = u /\ m.seid \in DOMAIN switch[u]
      /\ RemoveSessions(u, {m.seid}) /\ UNCHANGED <<ctx, seids>>
      /\ \E hdr : Answer(m, "accepted", hdr, 0, {})
  BY DEF Delete, smfVars
<1>2. m.to # "smf" /\ m.cp = m.proc.ctx
  BY <1>1, MessageUpf, NamesAssumption
<1>3. switch[u][m.seid].cp = m.cp /\ m.cp \in DOMAIN cpMap[u]
  <2>1. SeidOK(u, m.seid, m.cp)
    BY <1>1, <1>2 DEF NamesInv, RequestNames
  <2> QED
    BY <1>1, <2>1 DEF SeidOK, SwitchInv, SwitchConsistent
<1>4. \A v \in Upfs : m.cp \notin DOMAIN cpMap'[v]
  <2>1. DOMAIN cpMap = Upfs /\ cpMap' = [cpMap EXCEPT ![u] = Erase(@, {m.cp})]
    BY <1>1, <1>3 DEF RemoveSessions, SwitchInv, SeidsCount
  <2>2. \A v \in Upfs : m.cp \in DOMAIN cpMap[v] => v = u
    BY <1>3 DEF NamesInv, SessionNames
  <2> QED
    BY <2>1, <2>2 DEF Erase
<1>5. \A o \in n4 : ~Asks(o, m.cp)
  BY <1>3 DEF NamesInv, RequestNames, Asks
<1>6. PICK a : n4' = (n4 \ {m}) \cup {a} /\ a.to = "smf" /\ a.type = "del" /\ a.proc = m.proc
  BY <1>1, AnswerShape
<1>7. Gone(m.proc.ctx)'
  BY <1>2, <1>4, <1>5, <1>6 DEF Gone, Asks
<1>8. AnswerNamed(a)'
  BY <1>6, <1>7 DEF AnswerNamed, Gone, Asks
<1>9. \A o \in n4' : o \in n4 \/ (o.to = "smf" /\ AnswerNamed(o)')
  BY <1>6, <1>8
<1> QED
  BY <1>1, <1>9, ErasedNames

\* Steps that leave the sessions alone.
LEMMA SameSessionsNames ==
  ASSUME OneUpfPaths, TypesInv, SwitchInv, NamesInv, UNCHANGED <<ctx, switch, cpMap, seids, dlPdrs>>,
         \A o \in n4' : o \in n4 \/ (o.to = "smf" /\ AnswerNamed(o)')
  PROVE  NamesInv'
<1>1. Grows
  BY DEF Grows, SwitchInv, SeidsCount
<1>2. \A v \in Upfs : \A c \in DOMAIN cpMap'[v] : c \in DOMAIN cpMap[v]
  OBVIOUS
<1>3. \A v \in Upfs : \A k \in DOMAIN dlPdrs'[v] : k \in DOMAIN dlPdrs[v] /\ dlPdrs'[v][k] = dlPdrs[v][k]
  OBVIOUS
<1>4. ctx' = ctx
  OBVIOUS
<1> QED
  BY <1>1, <1>2, <1>3, <1>4, UpfKeepsNames

LEMMA UpfNames ==
  ASSUME OneUpfPaths, TypesInv, SwitchInv, NamesInv, NEW u \in Upfs, UNCHANGED smfVars,
         \/ \E m \in n4 : Serve(u, m)
         \/ HeartbeatFailure(u) \/ Associate(u)
  PROVE  NamesInv'
<1>1. ctx' = ctx
  BY DEF smfVars
<1>2. ASSUME NEW m \in n4, EstablishAgain(u, m) \/ NotFound(u, m) PROVE NamesInv'
  <2>1. /\ UNCHANGED <<switch, cpMap, seids, dlPdrs>>
        /\ \E a : /\ n4' = (n4 \ {m}) \cup {a} /\ a.to = "smf"
                  /\ (a.type = "est" => a.cause = "rejected")
                  /\ (a.type = "del" => a.hdr = 0)
    <3>1. UNCHANGED <<switch, cpMap, seids, dlPdrs>>
      BY <1>2 DEF EstablishAgain, NotFound, upfVars
    <3>2. \/ m.type = "est" /\ Answer(m, "rejected", m.cp, 0, {})
          \/ m.type \in {"mod", "del"} /\ Answer(m, "notfound", 0, 0, {})
      BY <1>2 DEF EstablishAgain, NotFound
    <3> QED
      BY <3>1, <3>2, AnswerShape
  <2>2. \A o \in n4' : o \in n4 \/ (o.to = "smf" /\ AnswerNamed(o)')
    BY <2>1 DEF AnswerNamed
  <2> QED
    BY <1>1, <2>1, <2>2, SameSessionsNames
<1>3. CASE HeartbeatFailure(u)
  <2>1. UNCHANGED <<ctx, seids, n4>> /\ \E U : RemoveSessions(u, U)
    BY <1>1, <1>3 DEF HeartbeatFailure
  <2> QED
    BY <2>1, ErasedNames
<1>4. CASE Associate(u)
  BY <1>1, <1>4, SameSessionsNames DEF Associate
<1> QED
  BY <1>2, <1>3, <1>4, EstablishNames, ModifyNames, DeleteNames DEF Serve

(***************************************************************************)
(* A step of the SMF, for a context c that becomes y, or is new, with at   *)
(* most one request.                                                       *)
(***************************************************************************)
RequestFor(o, c, y) ==
  /\ o.to = Access(y.slot) /\ o.seid = y.upSeid /\ o.cp = c
  /\ o.pdrs # <<>> /\ o.pdrs[1].dir = "dl" => o.pdrs[1].key = y.ip
  /\ o.type = "est" => c \notin DOMAIN ctx /\ y.ip # NoAddress

LEMMA SmfKeepsNames ==
  ASSUME OneUpfPaths, TypesInv, SwitchInv, NamesInv, UNCHANGED upfVars, NEW c, NEW y,
         DOMAIN ctx' = DOMAIN ctx \cup {c}, ctx'[c] = y, \A d \in DOMAIN ctx \ {c} : ctx'[d] = ctx[d],
         y.slot \in Sessions, y.todo = <<>>, SeidOK(Access(y.slot), y.upSeid, c),
         y.ip = NoAddress => Gone(c),
         c \in DOMAIN ctx => y.slot = ctx[c].slot /\ y.ip \in {ctx[c].ip, NoAddress},
         NEW O, n4' \subseteq n4 \cup O, \A o \in O : O = {o} /\ RequestFor(o, c, y)
  PROVE  NamesInv'
<1>1. UNCHANGED <<switch, cpMap, seids, dlPdrs>>
  BY DEF upfVars
<1>2. ASSUME NEW d \in DOMAIN ctx \cup {c}, Gone(d), d \in DOMAIN ctx \/ y.ip = NoAddress PROVE Gone(d)'
  <2>1. \A o \in O : ~Asks(o, d)
    BY <1>2 DEF RequestFor, Asks
  <2> QED
    BY <1>1, <1>2, <2>1 DEF Gone, Asks
<1>3. ContextNames'
  <2> SUFFICES ASSUME NEW d \in DOMAIN ctx \cup {c}
               PROVE  /\ ctx'[d].todo = <<>>
                      /\ (SeidOK(Access(ctx[d].slot), ctx[d].upSeid, d))'
                      /\ ctx'[d].ip = NoAddress => Gone(d)'
    BY DEF ContextNames
  <2>1. CASE d = c
    BY <1>1, <1>2, <2>1 DEF SeidOK
  <2>2. CASE d # c
    <3>1. ctx'[d] = ctx[d] /\ d \in DOMAIN ctx
      BY <2>2
    <3>2. /\ ctx[d].todo = <<>> /\ SeidOK(Access(ctx[d].slot), ctx[d].upSeid, d)
          /\ ctx[d].ip = NoAddress => Gone(d)
      BY <3>1 DEF NamesInv, ContextNames
    <3> QED
      BY <1>1, <1>2, <3>1, <3>2 DEF SeidOK
  <2> QED
    BY <2>1, <2>2
<1>4. ASSUME NEW m \in n4
      PROVE  /\ m.proc.ctx \in DOMAIN ctx /\ (m.to # "smf" => m.cp \in DOMAIN ctx)
  BY MessageUpf
<1>5. RequestNames'
  <2> SUFFICES ASSUME NEW m \in n4 \cup O, m.to # "smf"
               PROVE  /\ SeidOK(m.to, m.seid, m.cp)'
                      /\ m.pdrs # <<>> /\ m.pdrs[1].dir = "dl" =>
                           ctx'[m.cp].ip \in {m.pdrs[1].key, NoAddress}
                      /\ m.type = "est" => \A u \in Upfs : m.cp \notin DOMAIN cpMap'[u]
    BY DEF RequestNames
  <2>1. CASE m \in n4
    <3>1. /\ SeidOK(m.to, m.seid, m.cp)
          /\ m.pdrs # <<>> /\ m.pdrs[1].dir = "dl" => ctx[m.cp].ip \in {m.pdrs[1].key, NoAddress}
          /\ m.type = "est" => \A u \in Upfs : m.cp \notin DOMAIN cpMap[u]
      BY <2>1 DEF NamesInv, RequestNames
    <3>2. ctx'[m.cp].ip \in {ctx[m.cp].ip, NoAddress}
      BY <1>4, <2>1
    <3> QED
      BY <1>1, <3>1, <3>2 DEF SeidOK
  <2>2. CASE m \in O
    <3>1. RequestFor(m, c, y)
      BY <2>2
    <3>2. m.type = "est" => \A u \in Upfs : m.cp \notin DOMAIN cpMap[u]
      BY <3>1 DEF RequestFor, TypesInv, UpfTypes
    <3> QED
      BY <1>1, <3>1, <3>2 DEF RequestFor, SeidOK
  <2> QED
    BY <2>1, <2>2
<1>6. OneAsks'
  <2> SUFFICES ASSUME NEW m \in n4 \cup O, NEW o \in n4 \cup O, Asks(m, m.cp), Asks(o, m.cp)
               PROVE  o = m
    BY DEF OneAsks, Asks
  <2>1. \A q \in n4 : Asks(q, q.cp) => q.cp \in DOMAIN ctx
    BY <1>4 DEF Asks
  <2>2. \A q \in O : Asks(q, q.cp) => q.cp \notin DOMAIN ctx
    BY DEF RequestFor, Asks
  <2>3. m.cp = o.cp
    BY DEF Asks
  <2>4. m \in n4 /\ o \in n4 => o = m
    BY DEF NamesInv, OneAsks
  <2>5. m \in O /\ o \in O => o = m
    OBVIOUS
  <2> QED
    BY <2>1, <2>2, <2>3, <2>4, <2>5
<1>7. AnswerNames'
  <2> SUFFICES ASSUME NEW m \in n4, m.to = "smf" PROVE AnswerNamed(m)'
    <3>1. Access(y.slot) # "smf"
      BY OneUpf, NamesAssumption
    <3> QED
      BY <3>1 DEF AnswerNames, RequestFor
  <2>1. AnswerNamed(m) /\ m.proc.ctx \in DOMAIN ctx
    BY <1>4 DEF NamesInv, AnswerNames
  <2>2. Gone(m.proc.ctx) => Gone(m.proc.ctx)'
    BY <1>2, <2>1
  <2> QED
    BY <1>1, <2>1, <2>2 DEF AnswerNamed, SeidOK
<1>8. SessionNames'
  <2>1. \A u \in Upfs : \A d \in DOMAIN cpMap[u] : d \in DOMAIN ctx /\ u = Access(ctx[d].slot)
    BY DEF NamesInv, SessionNames, TypesInv, UpfTypes
  <2>2. \A d \in DOMAIN ctx : ctx'[d].slot = ctx[d].slot
    OBVIOUS
  <2> QED
    BY <1>1, <2>1, <2>2 DEF SessionNames
<1>9. ASSUME NEW u \in Upfs, NEW k, NEW r, RuleNamed(u, k, r) PROVE RuleNamed(u, k, r)'
  <2>1. r.up \in 0 .. seids[u] /\ (r.up \in DOMAIN switch[u] => ctx[switch[u][r.up].cp].ip = k)
    BY <1>9 DEF RuleNamed
  <2>2. ASSUME r.up \in DOMAIN switch[u] PROVE ctx'[switch[u][r.up].cp].ip = k
    <3>1. PICK d : d = switch[u][r.up].cp
      OBVIOUS
    <3>2. d \in DOMAIN cpMap[u] /\ d \in DOMAIN ctx
      BY <2>2, <3>1 DEF SwitchInv, SwitchConsistent, TypesInv, UpfTypes
    <3>3. ~Gone(d)
      BY <3>2 DEF Gone
    <3>4. ctx'[d].ip = ctx[d].ip
      BY <3>2, <3>3
    <3> QED
      BY <2>1, <2>2, <3>1, <3>4
  <2> QED
    BY <1>1, <2>1, <2>2 DEF RuleNamed
<1>10. RuleNames'
  <2>1. ASSUME NEW u \in Upfs, NEW k \in DOMAIN dlPdrs'[u], NEW i \in DOMAIN dlPdrs'[u][k]
        PROVE  LET r == dlPdrs'[u][k][i]
               IN  /\ r.up \in 0 .. seids'[u]
                   /\ r.up \in DOMAIN switch'[u] => ctx'[switch'[u][r.up].cp].ip = k
    <3>1. RuleNamed(u, k, dlPdrs[u][k][i])
      BY <1>1 DEF NamesInv, RuleNames
    <3>2. PICK r : r = dlPdrs[u][k][i]
      OBVIOUS
    <3>3. RuleNamed(u, k, r)'
      BY <1>9, <3>1, <3>2
    <3> QED
      BY <1>1, <3>2, <3>3 DEF RuleNamed
  <2> QED
    BY <2>1 DEF RuleNames, RuleNamed
<1> QED
  BY <1>3, <1>5, <1>6, <1>7, <1>8, <1>10 DEF NamesInv

\* What a procedure does to a context at its UPF keeps what names it.
Held == {"slot", "ip", "upSeid", "todo", "at"}

Alike(x, y) ==
  /\ Held \subseteq DOMAIN y
  /\ y.slot = x.slot /\ y.ip = x.ip /\ y.upSeid = x.upSeid /\ y.todo = x.todo /\ y.at = x.at

LEMMA AlikeUpdates ==
  ASSUME NEW x, Held \subseteq DOMAIN x
  PROVE  /\ \A v : Alike(x, [x EXCEPT !.cnx = v])
         /\ \A d : Alike(x, WithFar(x, d)) /\ Alike(x, WithPdr(x, d))
         /\ \A u, d : Alike(x, ClearEdge(x, u, d))
         /\ Alike(x, Raised(x))
         /\ \A m : Alike(x, Tunnelled(x, m))
<1>1. \A t : Alike(x, WithTunnel(x, t))
  BY DEF Held, Alike, WithTunnel
<1>2. \A m : Alike(x, Tunnelled(x, m))
  BY <1>1 DEF Held, Alike, Tunnelled
<1> QED
  BY <1>2 DEF Held, Alike, WithFar, WithPdr, ClearEdge, Raised

LEMMA PreparedAlike ==
  ASSUME NEW x, Held \subseteq DOMAIN x, NEW d
  PROVE  Alike(x, Prepared(x, d))
<1>1. Alike(x, WithFar(x, Other[d]))
  BY AlikeUpdates
<1>2. Alike(WithFar(x, Other[d]), WithPdr(WithFar(x, Other[d]), d))
  BY <1>1, AlikeUpdates DEF Alike
<1> QED
  BY <1>1, <1>2 DEF Prepared, Alike

\* The traversal of a path of one UPF is over when it has begun.
LEMMA StartedAtAccess ==
  ASSUME OneUpfPaths, NEW s \in Sessions, NEW x, Held \subseteq DOMAIN x, x.slot = s,
         NEW q \in {Uplink(s), Downlink(s)}
  PROVE  LET y == Start(x, q)
         IN  /\ Held \subseteq DOMAIN y /\ y.slot = s /\ y.ip = x.ip /\ y.upSeid = x.upSeid
             /\ y.todo = <<>> /\ y.at = Access(s)
<1>1. q = <<Access(s)>>
  BY OneUpf
<1>2. Head(<<Access(s)>>) = Access(s) /\ Tail(<<Access(s)>>) = <<>>
  OBVIOUS
<1> QED
  BY <1>1, <1>2 DEF Start, Advance, Held

LEMMA Heading ==
  ASSUME NEW x \in Objects
  PROVE  Held \subseteq DOMAIN x
BY DEF Objects, Held

\* The rule of a request.
LEMMA RequestIsFor ==
  ASSUME NEW k, NEW c \in DOMAIN ctx, NEW x, x.at = Access(x.slot), NEW type, type # "est"
  PROVE  /\ \A d \in {"ul", "dl"} : RequestFor(Creating(k, c, x, type, d), c, x)
         /\ \A P, F : RequestFor(Message(k, c, x, type, P, F, <<>>, <<>>), c, x)
<1>1. ASSUME NEW d \in {"ul", "dl"} PROVE RequestFor(Creating(k, c, x, type, d), c, x)
  <2> DEFINE m == Creating(k, c, x, type, d)
  <2>1. m.to = x.at /\ m.seid = x.upSeid /\ m.cp = c /\ m.type = type /\ m.pdrs[1] = Pdr(x, d)
    BY DEF Creating, Message
  <2>2. Pdr(x, d).dir = "dl" => Pdr(x, d).key = x.ip
    BY DEF Pdr, Other
  <2> HIDE DEF m
  <2>3. m.pdrs[1].dir = "dl" => m.pdrs[1].key = x.ip
    BY <2>1, <2>2
  <2>4. RequestFor(m, c, x)
    BY <2>1, <2>3 DEF RequestFor
  <2> QED
    BY <2>4 DEF m
<1>2. ASSUME NEW P, NEW F PROVE RequestFor(Message(k, c, x, type, P, F, <<>>, <<>>), c, x)
  BY DEF RequestFor, Message
<1> QED
  BY <1>1, <1>2

--------------------------------------------------------------------------------
LEMMA BeginNames ==
  ASSUME OneUpfPaths, TypesInv, SwitchInv, NamesInv, UNCHANGED upfVars,
         NEW s \in Sessions, Current(s), NEW k, NEW m, NEW y, BeginUpdate(s, k, y, m),
         y.slot = s, y.ip = ctx[cur[s]].ip, y.upSeid = ctx[cur[s]].upSeid, y.todo = <<>>,
         RequestFor(m, cur[s], y)
  PROVE  NamesInv'
<1>0. PICK c : c = cur[s]
  OBVIOUS
<1>1. /\ c \in DOMAIN ctx /\ ctx[c].slot = s
      /\ y.ip = ctx[c].ip /\ y.upSeid = ctx[c].upSeid /\ RequestFor(m, c, y)
  BY <1>0 DEF Current, TypesInv, SmfTypes
<1>2. ctx' = [ctx EXCEPT ![c] = y] /\ n4' = n4 \cup {m}
  BY <1>0 DEF BeginUpdate, Begin
<1>3. DOMAIN ctx' = DOMAIN ctx \cup {c} /\ ctx'[c] = y /\ \A d \in DOMAIN ctx \ {c} : ctx'[d] = ctx[d]
  BY <1>1, <1>2
<1>4. SeidOK(Access(y.slot), y.upSeid, c) /\ (y.ip = NoAddress => Gone(c))
  BY <1>1 DEF NamesInv, ContextNames
<1>5. PICK O : O = {m}
  OBVIOUS
<1>6. n4' \subseteq n4 \cup O /\ \A o \in O : O = {o} /\ RequestFor(o, c, y)
  BY <1>1, <1>2, <1>5
<1>7. y.slot \in Sessions /\ y.slot = ctx[c].slot /\ y.ip \in {ctx[c].ip, NoAddress}
  BY <1>1
<1> QED
  BY <1>1, <1>3, <1>4, <1>6, <1>7, SmfKeepsNames

LEMMA CurrentHolds ==
  ASSUME OneUpfPaths, TypesInv, NEW s \in Sessions, Current(s)
  PROVE  /\ cur[s] \in DOMAIN ctx /\ Held \subseteq DOMAIN ctx[cur[s]] /\ ctx[cur[s]].slot = s
<1>1. cur[s] \in DOMAIN ctx /\ ctx[cur[s]] \in Objects /\ ctx[cur[s]].slot = s
  BY DEF Current, TypesInv, SmfTypes, Object
<1> QED
  BY <1>1, Heading

LEMMA RequestsNames ==
  ASSUME OneUpfPaths, TypesInv, SwitchInv, NamesInv, UNCHANGED upfVars, NEW s \in Sessions,
         SetupResponse(s) \/ AnRelease(s) \/ ServiceRequested(s) \/ Release(s)
  PROVE  NamesInv'
<1>1. Current(s)
  BY DEF SetupResponse, AnRelease, ServiceRequested, Release
<1>2. PICK c, w : c = cur[s] /\ w = ctx[c]
  OBVIOUS
<1>3. c \in DOMAIN ctx /\ Held \subseteq DOMAIN w /\ w.slot = s
  BY <1>1, <1>2, CurrentHolds
<1> DEFINE Keeps(x) == /\ Held \subseteq DOMAIN x /\ x.slot = s /\ x.ip = w.ip
                       /\ x.upSeid = w.upSeid
           There(x) == Keeps(x) /\ x.todo = <<>> /\ x.at = Access(s)
<1>4. ASSUME NEW x, There(x), NEW y, Alike(x, y) PROVE There(y)
  BY <1>4 DEF Alike
<1>5. \A v : Keeps([w EXCEPT !.cnx = v])
  BY <1>3, AlikeUpdates DEF Alike
<1>6. ASSUME NEW x, Keeps(x) PROVE There(Start(x, Downlink(s)))
  BY <1>6, StartedAtAccess
<1>7. ASSUME NEW x, There(x), NEW k, NEW m, BeginUpdate(s, k, x, m), RequestFor(m, c, x) PROVE NamesInv'
  BY <1>1, <1>2, <1>7, BeginNames
<1>8. CASE SetupResponse(s)
  <2> DEFINE q == Start(w, Downlink(s))
             x == Prepared(q, "ul")
  <2>1. \E k : BeginUpdate(s, k, x, ModRequest(k, c, x))
    BY <1>2, <1>8 DEF SetupResponse
  <2>2. There(q)
    BY <1>3, <1>6
  <2> HIDE DEF q
  <2>3. There(x)
    BY <1>4, <2>2, PreparedAlike
  <2> HIDE DEF x
  <2>4. \A k : RequestFor(ModRequest(k, c, x), c, x)
    BY <1>3, <2>3, RequestIsFor DEF ModRequest
  <2> QED
    BY <1>7, <2>1, <2>3, <2>4
<1>9. CASE AnRelease(s)
  <2> DEFINE p == [w EXCEPT !.cnx = "DEACTIVATED"]
             x == Start(p, Downlink(s))
             v == ClearEdge(x, x.at, "ul")
             y == ClearEdge(v, x.at, "dl")
  <2>1. BeginUpdate(s, "idle", y, IdleRequest(c, x))
    BY <1>2, <1>9 DEF AnRelease
  <2>2. There(x)
    BY <1>5, <1>6
  <2> HIDE DEF x
  <2>3. There(v)
    BY <1>4, <2>2, AlikeUpdates
  <2> HIDE DEF v
  <2>4. There(y)
    BY <1>4, <2>3, AlikeUpdates
  <2> HIDE DEF y
  <2>5. RequestFor(IdleRequest(c, x), c, x)
    BY <1>3, <2>2, RequestIsFor DEF IdleRequest
  <2>6. RequestFor(IdleRequest(c, x), c, y)
    BY <2>2, <2>4, <2>5 DEF RequestFor
  <2> QED
    BY <1>7, <2>1, <2>4, <2>6
<1>10. CASE ServiceRequested(s)
  <2> DEFINE p == [w EXCEPT !.cnx = "ACTIVATING"]
             q == Start(p, Downlink(s))
             v == Raised(q)
             x == Prepared(v, "dl")
  <2>1. BeginUpdate(s, "service", x, ServiceRequest(c, x))
    BY <1>2, <1>10 DEF ServiceRequested
  <2>2. There(q)
    BY <1>5, <1>6
  <2> HIDE DEF q
  <2>3. There(v)
    BY <1>4, <2>2, AlikeUpdates
  <2> HIDE DEF v
  <2>4. There(x)
    BY <1>4, <2>3, PreparedAlike
  <2> HIDE DEF x
  <2>5. RequestFor(ServiceRequest(c, x), c, x)
    BY <1>3, <2>4, RequestIsFor DEF ServiceRequest
  <2> QED
    BY <1>7, <2>1, <2>4, <2>5
<1>11. CASE Release(s)
  <2> DEFINE x == Start(w, Downlink(s))
  <2>1. BeginUpdate(s, "release", x, DelRequest(c, x))
    BY <1>2, <1>11 DEF Release
  <2>2. There(x)
    BY <1>3, <1>6
  <2> HIDE DEF x
  <2>3. RequestFor(DelRequest(c, x), c, x)
    BY <1>3, <2>2, RequestIsFor DEF DelRequest
  <2> QED
    BY <1>7, <2>1, <2>2, <2>3
<1> QED
  BY <1>8, <1>9, <1>10, <1>11

LEMMA NoSeid ==
  ASSUME SwitchInv, NEW u \in Upfs, NEW c
  PROVE  SeidOK(u, 0, c)
BY DEF SwitchInv, SeidsCount, SeidOK

\* The end of a procedure.
LEMMA FinishNames ==
  ASSUME OneUpfPaths, TypesInv, SwitchInv, NamesInv, UNCHANGED upfVars, NEW m \in n4, NEW y,
         Finish(m, y), NEW c, c = m.proc.ctx, y.slot = ctx[c].slot, y.todo = <<>>,
         SeidOK(Access(y.slot), y.upSeid, c),
         y.ip = ctx[c].ip \/ (y.ip = NoAddress /\ Gone(c))
  PROVE  NamesInv'
<1>1. c \in DOMAIN ctx /\ y.slot \in Sessions
  BY MessageUpf
<1>2. ctx' = [ctx EXCEPT ![c] = y] /\ n4' \subseteq n4
  BY DEF Finish
<1>3. DOMAIN ctx' = DOMAIN ctx \cup {c} /\ ctx'[c] = y /\ \A d \in DOMAIN ctx \ {c} : ctx'[d] = ctx[d]
  BY <1>1, <1>2
<1>4. y.ip = NoAddress => Gone(c)
  BY <1>1 DEF NamesInv, ContextNames
<1>5. PICK O : O = {}
  OBVIOUS
<1>6. n4' \subseteq n4 \cup O /\ \A o \in O : O = {o} /\ RequestFor(o, c, y)
  BY <1>2, <1>5
<1>7. y.ip \in {ctx[c].ip, NoAddress}
  OBVIOUS
<1> QED
  BY <1>1, <1>3, <1>4, <1>6, <1>7, SmfKeepsNames

LEMMA AnsweredContext ==
  ASSUME OneUpfPaths, TypesInv, NamesInv, NEW m \in n4
  PROVE  LET c == m.proc.ctx
         IN  /\ c \in DOMAIN ctx /\ Held \subseteq DOMAIN ctx[c] /\ ctx[c].todo = <<>>
             /\ SeidOK(Access(ctx[c].slot), ctx[c].upSeid, c)
             /\ Access(ctx[c].slot) \in Upfs
<1>1. m.proc.ctx \in DOMAIN ctx /\ ctx[m.proc.ctx].slot \in Sessions
  BY MessageUpf
<1>2. Held \subseteq DOMAIN ctx[m.proc.ctx]
  BY <1>1, Heading DEF TypesInv, SmfTypes, Object
<1> QED
  BY <1>1, <1>2, OneUpf DEF NamesInv, ContextNames

LEMMA EstNames ==
  ASSUME OneUpfPaths, TypesInv, SwitchInv, NamesInv, UNCHANGED upfVars, NEW m \in n4,
         EstAccepted(m) \/ EstRejected(m)
  PROVE  NamesInv'
<1>0. PICK c, w : c = m.proc.ctx /\ w = ctx[c]
  OBVIOUS
<1>1. /\ c \in DOMAIN ctx /\ Held \subseteq DOMAIN w /\ w.todo = <<>>
      /\ SeidOK(Access(w.slot), w.upSeid, c)
  BY <1>0, AnsweredContext
<1>2. CASE EstAccepted(m)
  <2> DEFINE p == [w EXCEPT !.upSeid = m.seid]
             x == Tunnelled(p, m)
  <2>1. /\ m.to = "smf" /\ m.type = "est" /\ m.cause = "accepted"
        /\ \/ \E i \in Eligible(x) : TRUE
           \/ Finish(m, IF x.todo = <<>> THEN x ELSE Goto(x, Len(x.todo)))
    BY <1>0, <1>2 DEF EstAccepted
  <2>2. /\ Held \subseteq DOMAIN p /\ p.slot = w.slot /\ p.ip = w.ip /\ p.todo = <<>>
        /\ p.upSeid = m.seid
    BY <1>1 DEF Held
  <2> HIDE DEF p
  <2>3. x.slot = w.slot /\ x.ip = w.ip /\ x.todo = <<>> /\ x.upSeid = m.seid
    BY <2>2, AlikeUpdates DEF Alike
  <2> HIDE DEF x
  <2>4. Eligible(x) = {}
    BY <2>3 DEF Eligible
  <2>5. Finish(m, x)
    BY <2>1, <2>3, <2>4
  <2>6. SeidOK(Access(x.slot), x.upSeid, c)
    <3>1. m.from = Access(w.slot)
      BY <1>0, <2>1, MessageUpf
    <3>2. SeidOK(m.from, m.seid, c)
      BY <1>0, <2>1 DEF NamesInv, AnswerNames, AnswerNamed
    <3> QED
      BY <2>3, <3>1, <3>2
  <2> QED
    BY <1>0, <2>3, <2>5, <2>6, FinishNames
<1>3. CASE EstRejected(m)
  <2>1. Finish(m, w)
    BY <1>0, <1>3 DEF EstRejected
  <2> QED
    BY <1>0, <1>1, <2>1, FinishNames
<1> QED
  BY <1>2, <1>3

LEMMA ModNames ==
  ASSUME OneUpfPaths, TypesInv, SwitchInv, NamesInv, UNCHANGED upfVars, NEW m \in n4, ModAnswered(m)
  PROVE  NamesInv'
<1>0. PICK c, w : c = m.proc.ctx /\ w = ctx[c]
  OBVIOUS
<1>1. /\ c \in DOMAIN ctx /\ Held \subseteq DOMAIN w /\ w.todo = <<>>
      /\ SeidOK(Access(w.slot), w.upSeid, c)
  BY <1>0, AnsweredContext
<1> DEFINE t == Tunnelled(w, m)
<1>2. \/ Finish(m, w) \/ \E v : Finish(m, [w EXCEPT !.cnx = v])
      \/ Finish(m, t) \/ \E v : Finish(m, [t EXCEPT !.cnx = v])
  BY <1>0, <1>1 DEF ModAnswered
<1>3. Alike(w, w) /\ \A v : Alike(w, [w EXCEPT !.cnx = v])
  BY <1>1, AlikeUpdates DEF Alike
<1>4. Alike(w, t) /\ \A v : Alike(w, [t EXCEPT !.cnx = v])
  <2>1. Alike(w, t)
    BY <1>1, AlikeUpdates
  <2> HIDE DEF t
  <2>2. \A v : Alike(t, [t EXCEPT !.cnx = v])
    BY <2>1, AlikeUpdates DEF Alike
  <2> QED
    BY <2>1, <2>2 DEF Alike
<1> HIDE DEF t
<1>5. PICK y : Finish(m, y) /\ Alike(w, y)
  BY <1>2, <1>3, <1>4
<1> QED
  BY <1>0, <1>1, <1>5, FinishNames DEF Alike

LEMMA DelNames ==
  ASSUME OneUpfPaths, TypesInv, SwitchInv, NamesInv, UNCHANGED upfVars, NEW m \in n4, DelAnswered(m)
  PROVE  NamesInv'
<1>0. PICK c, w : c = m.proc.ctx /\ w = ctx[c]
  OBVIOUS
<1>1. /\ c \in DOMAIN ctx /\ Held \subseteq DOMAIN w /\ w.todo = <<>> /\ Access(w.slot) \in Upfs
  BY <1>0, AnsweredContext
<1>2. Gone(c)
  <2>1. m.to = "smf" /\ m.type = "del" /\ m.hdr # 0
    BY DEF DelAnswered, Dispatched
  <2> QED
    BY <1>0, <2>1 DEF NamesInv, AnswerNames, AnswerNamed
<1> DEFINE e == ClearEdge(w, Access(w.slot), "dl")
           y == Deallocated(w)
<1>3. Finish(m, y)
  BY <1>0, <1>1 DEF DelAnswered
<1>4. y.slot = w.slot /\ y.ip = NoAddress /\ y.upSeid = 0 /\ y.todo = <<>>
  <2>1. y = [e EXCEPT !.ip = NoAddress, !.upSeid = 0, !.cnx = "DEACTIVATED"]
    BY DEF Deallocated
  <2>2. Alike(w, e)
    BY <1>1, AlikeUpdates
  <2> HIDE DEF e, y
  <2> QED
    BY <1>1, <2>1, <2>2 DEF Alike, Held
<1> HIDE DEF y
<1>5. SeidOK(Access(y.slot), y.upSeid, c)
  BY <1>1, <1>4, NoSeid
<1> QED
  BY <1>0, <1>2, <1>3, <1>4, <1>5, FinishNames

--------------------------------------------------------------------------------
\* A new context is in no map and no message.
LEMMA NewIsGone ==
  ASSUME OneUpfPaths, TypesInv, NEW s \in Sessions, NEW x, CreateContext(s, x)
  PROVE  /\ Gone(NextContext) /\ NextContext \notin DOMAIN ctx
         /\ DOMAIN ctx' = DOMAIN ctx \cup {NextContext} /\ ctx'[NextContext] = x
         /\ \A d \in DOMAIN ctx : ctx'[d] = ctx[d]
<1>1. ctx' = Append(ctx, x) /\ \E S : ctx \in Seq(S)
  BY DEF CreateContext, TypesInv, SmfTypes
<1>2. /\ NextContext \notin DOMAIN ctx
      /\ DOMAIN ctx' = DOMAIN ctx \cup {NextContext} /\ ctx'[NextContext] = x
      /\ \A d \in DOMAIN ctx : ctx'[d] = ctx[d]
  BY <1>1, AppendedContext
<1>3. Gone(NextContext)
  BY <1>2, MessageUpf DEF Gone, Asks, TypesInv, UpfTypes
<1> QED
  BY <1>2, <1>3

LEMMA NewNames ==
  ASSUME OneUpfPaths, TypesInv, SwitchInv, NamesInv, UNCHANGED upfVars,
         NEW s \in Sessions, NEW y, CreateContext(s, y), y.slot = s, y.todo = <<>>, y.upSeid = 0,
         NEW O, n4' \subseteq n4 \cup O, \A o \in O : O = {o} /\ RequestFor(o, NextContext, y)
  PROVE  NamesInv'
<1>1. PICK c : c = NextContext
  OBVIOUS
<1>2. /\ Gone(c) /\ c \notin DOMAIN ctx
      /\ DOMAIN ctx' = DOMAIN ctx \cup {c} /\ ctx'[c] = y
      /\ \A d \in DOMAIN ctx \ {c} : ctx'[d] = ctx[d]
  BY <1>1, NewIsGone
<1>3. SeidOK(Access(y.slot), y.upSeid, c)
  BY OneUpf, NoSeid
<1>4. \A o \in O : O = {o} /\ RequestFor(o, c, y)
  BY <1>1
<1> QED
  BY <1>2, <1>3, <1>4, SmfKeepsNames

LEMMA CreateNames ==
  ASSUME OneUpfPaths, TypesInv, SwitchInv, NamesInv, AddressInv, UNCHANGED upfVars,
         NEW s \in Sessions, Create(s)
  PROVE  NamesInv'
<1> DEFINE i == IF Static[s] # NoAddress THEN Static[s] ELSE NextAddress(pool)
<1>0. PICK c, ip : c = NextContext /\ ip = i
  OBVIOUS
<1> DEFINE n == NewContext(s, ip, TRUE)
           q == Start(n, Uplink(s))
           x == Prepared(q, "dl")
<1>1. /\ Static[s] # NoAddress \/ HasAddress(pool)
      /\ CreateContext(s, x)
      /\ n4' = n4 \cup {EstRequest(c, x)}
  BY <1>0 DEF Create, Begin
<1>2. ip # NoAddress
  BY <1>0, <1>1, FirstAddress
<1>3. Held \subseteq DOMAIN n /\ n.slot = s /\ n.ip = ip /\ n.upSeid = 0
  BY DEF NewContext, Held
<1> HIDE DEF n
<1>4. /\ Held \subseteq DOMAIN q /\ q.slot = s /\ q.ip = ip /\ q.upSeid = 0
      /\ q.todo = <<>> /\ q.at = Access(s)
  BY <1>3, StartedAtAccess
<1> HIDE DEF q
<1>5. /\ x.slot = s /\ x.ip = ip /\ x.upSeid = 0 /\ x.todo = <<>> /\ x.at = Access(s)
  BY <1>4, PreparedAlike DEF Alike
<1> HIDE DEF x
<1>6. c \notin DOMAIN ctx
  BY <1>0, <1>1, NewIsGone
<1>7. RequestFor(EstRequest(c, x), c, x)
  <2> DEFINE m == EstRequest(c, x)
  <2>1. m.to = x.at /\ m.seid = x.upSeid /\ m.cp = c /\ m.pdrs[1] = Pdr(x, "dl")
    BY DEF EstRequest, Creating, Message
  <2>2. Pdr(x, "dl").dir = "ul"
    BY DEF Pdr, Other
  <2> HIDE DEF m
  <2>3. RequestFor(m, c, x)
    BY <1>2, <1>5, <1>6, <2>1, <2>2 DEF RequestFor
  <2> QED
    BY <2>3 DEF m
<1>8. PICK O : O = {EstRequest(c, x)}
  OBVIOUS
<1>9. n4' \subseteq n4 \cup O /\ \A o \in O : O = {o} /\ RequestFor(o, NextContext, x)
  BY <1>0, <1>1, <1>7, <1>8
<1> QED
  BY <1>1, <1>5, <1>9, NewNames

LEMMA CreateWithoutNames ==
  ASSUME OneUpfPaths, TypesInv, SwitchInv, NamesInv, UNCHANGED upfVars,
         NEW s \in Sessions, CreateWithoutAddress(s) \/ CreateWithoutUpf(s)
  PROVE  NamesInv'
<1>1. \E ip : CreateContext(s, NewContext(s, ip, FALSE))
  BY DEF CreateWithoutAddress, CreateWithoutUpf
<1>2. n4' = n4
  BY DEF CreateWithoutAddress, CreateWithoutUpf, channel
<1>3. PICK ip : CreateContext(s, NewContext(s, ip, FALSE))
  BY <1>1
<1>4. PICK y, O : y = NewContext(s, ip, FALSE) /\ O = {}
  OBVIOUS
<1>5. CreateContext(s, y) /\ y.slot = s /\ y.todo = <<>> /\ y.upSeid = 0
  BY <1>3, <1>4 DEF NewContext
<1>6. n4' \subseteq n4 \cup O /\ \A o \in O : O = {o} /\ RequestFor(o, NextContext, y)
  BY <1>2, <1>4
<1> QED
  BY <1>5, <1>6, NewNames

LEMMA InitNames == Init => NamesInv
  BY DEF Init, UpfInit, SmfInit, ChannelInit, EmptyMap, NamesInv, ContextNames, RequestNames,
         OneAsks, AnswerNames, SessionNames, RuleNames

LEMMA NextNames ==
  ASSUME OneUpfPaths, TypesInv, SwitchInv, AddressInv, NamesInv, [Next]_vars
  PROVE  NamesInv'
<1>1. CASE \E s \in Sessions : Request(s) /\ UNCHANGED upfVars
  BY <1>1, CreateNames, CreateWithoutNames, RequestsNames DEF Request
<1>2. CASE n4' \subseteq n4 /\ UNCHANGED <<upfVars, smfVars>>
  BY <1>2, SameSessionsNames DEF upfVars, smfVars
<1>3. CASE \E m \in n4 : Receive(m) /\ UNCHANGED upfVars
  <2>1. PICK m \in n4 : Receive(m) /\ UNCHANGED upfVars
    BY <1>3
  <2>2. CASE Discard(m)
    BY <1>2, <2>1, <2>2 DEF Discard
  <2> QED
    BY <2>1, <2>2, EstNames, ModNames, DelNames DEF Receive
<1>4. CASE \E u \in Upfs : /\ (\E m \in n4 : Serve(u, m)) \/ HeartbeatFailure(u) \/ Associate(u)
                           /\ UNCHANGED smfVars
  BY <1>4, UpfNames
<1>5. CASE \E m \in n4 : Lose(m) /\ UNCHANGED <<upfVars, smfVars>>
  BY <1>2, <1>5 DEF Lose
<1>6. CASE UNCHANGED vars
  BY <1>2, <1>6 DEF vars, channel
<1> QED
  BY <1>1, <1>3, <1>4, <1>5, <1>6 DEF Next

LEMMA NamesHold == ASSUME OneUpfPaths PROVE Spec => [](TypesInv /\ SwitchInv /\ NamesInv)
<1>1. TypesInv /\ SwitchInv /\ AddressInv /\ NamesInv /\ [Next]_vars => NamesInv'
  BY NextNames
<1> QED
  BY <1>1, InitNames, InitTypes, InitSwitch, InitAddresses, NextTypes, NextSwitch, NextAddresses,
     PTL DEF Spec

(***************************************************************************)
(* NoMisdelivery (pfcp_session_look_up_pack_in_core): the rule a downlink  *)
(* packet meets first leads into the session of the context that holds its *)
(* address, or nowhere, whatever rules idle, released and lost sessions    *)
(* have left in the table.                                                 *)
(***************************************************************************)
THEOREM PacketsReachTheHolder == ASSUME OneUpfPaths PROVE Spec => []NoMisdelivery
<1>1. TypesInv /\ SwitchInv /\ NamesInv => NoMisdelivery
  <2> SUFFICES ASSUME TypesInv, NamesInv, NEW u \in Upfs, NEW k \in DOMAIN dlPdrs[u],
                      NEW x \in Forwarding(u, k)
               PROVE  ctx[switch[u][x].cp].ip = k
    BY DEF NoMisdelivery
  <2>1. x \in DOMAIN switch[u] /\ dlPdrs[u][k][1].up = x
    BY DEF Forwarding
  <2>2. 1 \in DOMAIN dlPdrs[u][k]
    <3>1. dlPdrs[u][k] # <<>> /\ \E S : dlPdrs[u][k] \in Seq(S)
      BY DEF TypesInv, UpfTypes, TableOK
    <3> QED
      BY <3>1, EmptySeq, LenProperties
  <2>3. RuleNamed(u, k, dlPdrs[u][k][1])
    BY <2>2 DEF NamesInv, RuleNames
  <2> QED
    BY <2>1, <2>3 DEF RuleNamed
<1> QED
  BY <1>1, NamesHold, PTL

(***************************************************************************)
(* OnlyOwnSession (send_n4_session_deletion_request,                       *)
(* handle_pfcp_session_deletion_request): the session a UPF removes for a  *)
(* deletion request is the one of the context that is released.  Paths of  *)
(* two UPFs break it (n4_path).                                            *)
(***************************************************************************)
THEOREM OnlyOwnIsDeleted == ASSUME OneUpfPaths PROVE Spec => OnlyOwnSession
<1>1. ASSUME TypesInv, SwitchInv, NamesInv, [Next]_vars, NEW u \in Upfs, NEW m \in n4,
             m.type = "del", m.to = u, m \notin n4', NEW c \in DOMAIN cpMap[u] \ DOMAIN cpMap'[u]
      PROVE  c = m.proc.ctx
  <2>1. PICK v \in Upfs, o \in n4 : Serve(v, o)
    BY <1>1 DEF Next, HeartbeatFailure, Associate, upfVars, vars, channel
  <2>2. o = m /\ v = u
    BY <1>1, <2>1 DEF Serve, Establish, EstablishAgain, Modify, Delete, NotFound, Answer
  <2>3. Delete(u, m)
    BY <1>1, <2>1, <2>2 DEF Serve, Establish, EstablishAgain, Modify, NotFound, upfVars
  <2>4. m.seid \in DOMAIN switch[u] /\ cpMap' = [cpMap EXCEPT ![u] = Erase(@, {switch[u][m.seid].cp})]
    BY <2>3 DEF Delete, RemoveSessions
  <2>5. c = switch[u][m.seid].cp
    BY <1>1, <2>4 DEF Erase, SwitchInv, SeidsCount
  <2>6. m.to # "smf" /\ m.cp = m.proc.ctx
    BY <1>1, MessageUpf, NamesAssumption
  <2>7. SeidOK(u, m.seid, m.cp)
    BY <1>1, <2>6 DEF NamesInv, RequestNames
  <2> QED
    BY <2>4, <2>5, <2>6, <2>7 DEF SeidOK
<1>2. TypesInv /\ SwitchInv /\ NamesInv /\ [Next]_vars =>
        \A u \in Upfs, m \in n4 :
          m.type = "del" /\ m.to = u /\ m \notin n4' =>
            \A c \in DOMAIN cpMap[u] \ DOMAIN cpMap'[u] : c = m.proc.ctx
  BY <1>1
<1> QED
  BY <1>2, NamesHold, PTL DEF Spec, OnlyOwnSession
================================================================================
