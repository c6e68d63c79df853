----------------------------- MODULE AmfConnection -----------------------------
(***************************************************************************)
(* The connections of registered UEs in the AMF (amf_n1.cpp, amf_n2.cpp,   *)
(* amf_app.cpp): a UE comes back from idle with a Service Request, the gNB *)
(* asks for its release, and two timers in a row watch over an idle UE:    *)
(* the mobile reachable timer and the implicit deregistration timer.       *)
(*                                                                         *)
(* Three tasks work on shared contexts.  TASK_AMF_N2 talks to the gNB,     *)
(* TASK_AMF_APP gives a connection its AMF UE NGAP ID and TASK_AMF_N1      *)
(* handles the NAS message; each takes one message after another from its  *)
(* queue, so that a connection which is on its way through the tasks meets *)
(* the release of an older one.                                            *)
(*                                                                         *)
(* Every UE is registered and has PDU sessions.  Its GUTI is known until   *)
(* it deregisters; it then leaves the model, as a new registration is not  *)
(* part of it.  An AMF UE NGAP ID stands for its connection.               *)
(***************************************************************************)
EXTENDS Integers, Sequences, FiniteSets

CONSTANTS
  Ues,
  RanIds,   \* RAN UE NGAP IDs of the gNB, which uses them again; 0 is none
  MaxConns, \* bound: connections
  InitRan,  \* the RAN UE NGAP ID of each UE at the start
  NoUe

ASSUME NoUeAssumption == NoUe \notin Ues
ASSUME InitRanAssumption ==
  /\ IsFiniteSet(Ues) /\ MaxConns \in Nat /\ Cardinality(Ues) <= MaxConns
  /\ 1 .. Cardinality(Ues) \subseteq RanIds /\ 0 \notin RanIds
  /\ InitRan \in [Ues -> 1 .. Cardinality(Ues)]
  /\ \A u, v \in Ues : InitRan[u] = InitRan[v] => u = v

VARIABLES
  gnb,      \* the gNB's UE contexts; external
  link,     \* the UE context over which a UE is reached; external
  gone,     \* UEs that deregistered; external
  n2q, appq, n1q, \* the queues of the tasks
  n2,       \* a release that the N2 task is in the middle of
  uncs,     \* ue_ngap_context objects
  ran2unc,  \* ranid2uecontext
  amf2unc,  \* amfueid2uecontext
  uc,       \* ue_context objects, by AMF UE NGAP ID
  supi2uc,  \* supi2ue_ctx
  nc,       \* the nas_context of each UE
  amf2nc,   \* amfueid2nas_context
  supi2amf, \* supi2amfId
  timers,   \* running timers
  released  \* UEs whose PDU sessions the SMF was asked to release

ran  == <<gnb, link, gone>>
ngap == <<uncs, ran2unc, amf2unc>>
nas  == <<nc, amf2nc, supi2amf>>
vars == <<ran, n2q, appq, n1q, n2, ngap, uc, supi2uc, nas, timers, released>>

Conns  == 1 .. MaxConns
Kinds  == {"service", "deregistration"}
Free   == [ue |-> NoUe, amf |-> 0, asked |-> FALSE]
NoWait == [amf |-> 0, ran |-> 0, ue |-> NoUe]

Initial(u, r, c, k) == [type |-> "initial", ue |-> u, ran |-> r, amf |-> c, kind |-> k]
Msg(type, c, r)     == [type |-> type, ue |-> NoUe, ran |-> r, amf |-> c, kind |-> type]

(***************************************************************************)
(* The gNB and the UEs: external.  A UE that is idle, or whose radio link  *)
(* failed, opens a connection; the gNB keeps a context until the AMF       *)
(* orders its release.                                                     *)
(***************************************************************************)
Used == {r \in RanIds : gnb[r] # Free}
Opened == Len(uc) + Len(appq) + Cardinality({i \in DOMAIN n2q : n2q[i].type = "initial"})

Attach(u, r, k) ==
  /\ u \notin gone
  /\ k = "deregistration" => link[u] = 0
  /\ r \notin Used
  /\ Opened < MaxConns
  /\ gnb' = [gnb EXCEPT ![r] = [ue |-> u, amf |-> 0, asked |-> FALSE]]
  /\ link' = [link EXCEPT ![u] = r]
  /\ gone' = IF k = "deregistration" THEN gone \cup {u} ELSE gone
  /\ n2q' = Append(n2q, Initial(u, r, 0, k))
  /\ UNCHANGED <<appq, n1q, n2, ngap, uc, supi2uc, nas, timers, released>>

\* UE Context Release Request, once for a context the AMF has named.
Inactive(r) ==
  /\ gnb[r].amf # 0 /\ ~gnb[r].asked
  /\ gnb' = [gnb EXCEPT ![r].asked = TRUE]
  /\ n2q' = Append(n2q, Msg("request", gnb[r].amf, r))
  /\ UNCHANGED <<link, gone, appq, n1q, n2, ngap, uc, supi2uc, nas, timers, released>>

\* A connected UE deregisters, by an uplink NAS transport.
Leave(u) ==
  /\ u \notin gone /\ link[u] # 0 /\ gnb[link[u]].amf # 0
  /\ gone' = gone \cup {u}
  /\ n2q' = Append(n2q, Msg("uplink", gnb[link[u]].amf, link[u]))
  /\ UNCHANGED <<gnb, link, appq, n1q, n2, ngap, uc, supi2uc, nas, timers, released>>

\* The gNB releases the context that both ids name, and says so; q is the queue
\* of the N2 task without the message that led to the command.
Command(q, c, r) ==
  IF c # 0 /\ gnb[r].amf = c
  THEN /\ gnb' = [gnb EXCEPT ![r] = Free]
       /\ link' = [u \in Ues |-> IF u = gnb[r].ue /\ link[u] = r THEN 0 ELSE link[u]]
       /\ n2q' = Append(q, Msg("complete", c, r))
       /\ UNCHANGED gone
  ELSE n2q' = q /\ UNCHANGED ran

--------------------------------------------------------------------------------
(* TASK_AMF_N2.                                                             *)
N2Takes(type) == n2 = NoWait /\ n2q # <<>> /\ Head(n2q).type = type

\* Initial UE Message: a context is created unless the RAN id has one.
ReceiveInitial ==
  LET m == Head(n2q)
      new == ran2unc[m.ran] = 0
      i == IF new THEN Len(uncs) + 1 ELSE ran2unc[m.ran]
  IN  /\ N2Takes("initial")
      /\ uncs' = IF new THEN Append(uncs, [ran |-> m.ran, amf |-> 0, tmsi |-> m.ue])
                        ELSE [uncs EXCEPT ![i].ran = m.ran, ![i].tmsi = m.ue]
      /\ ran2unc' = [ran2unc EXCEPT ![m.ran] = i]
      /\ n2q' = Tail(n2q)
      /\ appq' = Append(appq, m)
      /\ UNCHANGED <<ran, n1q, n2, amf2unc, uc, supi2uc, nas, timers, released>>

ReceiveUplink ==
  LET m == Head(n2q)
  IN  /\ N2Takes("uplink")
      /\ n2q' = Tail(n2q)
      /\ n1q' = IF ran2unc[m.ran] # 0 THEN Append(n1q, m) ELSE n1q
      /\ UNCHANGED <<ran, appq, n2, ngap, uc, supi2uc, nas, timers, released>>

\* UE Context Release Request: answered with the command at once.
ReceiveReleaseRequest ==
  LET m == Head(n2q)
  IN  /\ N2Takes("request")
      /\ Command(Tail(n2q), m.amf, m.ran)
      /\ UNCHANGED <<appq, n1q, n2, ngap, uc, supi2uc, nas, timers, released>>

\* ran_ue_id_2_ue_ngap_context by the key of the UE context.
HasNgapContext(c, r) == uc[c].ran = r /\ ran2unc[r] # 0

\* A release command of the N1 task.
SendReleaseCommand ==
  LET m == Head(n2q)
  IN  /\ N2Takes("command")
      /\ IF HasNgapContext(m.amf, m.ran)
         THEN Command(Tail(n2q), m.amf, m.ran)
         ELSE n2q' = Tail(n2q) /\ UNCHANGED ran
      /\ UNCHANGED <<appq, n1q, n2, ngap, uc, supi2uc, nas, timers, released>>

\* Initial Context Setup Request; the gNB learns the AMF UE NGAP ID from it.
SetupContext ==
  LET m == Head(n2q)
  IN  /\ N2Takes("setup")
      /\ n2q' = Tail(n2q)
      /\ gnb' = IF /\ HasNgapContext(m.amf, m.ran) /\ amf2nc[m.amf] # NoUe
                   /\ gnb[m.ran] # Free /\ gnb[m.ran].amf = 0
                THEN [gnb EXCEPT ![m.ran].amf = m.amf] ELSE gnb
      /\ UNCHANGED <<link, gone, appq, n1q, n2, ngap, uc, supi2uc, nas, timers, released>>

RemovedUnc(c, r) ==
  /\ amf2unc' = [amf2unc EXCEPT ![c] = 0]
  /\ ran2unc' = [ran2unc EXCEPT ![r] = 0]
  /\ UNCHANGED uncs

\* UE Context Release Complete.
Completes(m) == N2Takes("complete") /\ m = Head(n2q) /\ n2q' = Tail(n2q)
HasContexts(m) == uc[m.amf].ran = m.ran /\ amf2unc[m.amf] # 0 /\ amf2nc[m.amf] # NoUe

CompleteUnknown(m) ==
  /\ Completes(m)
  /\ ~HasContexts(m)
  /\ UNCHANGED <<ran, appq, n1q, n2, ngap, uc, supi2uc, nas, timers, released>>

CurrentAlways(u, c) == TRUE
Current(u, c) == supi2amf[u] = c

CompleteOld(m) ==
  /\ Completes(m)
  /\ HasContexts(m) /\ ~Current(amf2nc[m.amf], m.amf)
  /\ RemovedUnc(m.amf, m.ran)
  /\ UNCHANGED <<ran, appq, n1q, n2, uc, supi2uc, nas, timers, released>>

MobileTimerNone(c) == {}
MobileTimerAnon(c) == {[kind |-> "mobile", amf |-> 0]}
MobileTimer(c) == {[kind |-> "mobile", amf |-> c]}

\* The connection is the current one when the N2 task compares the ids; the N1
\* task may move the UE's context to another before the next step.
CompleteCurrent(m) ==
  LET u == amf2nc[m.amf]
  IN  /\ Completes(m)
      /\ HasContexts(m) /\ Current(u, m.amf)
      /\ n2' = [amf |-> m.amf, ran |-> m.ran, ue |-> u]
      /\ UNCHANGED <<ran, appq, n1q, ngap, uc, supi2uc, nas, timers, released>>

CompleteGoesIdle ==
  /\ n2.ue # NoUe
  /\ nc' = [nc EXCEPT ![n2.ue].cm = "CM_IDLE"]
  /\ timers' = timers \cup MobileTimer(n2.amf)
  /\ n2' = [n2 EXCEPT !.ue = NoUe]
  /\ UNCHANGED <<ran, n2q, appq, n1q, ngap, uc, supi2uc, amf2nc, supi2amf, released>>

\* ... and after the SMF has answered, or not, for the PDU sessions:
CompleteRemoves ==
  /\ n2 # NoWait /\ n2.ue = NoUe
  /\ RemovedUnc(n2.amf, n2.ran)
  /\ n2' = NoWait
  /\ UNCHANGED <<ran, n2q, appq, n1q, uc, supi2uc, nas, timers, released>>

N2Task ==
  \/ ReceiveInitial \/ ReceiveUplink \/ ReceiveReleaseRequest
  \/ SendReleaseCommand \/ SetupContext
  \/ CompleteGoesIdle \/ CompleteRemoves
  \/ \E i \in DOMAIN n2q : \/ CompleteUnknown(n2q[i])
                           \/ CompleteOld(n2q[i])
                           \/ CompleteCurrent(n2q[i])

--------------------------------------------------------------------------------
(* TASK_AMF_APP.                                                            *)
EstablishOverwrites ==
  LET m == Head(appq)
      c == Len(uc) + 1
      i == Len(uncs)
  IN  /\ appq # <<>>
      /\ appq' = Tail(appq)
      /\ uc' = Append(uc, [ran |-> m.ran, sessions |-> FALSE])
      /\ uncs' = [uncs EXCEPT ![i].amf = c]
      /\ amf2unc' = [amf2unc EXCEPT ![c] = i]
      /\ n1q' = Append(n1q, [m EXCEPT !.amf = c])
      /\ UNCHANGED <<ran, n2q, n2, ran2unc, supi2uc, nas, timers, released>>

\* The connection gets an AMF UE NGAP ID and a UE context.
Establish ==
  LET m == Head(appq)
      c == Len(uc) + 1
      i == ran2unc[m.ran]
  IN  /\ appq # <<>>
      /\ appq' = Tail(appq)
      /\ uc' = Append(uc, [ran |-> m.ran, sessions |-> FALSE])
      /\ uncs' = IF i = 0 THEN uncs ELSE [uncs EXCEPT ![i].amf = c]
      /\ amf2unc' = IF i = 0 THEN amf2unc ELSE [amf2unc EXCEPT ![c] = i]
      /\ n1q' = Append(n1q, [m EXCEPT !.amf = c])
      /\ UNCHANGED <<ran, n2q, n2, ran2unc, supi2uc, nas, timers, released>>

--------------------------------------------------------------------------------
(* TASK_AMF_N1.                                                             *)
N1Takes(type) == n1q # <<>> /\ Head(n1q).type = type

\* The context found by the GUTI is moved to the new connection before the
\* message is looked at.
Moved(u, c, r) ==
  /\ nc' = [nc EXCEPT ![u].amf = c, ![u].ran = r]
  /\ amf2nc' = [amf2nc EXCEPT ![c] = u]
  /\ supi2amf' = [supi2amf EXCEPT ![u] = c]

\* service_request_handle: the command that releases the old connection.
OldReleased(u, r) ==
  IF nc[u].ran # r /\ HasNgapContext(nc[u].amf, nc[u].ran)
  THEN <<Msg("command", nc[u].amf, nc[u].ran)>> ELSE <<>>

SessionsForgotten(u, c) == [uc EXCEPT ![c].sessions = FALSE]
CopiedSessions(u, c) == [uc EXCEPT ![c].sessions = uc[supi2uc[u]].sessions]

HandleService ==
  LET m == Head(n1q)
      u == m.ue
  IN  /\ N1Takes("initial") /\ m.kind = "service"
      /\ n1q' = Tail(n1q)
      /\ Moved(u, m.amf, m.ran)
      /\ n2q' = n2q \o OldReleased(u, m.ran) \o <<Msg("setup", m.amf, m.ran)>>
      /\ uc' = CopiedSessions(u, m.amf)
      /\ supi2uc' = [supi2uc EXCEPT ![u] = m.amf]
      /\ UNCHANGED <<ran, appq, n2, ngap, timers, released>>

\* A Deregistration Request in an Initial UE Message is only logged.
HandleInitialDeregistration ==
  LET m == Head(n1q)
  IN  /\ N1Takes("initial") /\ m.kind = "deregistration"
      /\ n1q' = Tail(n1q)
      /\ Moved(m.ue, m.amf, m.ran)
      /\ UNCHANGED <<ran, n2q, appq, n2, ngap, uc, supi2uc, timers, released>>

\* ue_initiate_de_registration_handle.  The SMF accepts the release or does not.
HandleDeregistration ==
  LET m == Head(n1q)
      u == amf2nc[m.amf]
      c == nc[u].amf
  IN  /\ N1Takes("uplink")
      /\ n1q' = Tail(n1q)
      /\ IF u = NoUe
         THEN UNCHANGED <<uc, amf2nc, n2q, released>>
         ELSE
            /\ released' = IF uc[c].sessions THEN released \cup {u} ELSE released
            /\ \E ok \in BOOLEAN : uc' = IF ok THEN [uc EXCEPT ![c].sessions = FALSE] ELSE uc
            /\ amf2nc' = [amf2nc EXCEPT ![m.amf] = NoUe]
            /\ n2q' = Append(n2q, Msg("command", m.amf, m.ran))
      /\ UNCHANGED <<ran, appq, n2, ngap, supi2uc, nc, supi2amf, timers>>

\* mobile_reachable_timer_timeout.
HandleMobileTimeout ==
  LET m == Head(n1q)
      u == amf2nc[m.amf]
  IN  /\ N1Takes("mobile")
      /\ n1q' = Tail(n1q)
      /\ timers' = IF u = NoUe THEN timers
                    ELSE timers \cup {[kind |-> "implicit", amf |-> m.amf]}
      /\ UNCHANGED <<ran, n2q, appq, n2, ngap, uc, supi2uc, nas, released>>

\* implicit_deregistration_timer_timeout: the ids are those of the latest
\* connection, whatever the timer was started for.
HandleImplicitTimeout ==
  LET m == Head(n1q)
      u == amf2nc[m.amf]
      c == nc[u].amf
  IN  /\ N1Takes("implicit")
      /\ n1q' = Tail(n1q)
      /\ IF u = NoUe
         THEN UNCHANGED <<n2q, released>>
         ELSE
            /\ released' = IF uc[c].sessions THEN released \cup {u} ELSE released
            /\ n2q' = Append(n2q, Msg("command", c, nc[u].ran))
      /\ UNCHANGED <<ran, appq, n2, ngap, uc, supi2uc, nas, timers>>

N1Task ==
  \/ HandleService \/ HandleInitialDeregistration \/ HandleDeregistration
  \/ HandleMobileTimeout \/ HandleImplicitTimeout

\* A timer fires.
Fire(t) ==
  /\ timers' = timers \ {t}
  /\ n1q' = Append(n1q, Msg(t.kind, t.amf, 0))
  /\ UNCHANGED <<ran, n2q, appq, n2, ngap, uc, supi2uc, nas, released>>

--------------------------------------------------------------------------------
UeAt(c) == CHOOSE u \in Ues : InitRan[u] = c

\* Every UE is connected: a state the registrations lead to, which gave the UEs
\* AMF UE NGAP IDs in the order of their RAN UE NGAP IDs.
Init ==
  LET First == 1 .. Cardinality(Ues)
  IN  /\ gnb = [r \in RanIds |-> IF r \in First THEN [ue |-> UeAt(r), amf |-> r, asked |-> FALSE]
                                               ELSE Free]
      /\ link = InitRan /\ gone = {}
      /\ n2q = <<>> /\ appq = <<>> /\ n1q = <<>> /\ n2 = NoWait
      /\ uncs = [c \in First |-> [ran |-> c, amf |-> c, tmsi |-> UeAt(c)]]
      /\ ran2unc = [r \in RanIds |-> IF r \in First THEN r ELSE 0]
      /\ amf2unc = [c \in Conns |-> IF c \in First THEN c ELSE 0]
      /\ uc = [c \in First |-> [ran |-> c, sessions |-> TRUE]]
      /\ supi2uc = InitRan /\ supi2amf = InitRan
      /\ nc = [u \in Ues |-> [amf |-> InitRan[u], ran |-> InitRan[u],
                              cm |-> "CM_CONNECTED"]]
      /\ amf2nc = [c \in Conns |-> IF c \in First THEN UeAt(c) ELSE NoUe]
      /\ timers = {} /\ released = {}

Next ==
  \/ \E u \in Ues, r \in RanIds, k \in Kinds : Attach(u, r, k)
  \/ \E r \in RanIds : Inactive(r)
  \/ \E u \in Ues : Leave(u)
  \/ N2Task
  \/ Establish
  \/ N1Task
  \/ \E t \in timers : Fire(t)

(* The tasks go on (the wait for the SMF has a time-out) and timers fire;   *)
(* nothing is owed by the gNB and the UEs.                                  *)
Fairness ==
  WF_vars(N2Task) /\ WF_vars(Establish) /\ WF_vars(N1Task) /\ WF_vars(\E t \in timers : Fire(t))

Spec     == Init /\ [][Next]_vars
FairSpec == Spec /\ Fairness

--------------------------------------------------------------------------------
MsgTypes == {"initial", "request", "uplink", "complete", "command", "setup", "mobile", "implicit"}
Msgs == [type : MsgTypes, ue : Ues \cup {NoUe}, ran : RanIds \cup {0}, amf : 0 .. MaxConns,
         kind : Kinds \cup MsgTypes]

\* Types of the contexts and queues of the three tasks.
TypeOK ==
  /\ gnb \in [RanIds -> [ue : Ues \cup {NoUe}, amf : 0 .. Len(uc), asked : BOOLEAN]]
  /\ link \in [Ues -> RanIds \cup {0}] /\ gone \subseteq Ues
  /\ \A q \in {n2q, appq, n1q} : \A i \in DOMAIN q : q[i] \in Msgs
  /\ Len(uc) <= MaxConns /\ Len(uncs) <= Len(uc) + Len(appq)
  /\ \A c \in DOMAIN uc : uc[c] \in [ran : RanIds, sessions : BOOLEAN]
  /\ ran2unc \in [RanIds -> 0 .. Len(uncs)] /\ amf2unc \in [Conns -> 0 .. Len(uncs)]
  /\ nc \in [Ues -> [amf : DOMAIN uc, ran : RanIds, cm : {"CM_IDLE", "CM_CONNECTED"}]]
  /\ amf2nc \in [Conns -> Ues \cup {NoUe}]
  /\ supi2amf \in [Ues -> DOMAIN uc] /\ supi2uc \in [Ues -> DOMAIN uc]
  /\ timers \subseteq [kind : {"mobile", "implicit"}, amf : DOMAIN uc]

(***************************************************************************)
(* A context the gNB uses is found by both of its ids and belongs to the   *)
(* UE behind it, although the gNB uses RAN ids again while the release of  *)
(* the connection that had them is still with the tasks                    *)
(* (ranid2uecontext, amfueid2uecontext in amf_n2.cpp).                     *)
(***************************************************************************)
NgapMapsAgree ==
  \A r \in RanIds : gnb[r].amf # 0 =>
    LET i == amf2unc[gnb[r].amf]
    IN  /\ i # 0 /\ ran2unc[r] = i
        /\ uncs[i] = [ran |-> r, amf |-> gnb[r].amf, tmsi |-> gnb[r].ue]

(***************************************************************************)
(* The PDU sessions follow the UE: as long as it does not deregister, the  *)
(* context of its latest connection, which the implicit deregistration     *)
(* looks at, has them (copy_pdu_sessions in service_request_handle).       *)
(***************************************************************************)
SessionsFollow ==
  \A u \in Ues \ gone : uc[nc[u].amf].sessions /\ supi2uc[u] = nc[u].amf

(***************************************************************************)
(* A UE that cannot be reached is watched: its release is on the way to    *)
(* the N2 task or in its hands, or one of the two timers runs or has       *)
(* fired, until its PDU sessions are released.                             *)
(***************************************************************************)
Watches(m, u) == m.type \in {"mobile", "implicit"} /\ amf2nc[m.amf] = u

Supervised ==
  \A u \in Ues \ gone : link[u] = 0 =>
    \/ \E i \in DOMAIN n2q : n2q[i].type = "complete" /\ amf2nc[n2q[i].amf] = u
    \/ n2.ue = u
    \/ \E t \in timers : amf2nc[t.amf] = u
    \/ \E i \in DOMAIN n1q : Watches(n1q[i], u)
    \/ u \in released

(***************************************************************************)
(* The late end of an old connection starts no timer for a UE whose newer  *)
(* one has been set up ("UE Context Release Complete for the old context"),*)
(* although the N1 task moves the UE to it at any time.                    *)
(***************************************************************************)
OldReleaseIgnored ==
  [][\A t \in timers' \ timers : t.kind = "mobile" =>
       \A u \in Ues, r \in RanIds : amf2nc[t.amf] = u => gnb[r].amf # nc[u].amf]_vars

\* A UE that stays out of reach has its PDU sessions released in the end.
SilentIsReleased ==
  \A u \in Ues : (link[u] = 0 /\ u \notin gone) ~> (link[u] # 0 \/ u \in released)

(***************************************************************************)
(* The timers watch over idle UEs ("Stop Mobile Reachable Timer/Implicit   *)
(* Deregistration Timer", amf_n1.cpp): the PDU sessions of a UE whose new  *)
(* connection has been set up are not released while it stays.             *)
(***************************************************************************)
Connected(u) == link[u] # 0 /\ gnb[link[u]].amf # 0

ConnectedIsKept ==
  [][\A u \in (released' \ released) \ gone : ~Connected(u)]_vars
================================================================================
