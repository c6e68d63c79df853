-------------------------- MODULE AmfSupervisionProofs -------------------------
(***************************************************************************)
(* What the N1 task of the AMF keeps for registered UEs: the NAS context   *)
(* of a UE and its PDU sessions follow its latest connection, the late end *)
(* of an older one starts no timer, and a UE out of reach is watched.      *)
(*                                                                         *)
(* Everything rests on the NGAP contexts (NgapInv in AmfConnectionProofs). *)
(* NasInv says to whom a connection belongs, OrderInv that the queues keep *)
(* the order in which a UE opened its connections.                         *)
(***************************************************************************)
EXTENDS AmfConnectionProofs

\* No Initial UE Message of the connection waits for the N1 task.
Unhandled(c) == \A m \in In(n1q) : m.type = "initial" => m.amf # c

\* The NAS context that the AMF UE NGAP ID leads to: that of the UE, until it
\* has deregistered.
Owner(c, u) == amf2nc[c] = u \/ (amf2nc[c] = NoUe /\ u \in gone)

Latest ==
  /\ \A u \in Ues : supi2amf[u] = nc[u].amf /\ Unhandled(nc[u].amf)
  /\ \A u, v \in Ues : nc[u].amf = nc[v].amf => u = v
  /\ \A m \in In(n1q) : m.type = "initial" => amf2nc[m.amf] = NoUe
  /\ \A c \in Conns : c \notin DOMAIN uc => amf2nc[c] = NoUe

Owned ==
  /\ \A m \in In(n2q) : m.type # "initial" => Unhandled(m.amf)
  /\ \A m \in In(n2q) : m.type = "setup" => Owner(m.amf, gnb[m.ran].ue)
  /\ \A r \in RanIds : gnb[r].amf # 0 => Unhandled(gnb[r].amf) /\ Owner(gnb[r].amf, gnb[r].ue)

\* Who deregisters, in whatever message, has left.
Leaving(q) == \A m \in In(q) : m.type = "initial" /\ m.kind = "deregistration" => m.ue \in gone
Left(c)    == amf2nc[c] \in gone \cup {NoUe}

Leaves ==
  /\ Leaving(n2q) /\ Leaving(appq) /\ Leaving(n1q)
  /\ \A m \in In(n2q) : m.type = "uplink" => Left(m.amf)
  /\ \A m \in In(n1q) : m.type = "uplink" => Unhandled(m.amf) /\ Left(m.amf)

Linked == \A u \in Ues : link[u] # 0 => gnb[link[u]].ue = u

NasInv == Latest /\ Owned /\ Leaves /\ Linked /\ SessionsFollow

--------------------------------------------------------------------------------
(* The steps that leave the NAS contexts to their connections, and what     *)
(* they send.                                                               *)
Aside ==
  \/ \E u \in Ues, r \in RanIds, k \in Kinds : Attach(u, r, k)
  \/ \E r \in RanIds : Inactive(r)
  \/ \E u \in Ues : Leave(u)
  \/ N2Task
  \/ HandleMobileTimeout \/ HandleImplicitTimeout
  \/ \E t \in timers : Fire(t)
  \/ UNCHANGED vars

LEMMA NextCases ==
  ASSUME [Next]_vars
  PROVE  \/ Aside \/ Establish \/ HandleService \/ HandleInitialDeregistration
         \/ HandleDeregistration
  BY DEF Next, N1Task, Aside

\* The N1 task takes a message, or gets one of another task.
LEMMA N1Queue ==
  ASSUME Types, Aside \/ HandleDeregistration
  PROVE  \A x \in In(n1q') : \/ x \in In(n1q) \/ x.type \in {"mobile", "implicit"}
                             \/ x.type = "uplink" /\ x \in In(n2q)
<1>1. CASE n1q' = n1q
  BY <1>1
<1>2. CASE n1q # <<>> /\ n1q' = Tail(n1q)
  BY <1>2, HeadTypes
<1>3. ASSUME NEW t \in timers, Fire(t)
      PROVE  \A x \in In(n1q') : x \in In(n1q) \/ x.type \in {"mobile", "implicit"}
  <2> DEFINE m == Msg(t.kind, t.amf, 0)
  <2>1. t.kind \in {"mobile", "implicit"} /\ t.amf \in 0 .. MaxConns
    BY Sizes DEF Types, NasTypes
  <2>2. m \in Msgs /\ m.type = t.kind
    BY <2>1, MsgType
  <2>3. n1q' = Append(n1q, m)
    BY <1>3 DEF Fire
  <2> HIDE DEF m
  <2> QED
    BY <2>1, <2>2, <2>3, SameQueues, Put
<1>4. ASSUME ReceiveUplink
      PROVE  \A x \in In(n1q') : x \in In(n1q) \/ (x.type = "uplink" /\ x \in In(n2q))
  <2>1. n2q # <<>> /\ Head(n2q).type = "uplink"
        /\ (n1q' = n1q \/ n1q' = Append(n1q, Head(n2q)))
    BY <1>4 DEF ReceiveUplink, N2Takes
  <2>2. Head(n2q) \in Msgs /\ Head(n2q) \in In(n2q)
    BY <2>1, HeadTypes
  <2>3. CASE n1q' = Append(n1q, Head(n2q))
    <3>1. In(n1q') = In(n1q) \cup {Head(n2q)}
      BY <2>2, <2>3, SameQueues, Put
    <3> QED
      BY <2>1, <2>2, <3>1
  <2> QED
    BY <2>1, <2>3
<1>5. \/ n1q' = n1q \/ (n1q # <<>> /\ n1q' = Tail(n1q)) \/ ReceiveUplink
      \/ \E t \in timers : Fire(t)
  BY DEF Aside, Attach, Inactive, Leave, N2Task, ReceiveInitial, ReceiveReleaseRequest,
         SendReleaseCommand, SetupContext, CompleteGoesIdle, CompleteRemoves, CompleteUnknown, CompleteOld,
         CompleteCurrent, HandleMobileTimeout, HandleImplicitTimeout, HandleDeregistration,
         N1Takes, vars
<1> QED
  BY <1>1, <1>2, <1>3, <1>4, <1>5

\* The names of the UEs and their contexts stay.
LEMMA AsideKeeps ==
  ASSUME Types, Aside
  PROVE  /\ UNCHANGED <<uc, supi2uc, amf2nc, supi2amf>>
         /\ \A u \in Ues : nc'[u].amf = nc[u].amf
         /\ gone \subseteq gone'
<1>1. CASE CompleteGoesIdle
  <2>1. /\ nc' = [nc EXCEPT ![n2.ue].cm = "CM_IDLE"]
        /\ UNCHANGED <<ran, uc, supi2uc, amf2nc, supi2amf>>
    BY <1>1 DEF CompleteGoesIdle
  <2>2. \A u \in Ues : nc'[u].amf = nc[u].amf
    BY <2>1 DEF Types, NasTypes
  <2> QED
    BY <2>1, <2>2 DEF ran
<1>2. CASE \E i \in DOMAIN n2q :
             CompleteUnknown(n2q[i]) \/ CompleteOld(n2q[i]) \/ CompleteCurrent(n2q[i])
  BY <1>2 DEF CompleteUnknown, CompleteOld, CompleteCurrent, ran, nas
<1>3. CASE \/ \E u \in Ues, r \in RanIds, k \in Kinds : Attach(u, r, k)
           \/ \E r \in RanIds : Inactive(r)
           \/ \E u \in Ues : Leave(u)
           \/ \E t \in timers : Fire(t)
  BY <1>3 DEF Attach, Inactive, Leave, Fire, ran, nas
<1>4. CASE ReceiveReleaseRequest \/ SendReleaseCommand
  BY <1>4 DEF ReceiveReleaseRequest, SendReleaseCommand, Command, ran, nas
<1>5. CASE \/ ReceiveInitial \/ ReceiveUplink \/ SetupContext \/ CompleteRemoves
           \/ HandleMobileTimeout \/ HandleImplicitTimeout \/ UNCHANGED vars
  BY <1>5 DEF ReceiveInitial, ReceiveUplink, SetupContext, CompleteGoesIdle, CompleteRemoves,
              HandleMobileTimeout, HandleImplicitTimeout, ran, nas, vars
<1> QED
  BY <1>1, <1>2, <1>3, <1>4, <1>5 DEF Aside, N2Task

\* What these steps send to the N2 task: nothing of a connection that waits for
\* the N1 task, and an uplink message only for who leaves.
Sent(x) ==
  /\ x.type # "setup" /\ (x.type # "initial" => Unhandled(x.amf))
  /\ x.type = "uplink" => amf2nc[x.amf] \in gone' \cup {NoUe}
  /\ x.type = "initial" /\ x.kind = "deregistration" => x.ue \in gone'

LEMMA CommandSends ==
  ASSUME Types, n2q # <<>>, NEW c \in DOMAIN uc, NEW r \in RanIds, Command(Tail(n2q), c, r)
  PROVE  \A x \in In(n2q') : x \in In(n2q) \/ (x.type = "complete" /\ x.amf = gnb[r].amf
                                               /\ gnb[r].amf # 0)
<1> DEFINE m == Msg("complete", c, r)
           q == Tail(n2q)
<1>1. m \in Msgs /\ m.type = "complete" /\ m.amf = c
  BY MsgType, Sizes
<1>2. n2q' = q \/ (n2q' = Append(q, m) /\ gnb[r].amf = c /\ c # 0)
  BY DEF Command
<1>3. q \in Seq(Msgs) /\ In(q) \subseteq In(n2q)
  BY HeadTypes
<1> HIDE DEF m, q
<1>4. In(Append(q, m)) = In(q) \cup {m}
  BY <1>1, <1>3, Put
<1> QED
  BY <1>1, <1>2, <1>3, <1>4

LEMMA AsideSends ==
  ASSUME Types, NgapInv, NasInv, Aside
  PROVE  \A x \in In(n2q') : x \in In(n2q) \/ Sent(x)
<1>1. CASE n2q' = n2q \/ (n2q # <<>> /\ n2q' = Tail(n2q))
  BY <1>1, HeadTypes
<1>2. ASSUME NEW u \in Ues, NEW r \in RanIds, NEW k \in Kinds, Attach(u, r, k)
      PROVE  \A x \in In(n2q') : x \in In(n2q) \/ Sent(x)
  <2> DEFINE m == Initial(u, r, 0, k)
  <2>1. m \in Msgs /\ m.type = "initial" /\ m.ue = u /\ m.kind = k
    BY InitialType, Sizes
  <2>2. n2q' = Append(n2q, m) /\ (k = "deregistration" => u \in gone')
    BY <1>2 DEF Attach
  <2> HIDE DEF m
  <2> QED
    BY <2>1, <2>2, SameQueues, Put DEF Sent
<1>3. ASSUME NEW r \in RanIds, Inactive(r)
      PROVE  \A x \in In(n2q') : x \in In(n2q) \/ Sent(x)
  <2> DEFINE m == Msg("request", gnb[r].amf, r)
  <2>1. gnb[r].amf \in 0 .. MaxConns /\ gnb[r].amf # 0
    BY <1>3, Sizes DEF Types, RanTypes, Inactive
  <2>2. m \in Msgs /\ m.type = "request" /\ m.amf = gnb[r].amf
    BY <2>1, MsgType
  <2>3. n2q' = Append(n2q, m)
    BY <1>3 DEF Inactive
  <2> HIDE DEF m
  <2>4. Sent(m)
    BY <2>1, <2>2 DEF Sent, NasInv, Owned
  <2> QED
    BY <2>2, <2>3, <2>4, SameQueues, Put
<1>4. ASSUME NEW u \in Ues, Leave(u)
      PROVE  \A x \in In(n2q') : x \in In(n2q) \/ Sent(x)
  <2> DEFINE m == Msg("uplink", gnb[link[u]].amf, link[u])
  <2>1. link[u] \in RanIds /\ gnb[link[u]].amf \in 0 .. MaxConns /\ gnb[link[u]].amf # 0
    BY <1>4, Sizes DEF Types, RanTypes, Leave
  <2>2. m \in Msgs /\ m.type = "uplink" /\ m.amf = gnb[link[u]].amf
    BY <2>1, MsgType
  <2>3. n2q' = Append(n2q, m) /\ gone' = gone \cup {u}
    BY <1>4 DEF Leave
  <2> HIDE DEF m
  <2>4. gnb[link[u]].ue = u
    BY <2>1, Sizes DEF NasInv, Linked
  <2>5. Sent(m)
    BY <2>1, <2>2, <2>3, <2>4 DEF Sent, NasInv, Owned, Owner
  <2> QED
    BY <2>2, <2>3, <2>5, SameQueues, Put
<1>5. ASSUME ReceiveReleaseRequest \/ SendReleaseCommand
      PROVE  \A x \in In(n2q') : x \in In(n2q) \/ Sent(x)
  <2> DEFINE m == Head(n2q)
  <2>1. /\ n2q # <<>> /\ m.type # "initial"
        /\ Command(Tail(n2q), m.amf, m.ran) \/ n2q' = Tail(n2q)
    BY <1>5 DEF ReceiveReleaseRequest, SendReleaseCommand, N2Takes
  <2>2. m.amf \in DOMAIN uc /\ m.ran \in RanIds
    BY <2>1, HeadTypes, QueueFacts
  <2> HIDE DEF m
  <2>3. CASE Command(Tail(n2q), m.amf, m.ran)
    <3>1. \A x \in In(n2q') : x \in In(n2q) \/ (x.type = "complete" /\ x.amf = gnb[m.ran].amf
                                                /\ gnb[m.ran].amf # 0)
      BY <2>1, <2>2, <2>3, CommandSends
    <3> QED
      BY <2>2, <3>1 DEF Sent, NasInv, Owned
  <2> QED
    BY <1>1, <2>1, <2>3
<1>6. ASSUME HandleImplicitTimeout
      PROVE  \A x \in In(n2q') : x \in In(n2q) \/ Sent(x)
  <2> DEFINE u == amf2nc[Head(n1q).amf]
             m == Msg("command", nc[u].amf, nc[u].ran)
  <2>1. /\ n2q' = n2q \/ (u # NoUe /\ n2q' = Append(n2q, m))
        /\ n1q # <<>> /\ n1q' = Tail(n1q)
    BY <1>6 DEF HandleImplicitTimeout, N1Takes
  <2>2. CASE u # NoUe /\ n2q' = Append(n2q, m)
    <3>1. u \in Ues /\ nc[u].amf \in 0 .. MaxConns /\ nc[u].ran \in RanIds
      BY <2>1, <2>2, N1Tail, Sizes DEF Types, NasTypes
    <3>2. m \in Msgs /\ m.type = "command" /\ m.amf = nc[u].amf
      BY <3>1, MsgType
    <3> HIDE DEF m, u
    <3>3. Sent(m)
      BY <3>1, <3>2 DEF Sent, NasInv, Latest
    <3> QED
      BY <2>2, <3>2, <3>3, SameQueues, Put
  <2> QED
    BY <1>1, <2>1, <2>2
<1>7. CASE \/ ReceiveInitial \/ ReceiveUplink \/ SetupContext \/ CompleteGoesIdle
           \/ CompleteRemoves \/ HandleMobileTimeout \/ UNCHANGED vars \/ \E t \in timers : Fire(t)
  BY <1>1, <1>7 DEF ReceiveInitial, ReceiveUplink, SetupContext, CompleteGoesIdle, CompleteRemoves, N2Takes,
                    HandleMobileTimeout, Fire, vars
<1>8. CASE \E i \in DOMAIN n2q : CompleteUnknown(n2q[i]) \/ CompleteOld(n2q[i]) \/ CompleteCurrent(n2q[i])
  BY <1>1, <1>8 DEF CompleteUnknown, CompleteOld, CompleteCurrent, Completes, N2Takes
<1> QED
  BY <1>2, <1>3, <1>4, <1>5, <1>6, <1>7, <1>8 DEF Aside, N2Task

\* What these steps make of the contexts in the gNB.
Follows ==
  /\ \A r \in RanIds : gnb'[r].amf # 0 =>
       /\ gnb'[r].ue = gnb[r].ue
       /\ \/ gnb'[r].amf = gnb[r].amf
          \/ \E m \in In(n2q) : m.type = "setup" /\ m.ran = r /\ m.amf = gnb'[r].amf
  /\ \A m \in In(n2q) : m.type = "setup" => gnb'[m.ran].ue = gnb[m.ran].ue

LEMMA CommandFollows ==
  ASSUME Types, NgapInv, Linked, NEW q, NEW c, NEW r \in RanIds, Command(q, c, r)
  PROVE  Follows /\ Linked'
<1>1. CASE c # 0 /\ gnb[r].amf = c
  <2>1. gnb' = [gnb EXCEPT ![r] = Free]
        /\ link' = [u \in Ues |-> IF u = gnb[r].ue /\ link[u] = r THEN 0 ELSE link[u]]
    BY <1>1 DEF Command
  <2>2. gnb'[r].amf = 0 /\ \A s \in RanIds \ {r} : gnb'[s] = gnb[s]
    BY <2>1 DEF Types, RanTypes, Free
  <2>3. \A m \in In(n2q) : m.type = "setup" => m.ran \in RanIds \ {r}
    BY <1>1, SetUpIsFresh, QueueFacts DEF Fresh, Staged
  <2>4. Linked'
    <3>1. \A u \in Ues : link'[u] # 0 => link[u] \in RanIds \ {r} /\ link'[u] = link[u]
      BY <2>1 DEF Types, RanTypes, Linked
    <3> QED
      BY <2>2, <3>1, Sizes DEF Linked
  <2> QED
    BY <2>2, <2>3, <2>4 DEF Follows
<1>2. CASE ~(c # 0 /\ gnb[r].amf = c)
  BY <1>2 DEF Command, ran, Follows, Linked
<1> QED
  BY <1>1, <1>2

LEMMA AsideFollows ==
  ASSUME Types, NgapInv, Linked, Aside
  PROVE  Follows /\ Linked'
<1>1. CASE gnb' = gnb /\ link' = link
  BY <1>1 DEF Follows, Linked
<1>2. ASSUME NEW u \in Ues, NEW r \in RanIds, NEW k \in Kinds, Attach(u, r, k)
      PROVE  Follows /\ Linked'
  <2>1. gnb[r] = Free /\ gnb' = [gnb EXCEPT ![r] = [ue |-> u, amf |-> 0, asked |-> FALSE]]
        /\ link' = [link EXCEPT ![u] = r]
    BY <1>2 DEF Attach, Used
  <2>2. gnb'[r].ue = u /\ gnb'[r].amf = 0 /\ \A s \in RanIds \ {r} : gnb'[s] = gnb[s]
    BY <2>1 DEF Types, RanTypes
  <2>3. gnb[r].ue \notin Ues
    BY <2>1, Sizes DEF Free
  <2>4. \A m \in In(n2q) : m.type = "setup" => m.ran \in RanIds \ {r}
    BY <2>3, SetUpIsFresh, QueueFacts DEF Fresh, Staged
  <2>5. Linked'
    <3>1. link'[u] = r /\ \A v \in Ues \ {u} : link'[v] = link[v]
      BY <2>1 DEF Types, RanTypes
    <3>2. \A v \in Ues : link[v] # 0 => link[v] \in RanIds \ {r}
      BY <2>3 DEF Types, RanTypes, Linked
    <3> QED
      BY <2>2, <3>1, <3>2 DEF Linked
  <2> QED
    BY <2>2, <2>4, <2>5 DEF Follows
<1>3. ASSUME NEW r \in RanIds, Inactive(r) PROVE Follows /\ Linked'
  <2>1. gnb' = [gnb EXCEPT ![r].asked = TRUE] /\ link' = link
    BY <1>3 DEF Inactive
  <2>2. \A s \in RanIds : gnb'[s].amf = gnb[s].amf /\ gnb'[s].ue = gnb[s].ue
    BY <2>1 DEF Types, RanTypes
  <2>3. \A u \in Ues : link[u] # 0 => link[u] \in RanIds
    BY DEF Types, RanTypes
  <2> QED
    BY <2>1, <2>2, <2>3, QueueFacts DEF Follows, Linked
<1>4. ASSUME ReceiveReleaseRequest \/ SendReleaseCommand PROVE Follows /\ Linked'
  <2> DEFINE m == Head(n2q)
  <2>1. /\ n2q # <<>>
        /\ Command(Tail(n2q), m.amf, m.ran) \/ UNCHANGED ran
    BY <1>4 DEF ReceiveReleaseRequest, SendReleaseCommand, N2Takes
  <2>2. m.ran \in RanIds
    BY <2>1, HeadTypes, QueueFacts
  <2> QED
    BY <1>1, <2>1, <2>2, CommandFollows DEF ran
<1>5. ASSUME SetupContext PROVE Follows /\ Linked'
  <2> DEFINE m == Head(n2q)
  <2>1. /\ n2q # <<>> /\ m.type = "setup" /\ link' = link
        /\ gnb' = [gnb EXCEPT ![m.ran].amf = m.amf] \/ gnb' = gnb
    BY <1>5 DEF SetupContext, N2Takes
  <2>2. m \in In(n2q) /\ m.ran \in RanIds
    BY <2>1, HeadTypes, QueueFacts
  <2> HIDE DEF m
  <2>3. CASE gnb' = [gnb EXCEPT ![m.ran].amf = m.amf]
    <3>1. /\ \A s \in RanIds : gnb'[s].ue = gnb[s].ue
          /\ gnb'[m.ran].amf = m.amf /\ \A s \in RanIds \ {m.ran} : gnb'[s] = gnb[s]
      BY <2>2, <2>3 DEF Types, RanTypes
    <3>2. \A u \in Ues : link[u] # 0 => link[u] \in RanIds
      BY DEF Types, RanTypes
    <3>3. Linked'
      BY <2>1, <3>1, <3>2 DEF Linked
    <3> QED
      BY <2>1, <2>2, <3>1, <3>3, QueueFacts DEF Follows
  <2> QED
    BY <1>1, <2>1, <2>3
<1>6. CASE \/ \E u \in Ues : Leave(u)
           \/ \E t \in timers : Fire(t)
           \/ ReceiveInitial \/ ReceiveUplink \/ CompleteGoesIdle \/ CompleteRemoves
           \/ HandleMobileTimeout \/ HandleImplicitTimeout \/ UNCHANGED vars
           \/ \E i \in DOMAIN n2q : \/ CompleteUnknown(n2q[i]) \/ CompleteOld(n2q[i])
                                    \/ CompleteCurrent(n2q[i])
  BY <1>1, <1>6 DEF Leave, Fire, ReceiveInitial, ReceiveUplink, CompleteGoesIdle, CompleteRemoves,
                    HandleMobileTimeout, HandleImplicitTimeout, CompleteUnknown, CompleteOld,
                    CompleteCurrent, ran, vars
<1> QED
  BY <1>2, <1>3, <1>4, <1>5, <1>6 DEF Aside, N2Task

LEMMA AppQueue ==
  ASSUME Types, Aside \/ HandleDeregistration \/ HandleService \/ HandleInitialDeregistration
  PROVE  \A x \in In(appq') : x \in In(appq) \/ x \in In(n2q)
<1>1. CASE ReceiveInitial
  <2>1. n2q # <<>> /\ appq' = Append(appq, Head(n2q))
    BY <1>1 DEF ReceiveInitial, N2Takes
  <2>2. Head(n2q) \in Msgs /\ Head(n2q) \in In(n2q)
    BY <2>1, HeadTypes
  <2>3. In(appq') = In(appq) \cup {Head(n2q)}
    BY <2>1, <2>2, SameQueues, Put
  <2> QED
    BY <2>2, <2>3
<1>2. appq' = appq \/ ReceiveInitial
  BY DEF Aside, Attach, Inactive, Leave, N2Task, ReceiveUplink, ReceiveReleaseRequest,
         SendReleaseCommand, SetupContext, CompleteGoesIdle, CompleteRemoves, CompleteUnknown, CompleteOld,
         CompleteCurrent, HandleMobileTimeout, HandleImplicitTimeout, HandleDeregistration,
         HandleService, HandleInitialDeregistration, Fire, vars
<1> QED
  BY <1>1, <1>2

LEMMA AsideNas ==
  ASSUME Types, NgapInv, NasInv, Aside
  PROVE  NasInv'
<1>1. /\ UNCHANGED <<uc, supi2uc, amf2nc, supi2amf>> /\ gone \subseteq gone'
      /\ \A u \in Ues : nc'[u].amf = nc[u].amf
  BY AsideKeeps
<1>2. \A x \in In(n2q') : x \in In(n2q) \/ Sent(x)
  BY AsideSends
<1>3. \A x \in In(n1q') : \/ x \in In(n1q) \/ x.type \in {"mobile", "implicit"}
                          \/ x.type = "uplink" /\ x \in In(n2q)
  BY N1Queue
<1>4. \A x \in In(appq') : x \in In(appq) \/ x \in In(n2q)
  BY AppQueue
<1>5. Follows /\ Linked'
  BY AsideFollows DEF NasInv
<1>6. \A c : Unhandled(c) => Unhandled(c)'
  BY <1>3 DEF Unhandled
<1>7. \A c, u : Owner(c, u) => Owner(c, u)'
  BY <1>1 DEF Owner
<1>8. Latest'
  BY <1>1, <1>3, <1>6 DEF NasInv, Latest
<1>9. Owned'
  <2>1. \A m \in In(n2q') : m.type # "initial" => Unhandled(m.amf)'
    BY <1>2, <1>6 DEF NasInv, Owned, Sent
  <2>2. \A m \in In(n2q') : m.type = "setup" => Owner(m.amf, gnb[m.ran].ue)'
    <3>1. \A m \in In(n2q') : m.type = "setup" => m \in In(n2q) /\ Owner(m.amf, gnb[m.ran].ue)
      BY <1>2 DEF NasInv, Owned, Sent
    <3> QED
      BY <1>1, <1>5, <3>1 DEF Follows, Owner
  <2>3. \A r \in RanIds : gnb'[r].amf # 0 => Unhandled(gnb[r].amf)' /\ Owner(gnb[r].amf, gnb[r].ue)'
    <3> SUFFICES ASSUME NEW r \in RanIds, gnb'[r].amf # 0
                 PROVE  \A c : c = gnb'[r].amf => Unhandled(c)' /\ Owner(c, gnb[r].ue)'
      OBVIOUS
    <3>1. \A c : c = gnb'[r].amf => Unhandled(c) /\ Owner(c, gnb[r].ue)
      BY <1>5 DEF Follows, NasInv, Owned
    <3>2. gnb'[r].ue = gnb[r].ue
      BY <1>5 DEF Follows
    <3> QED
      BY <1>1, <1>6, <3>1, <3>2 DEF Owner
  <2> QED
    BY <2>1, <2>2, <2>3 DEF Owned
<1>10. Leaves'
  <2>1. Leaving(n2q)'
    BY <1>1, <1>2 DEF NasInv, Leaves, Leaving, Sent
  <2>2. Leaving(appq)'
    BY <1>1, <1>4 DEF NasInv, Leaves, Leaving
  <2>3. Leaving(n1q)'
    BY <1>1, <1>3 DEF NasInv, Leaves, Leaving
  <2>4. \A m \in In(n2q') : m.type = "uplink" => Left(m.amf)'
    BY <1>1, <1>2 DEF NasInv, Leaves, Left, Sent
  <2>5. \A m \in In(n1q') : m.type = "uplink" => Unhandled(m.amf)' /\ Left(m.amf)'
    BY <1>1, <1>3, <1>6 DEF NasInv, Leaves, Owned, Left
  <2> QED
    BY <2>1, <2>2, <2>3, <2>4, <2>5 DEF Leaves
<1>11. SessionsFollow'
  BY <1>1 DEF NasInv, SessionsFollow
<1> QED
  BY <1>5, <1>8, <1>9, <1>10, <1>11 DEF NasInv

\* The message that reaches the N1 task with a new AMF UE NGAP ID.
LEMMA EstablishSends ==
  ASSUME Types, Establish, NEW m, m = Head(appq), NEW z, z = [m EXCEPT !.amf = Len(uc) + 1]
  PROVE  /\ appq # <<>> /\ m \in In(appq) /\ m.type = "initial" /\ m.ue \in Ues /\ m.ran \in RanIds
         /\ appq' = Tail(appq) /\ n1q' = Append(n1q, z)
         /\ z \in Msgs /\ z.type = "initial" /\ z.amf = Len(uc) + 1
         /\ z.ue = m.ue /\ z.ran = m.ran /\ z.kind = m.kind
         /\ z.amf \in Conns /\ z.amf \notin DOMAIN uc /\ In(n1q') = In(n1q) \cup {z}
         /\ DOMAIN uc \subseteq DOMAIN uc' /\ \A d \in DOMAIN uc : uc'[d] = uc[d]
         /\ UNCHANGED <<ran, n2q, n2, ran2unc, supi2uc, nas, timers, released>>
<1>1. /\ appq # <<>> /\ appq' = Tail(appq) /\ n1q' = Append(n1q, z)
      /\ uc' = Append(uc, [ran |-> m.ran, sessions |-> FALSE])
      /\ UNCHANGED <<ran, n2q, n2, ran2unc, supi2uc, nas, timers, released>>
  BY DEF Establish
<1>2. m \in In(appq) /\ m \in Msgs /\ m.type = "initial" /\ m.ue \in Ues /\ m.ran \in RanIds
  BY <1>1, HeadTypes, QueueFacts
<1>3. Len(uc) + 1 \in Conns /\ Len(uc) + 1 \notin DOMAIN uc /\ Len(uc) + 1 \in 0 .. MaxConns
  <2>1. Len(appq) > 0
    BY <1>1, SameQueues, Took
  <2> QED
    BY <2>1, Sizes DEF Conns
<1>4. /\ z \in Msgs /\ z.type = "initial" /\ z.amf = Len(uc) + 1
      /\ z.ue = m.ue /\ z.ran = m.ran /\ z.kind = m.kind
  BY <1>2, <1>3 DEF Msgs
<1>5. In(n1q') = In(n1q) \cup {z}
  <2>1. \A y \in Msgs : In(Append(n1q, y)) = In(n1q) \cup {y}
    BY SameQueues, Put
  <2> QED
    BY <1>1, <1>4, <2>1
<1>6. DOMAIN uc \subseteq DOMAIN uc' /\ \A d \in DOMAIN uc : uc'[d] = uc[d]
  <2> DEFINE e == [ran |-> m.ran, sessions |-> FALSE]
  <2>1. e \in Ucs /\ uc' = Append(uc, e) /\ uc \in Seq(Ucs)
    BY <1>1, <1>2, SameQueues DEF Ucs
  <2> HIDE DEF e
  <2>2. /\ DOMAIN uc' = 1 .. Len(uc) + 1 /\ DOMAIN uc = 1 .. Len(uc)
        /\ \A d \in 1 .. Len(uc) : uc'[d] = uc[d]
    BY <2>1, Sizes, AppendProperties, LenProperties
  <2> QED
    BY <2>2, Sizes
<1> QED
  BY <1>1, <1>2, <1>3, <1>4, <1>5, <1>6

LEMMA EstablishNas ==
  ASSUME Types, NgapInv, NasInv, Establish
  PROVE  NasInv'
<1> DEFINE m == Head(appq)
           z == [m EXCEPT !.amf = Len(uc) + 1]
<1>1. /\ m = Head(appq) /\ z = [m EXCEPT !.amf = Len(uc) + 1]
  OBVIOUS
<1> HIDE DEF m, z
<1>2. /\ appq # <<>> /\ m \in In(appq) /\ m.type = "initial" /\ appq' = Tail(appq)
      /\ z.type = "initial" /\ z.ue = m.ue /\ z.kind = m.kind
      /\ z.amf \in Conns /\ z.amf \notin DOMAIN uc /\ In(n1q') = In(n1q) \cup {z}
  BY <1>1, EstablishSends
<1>3. /\ DOMAIN uc \subseteq DOMAIN uc' /\ \A d \in DOMAIN uc : uc'[d] = uc[d]
      /\ UNCHANGED <<ran, n2q, n2, ran2unc, supi2uc, nas, timers, released>>
  BY <1>1, EstablishSends
<1>4. \A c \in DOMAIN uc : Unhandled(c) => Unhandled(c)'
  BY <1>2 DEF Unhandled
<1>5. In(appq') \subseteq In(appq)
  BY <1>2, HeadTypes
<1>6. /\ \A u \in Ues : nc[u].amf \in DOMAIN uc
      /\ \A r \in RanIds : gnb[r].amf # 0 => gnb[r].amf \in DOMAIN uc
  BY Sizes DEF Types, NasTypes, RanTypes
<1>7. Latest'
  <2>1. \A u \in Ues : supi2amf'[u] = nc'[u].amf /\ Unhandled(nc[u].amf)'
    BY <1>3, <1>4, <1>6 DEF NasInv, Latest, nas
  <2>2. \A x \in In(n1q') : x.type = "initial" => amf2nc'[x.amf] = NoUe
    BY <1>2, <1>3 DEF NasInv, Latest, nas
  <2> QED
    BY <1>3, <2>1, <2>2 DEF NasInv, Latest, nas
<1>8. Owned'
  <2>1. \A x \in In(n2q) : x.type # "initial" => x.amf \in DOMAIN uc
    BY QueueFacts
  <2>2. \A x \in In(n2q') : x.type # "initial" => Unhandled(x.amf)'
    BY <1>3, <1>4, <2>1 DEF NasInv, Owned
  <2>3. \A x \in In(n2q') : x.type = "setup" => Owner(x.amf, gnb[x.ran].ue)'
    BY <1>3 DEF NasInv, Owned, Owner, nas, ran
  <2>4. \A r \in RanIds : gnb'[r].amf # 0 => Unhandled(gnb[r].amf)' /\ Owner(gnb[r].amf, gnb[r].ue)'
    BY <1>3, <1>4, <1>6 DEF NasInv, Owned, Owner, nas, ran
  <2> QED
    BY <2>2, <2>3, <2>4 DEF Owned
<1>9. Leaves'
  <2>1. \A x \in In(n1q) : x.amf \in DOMAIN uc
    BY QueueFacts
  <2>2. Leaving(n2q)' /\ Leaving(appq)' /\ Leaving(n1q)'
    BY <1>2, <1>3, <1>5 DEF NasInv, Leaves, Leaving, ran
  <2>3. \A x \in In(n2q') : x.type = "uplink" => Left(x.amf)'
    BY <1>3 DEF NasInv, Leaves, Left, ran, nas
  <2>4. \A x \in In(n1q') : x.type = "uplink" => x \in In(n1q)
    BY <1>2
  <2>5. \A x \in In(n1q') : x.type = "uplink" => Unhandled(x.amf)' /\ Left(x.amf)'
    BY <1>3, <1>4, <2>1, <2>4 DEF NasInv, Leaves, Left, ran, nas
  <2> QED
    BY <2>2, <2>3, <2>5 DEF Leaves
<1>10. Linked'
  BY <1>3 DEF NasInv, Linked, ran
<1>11. SessionsFollow'
  BY <1>3, <1>6 DEF NasInv, SessionsFollow, ran, nas
<1> QED
  BY <1>7, <1>8, <1>9, <1>10, <1>11 DEF NasInv

\* An Initial UE Message that the N1 task takes is the only one of its connection.
LEMMA TakenIsUnhandled ==
  ASSUME Types, NgapInv, n1q # <<>>, n1q' = Tail(n1q), Head(n1q).type = "initial",
         NEW c, c = Head(n1q).amf
  PROVE  Unhandled(c)'
<1> DEFINE m == Head(n1q)
<1>1. m \in In(n1q) /\ In(n1q') \subseteq In(n1q) /\ Fresh(n1q', m.ran)
  BY TookN1
<1>2. \A x \in In(n1q) : x.type = "initial" => uc[x.amf].ran = x.ran
  BY DEF NgapInv, Stages, Bound
<1>3. \A x \in In(n1q') : x.type = "initial" => x.ran # m.ran
  BY <1>1 DEF Fresh, Staged
<1>4. \A x \in In(n1q') : x.type = "initial" => x.amf # m.amf
  BY <1>1, <1>2, <1>3
<1> QED
  BY <1>4 DEF Unhandled

\* The NAS context moves to the connection of the message.
LEMMA MovedFacts ==
  ASSUME Types, NgapInv, NasInv, n1q # <<>>, n1q' = Tail(n1q), NEW m, m = Head(n1q),
         m.type = "initial", Moved(m.ue, m.amf, m.ran)
  PROVE  /\ m \in In(n1q) /\ m.ue \in Ues /\ m.amf \in DOMAIN uc /\ m.amf \in Conns /\ m.ran \in RanIds
         /\ In(n1q') \subseteq In(n1q) /\ Unhandled(m.amf)' /\ amf2nc[m.amf] = NoUe
         /\ nc'[m.ue].amf = m.amf /\ supi2amf'[m.ue] = m.amf /\ amf2nc'[m.amf] = m.ue
         /\ \A u \in Ues \ {m.ue} : nc'[u].amf = nc[u].amf /\ supi2amf'[u] = supi2amf[u]
         /\ \A c \in Conns \ {m.amf} : amf2nc'[c] = amf2nc[c]
         /\ \A u \in Ues : nc[u].amf # m.amf
         /\ Waits(m.ran, m.ue)
<1>1. m \in In(n1q) /\ m.ue \in Ues /\ m.amf \in DOMAIN uc /\ m.amf \in Conns /\ m.ran \in RanIds
      /\ In(n1q') \subseteq In(n1q)
  BY HeadTypes, QueueFacts, Sizes
<1>2. Unhandled(m.amf)'
  <2>1. \A c : c = m.amf => Unhandled(c)'
    BY TakenIsUnhandled
  <2>2. Unhandled(m.amf)' <=> \A x \in In(n1q') : x.type = "initial" => x.amf # m.amf
    BY DEF Unhandled
  <2> QED
    BY <2>1, <2>2 DEF Unhandled
<1>3. amf2nc[m.amf] = NoUe /\ (\A u \in Ues : nc[u].amf # m.amf) /\ Waits(m.ran, m.ue)
  BY <1>1 DEF NasInv, Latest, Unhandled, NgapInv, Stages
<1>4. /\ supi2amf'[m.ue] = m.amf /\ \A u \in Ues \ {m.ue} : supi2amf'[u] = supi2amf[u]
      /\ amf2nc'[m.amf] = m.ue /\ \A c \in Conns \ {m.amf} : amf2nc'[c] = amf2nc[c]
  BY <1>1 DEF Moved, Types, NasTypes
<1>5. nc'[m.ue].amf = m.amf /\ \A u \in Ues \ {m.ue} : nc'[u].amf = nc[u].amf
  <2> DEFINE e == [nc[m.ue] EXCEPT !.amf = m.amf, !.ran = m.ran]
  <2>1. e.amf = m.amf
    <3>1. nc[m.ue] \in [amf : DOMAIN uc, ran : RanIds, cm : {"CM_IDLE", "CM_CONNECTED"}]
      BY <1>1 DEF Types, NasTypes
    <3> QED
      BY <3>1
  <2>2. nc' = [nc EXCEPT ![m.ue] = e]
    BY DEF Moved
  <2> HIDE DEF e
  <2> QED
    BY <1>1, <2>1, <2>2 DEF Types, NasTypes
<1> QED
  BY <1>1, <1>2, <1>3, <1>4, <1>5

LEMMA MovedNas ==
  ASSUME Types, NgapInv, NasInv, n1q # <<>>, n1q' = Tail(n1q), NEW m, m = Head(n1q),
         m.type = "initial", Moved(m.ue, m.amf, m.ran),
         UNCHANGED <<ran, appq>>, DOMAIN uc' = DOMAIN uc,
         \A x \in In(n2q') : \/ x \in In(n2q)
                             \/ x.type = "command" /\ x.amf = nc[m.ue].amf
                             \/ x.type = "setup" /\ x.amf = m.amf /\ x.ran = m.ran
  PROVE  Latest' /\ Owned' /\ Leaves' /\ Linked'
<1>1. /\ m \in In(n1q) /\ m.ue \in Ues /\ m.amf \in DOMAIN uc /\ m.amf \in Conns /\ m.ran \in RanIds
      /\ In(n1q') \subseteq In(n1q) /\ amf2nc[m.amf] = NoUe /\ Waits(m.ran, m.ue)
  BY MovedFacts
<1>2. \A x : x = m.amf => Unhandled(x)'
  BY TakenIsUnhandled
<1>3. /\ nc'[m.ue].amf = m.amf /\ supi2amf'[m.ue] = m.amf /\ amf2nc'[m.amf] = m.ue
      /\ \A u \in Ues \ {m.ue} : nc'[u].amf = nc[u].amf /\ supi2amf'[u] = supi2amf[u]
      /\ \A c \in Conns \ {m.amf} : amf2nc'[c] = amf2nc[c]
      /\ \A u \in Ues : nc[u].amf # m.amf
  BY MovedFacts
<1>4. \A c : Unhandled(c) => c # m.amf
  BY <1>1 DEF Unhandled
<1>5. \A c : Unhandled(c) => Unhandled(c)'
  BY <1>1 DEF Unhandled
<1>6. \A c \in Conns : \A u : c # m.amf /\ Owner(c, u) => Owner(c, u)'
  BY <1>3 DEF Owner, ran
<1>7. DOMAIN uc \subseteq Conns
  BY Sizes
<1>8. Latest'
  <2>1. \A u \in Ues : supi2amf'[u] = nc'[u].amf
    BY <1>3 DEF NasInv, Latest
  <2>2. \A u \in Ues \ {m.ue} : Unhandled(nc[u].amf)'
    <3>1. \A u \in Ues \ {m.ue} : Unhandled(nc[u].amf)
      BY DEF NasInv, Latest
    <3>2. \A u \in Ues \ {m.ue} : \A c : c = nc[u].amf => Unhandled(c)'
      BY <1>5, <3>1
    <3>3. \A u \in Ues \ {m.ue} : \A x \in In(n1q') : x.type = "initial" => x.amf # nc'[u].amf
      BY <1>3, <3>2 DEF Unhandled
    <3> QED
      BY <3>3 DEF Unhandled
  <2>3. Unhandled(nc[m.ue].amf)'
    <3>1. \A x \in In(n1q') : x.type = "initial" => x.amf # nc'[m.ue].amf
      BY <1>2, <1>3 DEF Unhandled
    <3>2. \A y : y = m.ue => Unhandled(nc[y].amf)'
      BY <3>1 DEF Unhandled
    <3> QED
      BY <3>1 DEF Unhandled
  <2>4. \A u, v \in Ues : nc'[u].amf = nc'[v].amf => u = v
    BY <1>3 DEF NasInv, Latest
  <2>5. \A x \in In(n1q') : x.type = "initial" => amf2nc'[x.amf] = NoUe
    <3>1. \A x \in In(n1q') : x.type = "initial" => x.amf # m.amf /\ x.amf \in Conns /\ x \in In(n1q)
      BY <1>1, <1>2, <1>7, QueueFacts DEF Unhandled
    <3> QED
      BY <1>3, <3>1 DEF NasInv, Latest
  <2>6. \A c \in Conns : c \notin DOMAIN uc' => amf2nc'[c] = NoUe
    BY <1>1, <1>3 DEF NasInv, Latest
  <2> QED
    BY <2>1, <2>2, <2>3, <2>4, <2>5, <2>6 DEF Latest
<1>9. Owned'
  <2>1. Unhandled(nc[m.ue].amf)
    BY <1>1 DEF NasInv, Latest
  <2>2. \A x \in In(n2q') : x.type # "initial" => Unhandled(x.amf)'
    BY <1>2, <1>5, <2>1 DEF NasInv, Owned
  <2>3. \A x \in In(n2q') : x.type = "setup" => Owner(x.amf, gnb[x.ran].ue)'
    <3>1. ASSUME NEW x \in In(n2q), x.type = "setup" PROVE Owner(x.amf, gnb[x.ran].ue)'
      <4>1. x.amf \in Conns /\ x.amf # m.amf /\ Owner(x.amf, gnb[x.ran].ue)
        BY <1>4, <1>7, <3>1, QueueFacts DEF NasInv, Owned
      <4>2. gnb' = gnb
        BY DEF ran
      <4> QED
        BY <1>6, <4>1, <4>2
    <3>2. \A x : x.amf = m.amf /\ x.ran = m.ran => Owner(x.amf, gnb[x.ran].ue)'
      BY <1>1, <1>3 DEF Owner, Waits, ran
    <3> QED
      BY <3>1, <3>2
  <2>4. \A r \in RanIds : gnb'[r].amf # 0 => Unhandled(gnb[r].amf)' /\ Owner(gnb[r].amf, gnb[r].ue)'
    <3> SUFFICES ASSUME NEW r \in RanIds, gnb[r].amf # 0
                 PROVE  Unhandled(gnb[r].amf)' /\ Owner(gnb[r].amf, gnb[r].ue)'
      BY DEF ran
    <3>1. Unhandled(gnb[r].amf) /\ Owner(gnb[r].amf, gnb[r].ue)
      BY DEF NasInv, Owned
    <3>2. gnb[r].amf \in Conns
      BY <1>7, Sizes DEF Types, RanTypes
    <3>3. gnb' = gnb
      BY DEF ran
    <3> QED
      BY <1>4, <1>5, <1>6, <3>1, <3>2, <3>3
  <2> QED
    BY <2>2, <2>3, <2>4 DEF Owned
<1>10. Leaves'
  <2>1. \A c \in Conns : Left(c) /\ c # m.amf => Left(c)'
    BY <1>3 DEF Left, ran
  <2>2. Leaving(n2q)' /\ Leaving(appq)' /\ Leaving(n1q)'
    BY <1>1 DEF NasInv, Leaves, Leaving, ran
  <2>3. \A x \in In(n2q') : x.type = "uplink" => Left(x.amf)'
    <3>1. \A x \in In(n2q) : x.type = "uplink" => x.amf \in Conns /\ x.amf # m.amf
      BY <1>4, <1>7, QueueFacts DEF NasInv, Owned
    <3> QED
      BY <2>1, <3>1 DEF NasInv, Leaves
  <2>4. \A x \in In(n1q') : x.type = "uplink" => Unhandled(x.amf)' /\ Left(x.amf)'
    <3>1. \A x \in In(n1q) : x.type = "uplink" => x.amf \in Conns /\ x.amf # m.amf
      BY <1>4, <1>7, QueueFacts DEF NasInv, Leaves
    <3> QED
      BY <1>1, <1>5, <2>1, <3>1 DEF NasInv, Leaves
  <2> QED
    BY <2>2, <2>3, <2>4 DEF Leaves
<1>11. Linked'
  BY DEF NasInv, Linked, ran
<1> QED
  BY <1>8, <1>9, <1>10, <1>11

\* What a Service Request makes of the queue of the N2 task.
LEMMA ServiceQueue ==
  ASSUME Types, HandleService, NEW m, m = Head(n1q)
  PROVE  /\ \A x \in In(n2q') : \/ x \in In(n2q)
                                \/ x.type = "command" /\ x.amf = nc[m.ue].amf
                                \/ x.type = "setup" /\ x.amf = m.amf /\ x.ran = m.ran
         /\ In(n2q) \subseteq In(n2q')
         /\ \E x \in In(n2q') : x.type = "setup" /\ x.amf = m.amf /\ x.ran = m.ran
<1> DEFINE s == Msg("setup", m.amf, m.ran)
           o == Msg("command", nc[m.ue].amf, nc[m.ue].ran)
           p == Append(n2q, o)
<1>1. s = Msg("setup", m.amf, m.ran) /\ o = Msg("command", nc[m.ue].amf, nc[m.ue].ran)
  OBVIOUS
<1> HIDE DEF s, o
<1>2. /\ s \in Msgs /\ s.type = "setup" /\ s.amf = m.amf /\ s.ran = m.ran
      /\ o \in Msgs /\ o.type = "command" /\ o.amf = nc[m.ue].amf
  BY <1>1, ServiceSends
<1>3. p \in Seq(Msgs) /\ In(p) = In(n2q) \cup {o}
  BY <1>1, ServiceSends
<1>4. n2q' = Append(n2q, s) \/ n2q' = Append(p, s)
  BY <1>1, ServiceSends
<1> HIDE DEF p
<1>5. In(n2q') = In(n2q) \cup {s} \/ In(n2q') = In(n2q) \cup {o, s}
  <2>1. \A q \in Seq(Msgs) : \A y \in Msgs : In(Append(q, y)) = In(q) \cup {y}
    BY Put
  <2>2. In(Append(n2q, s)) = In(n2q) \cup {s} /\ In(Append(p, s)) = In(p) \cup {s}
    BY <1>2, <1>3, <2>1, SameQueues
  <2> QED
    BY <1>3, <1>4, <2>2
<1> QED
  BY <1>2, <1>5

LEMMA HandleServiceNas ==
  ASSUME Types, NgapInv, NasInv, HandleService
  PROVE  NasInv'
<1> DEFINE m == Head(n1q)
           s == Msg("setup", m.amf, m.ran)
           o == Msg("command", nc[m.ue].amf, nc[m.ue].ran)
<1>1. /\ m = Head(n1q) /\ s = Msg("setup", m.amf, m.ran)
      /\ o = Msg("command", nc[m.ue].amf, nc[m.ue].ran)
  OBVIOUS
<1> HIDE DEF m, s, o
<1>2. /\ n1q # <<>> /\ m \in In(n1q) /\ m.type = "initial" /\ n1q' = Tail(n1q)
      /\ m.amf \in DOMAIN uc /\ m.ue \in Ues
  BY <1>1, ServiceSends
<1>3. Moved(m.ue, m.amf, m.ran) /\ DOMAIN uc' = DOMAIN uc
  BY <1>1, ServiceSends
<1>4. uc'[m.amf].sessions = uc[supi2uc[m.ue]].sessions /\ \A d \in DOMAIN uc \ {m.amf} : uc'[d] = uc[d]
  BY <1>1, ServiceSends
<1>5. supi2uc' = [supi2uc EXCEPT ![m.ue] = m.amf]
  BY <1>1, ServiceSends
<1>6. UNCHANGED <<ran, appq>>
  BY <1>1, ServiceSends
<1>7. \A x \in In(n2q') : \/ x \in In(n2q)
                          \/ x.type = "command" /\ x.amf = nc[m.ue].amf
                          \/ x.type = "setup" /\ x.amf = m.amf /\ x.ran = m.ran
  BY <1>1, ServiceQueue
<1>8. Latest' /\ Owned' /\ Leaves' /\ Linked'
  BY <1>1, <1>2, <1>3, <1>6, <1>7, MovedNas
<1>9. /\ nc'[m.ue].amf = m.amf /\ \A u \in Ues \ {m.ue} : nc'[u].amf = nc[u].amf
      /\ \A u \in Ues : nc[u].amf # m.amf
  BY <1>1, <1>2, <1>3, MovedFacts
<1>10. SessionsFollow'
  <2> SUFFICES ASSUME NEW u \in Ues, u \notin gone
               PROVE  \A c : c = nc'[u].amf => uc'[c].sessions /\ supi2uc'[u] = c
    BY <1>6 DEF SessionsFollow, ran
  <2>1. nc[u].amf \in DOMAIN uc /\ uc[nc[u].amf].sessions /\ supi2uc[u] = nc[u].amf
    BY DEF Types, NasTypes, NasInv, SessionsFollow
  <2>2. supi2uc'[m.ue] = m.amf /\ \A v \in Ues \ {m.ue} : supi2uc'[v] = supi2uc[v]
    BY <1>2, <1>5 DEF Types, NasTypes
  <2> QED
    BY <1>4, <1>9, <2>1, <2>2
<1> QED
  BY <1>8, <1>10 DEF NasInv

LEMMA HandleInitialDeregistrationNas ==
  ASSUME Types, NgapInv, NasInv, HandleInitialDeregistration
  PROVE  NasInv'
<1> DEFINE m == Head(n1q)
<1>1. m = Head(n1q)
  OBVIOUS
<1>2. /\ n1q # <<>> /\ m.type = "initial" /\ m.kind = "deregistration" /\ n1q' = Tail(n1q)
      /\ Moved(m.ue, m.amf, m.ran)
      /\ UNCHANGED <<ran, n2q, appq, n2, ngap, uc, supi2uc, timers, released>>
  BY DEF HandleInitialDeregistration, N1Takes
<1> HIDE DEF m
<1>3. Latest' /\ Owned' /\ Leaves' /\ Linked'
  BY <1>1, <1>2, MovedNas
<1>4. m \in In(n1q) /\ \A u \in Ues \ {m.ue} : nc'[u].amf = nc[u].amf
  BY <1>1, <1>2, MovedFacts
<1>5. m.ue \in gone
  BY <1>2, <1>4 DEF NasInv, Leaves, Leaving
<1>6. SessionsFollow'
  BY <1>2, <1>4, <1>5 DEF NasInv, SessionsFollow, ran
<1> QED
  BY <1>3, <1>6 DEF NasInv

\* Who deregisters has left: its NAS context is forgotten, its sessions too, and
\* its connection is to be released.
LEMMA DeregistrationFacts ==
  ASSUME Types, NgapInv, NasInv, HandleDeregistration, NEW m, m = Head(n1q)
  PROVE  /\ n1q # <<>> /\ m \in In(n1q) /\ m.type = "uplink" /\ m.amf \in Conns /\ In(n1q') \subseteq In(n1q)
         /\ Unhandled(m.amf) /\ Left(m.amf)
         /\ \A x \in In(n2q') : x \in In(n2q) \/ (x.type = "command" /\ x.amf = m.amf)
         /\ In(n2q) \subseteq In(n2q')
         /\ \A c \in Conns : amf2nc'[c] = amf2nc[c] \/ (c = m.amf /\ amf2nc'[c] = NoUe)
         /\ DOMAIN uc' = DOMAIN uc
         /\ \A c \in DOMAIN uc : uc'[c] = uc[c] \/ (amf2nc[m.amf] \in Ues /\ c = nc[amf2nc[m.amf]].amf)
         /\ UNCHANGED <<ran, appq, n2, ngap, supi2uc, nc, supi2amf, timers>>
<1> DEFINE u == amf2nc[m.amf]
           c == nc[u].amf
           o == Msg("command", m.amf, m.ran)
<1>1. /\ n1q # <<>> /\ m.type = "uplink" /\ n1q' = Tail(n1q)
      /\ UNCHANGED <<ran, appq, n2, ngap, supi2uc, nc, supi2amf, timers>>
  BY DEF HandleDeregistration, N1Takes
<1>2. m \in In(n1q) /\ In(n1q') \subseteq In(n1q) /\ m.amf \in DOMAIN uc /\ m.amf \in Conns /\ m.ran \in RanIds
  BY <1>1, HeadTypes, QueueFacts, N1Tail
<1>3. Unhandled(m.amf) /\ Left(m.amf)
  BY <1>1, <1>2 DEF NasInv, Leaves
<1>4. o \in Msgs /\ o.type = "command" /\ o.amf = m.amf
  BY <1>2, MsgType, Sizes
<1>5. \/ u = NoUe /\ UNCHANGED <<uc, amf2nc, n2q>>
      \/ /\ u # NoUe /\ (uc' = [uc EXCEPT ![c].sessions = FALSE] \/ uc' = uc)
         /\ amf2nc' = [amf2nc EXCEPT ![m.amf] = NoUe] /\ n2q' = Append(n2q, o)
  BY DEF HandleDeregistration
<1>6. u \in Ues \cup {NoUe} /\ (u # NoUe => c \in DOMAIN uc)
  BY <1>2 DEF Types, NasTypes
<1> HIDE DEF u, c, o
<1>7. (\A x \in In(n2q') : x \in In(n2q) \/ (x.type = "command" /\ x.amf = m.amf)) /\ In(n2q) \subseteq In(n2q')
  <2>1. n2q' = n2q \/ In(n2q') = In(n2q) \cup {o}
    <3>1. \A y \in Msgs : In(Append(n2q, y)) = In(n2q) \cup {y}
      BY SameQueues, Put
    <3> QED
      BY <1>4, <1>5, <3>1
  <2> QED
    BY <1>4, <2>1
<1>8. \A d \in Conns : amf2nc'[d] = amf2nc[d] \/ (d = m.amf /\ amf2nc'[d] = NoUe)
  BY <1>2, <1>5 DEF Types, NasTypes
<1>9. DOMAIN uc' = DOMAIN uc /\ \A d \in DOMAIN uc : uc'[d] = uc[d] \/ (u \in Ues /\ d = c)
  <2>1. CASE u # NoUe /\ uc' = [uc EXCEPT ![c].sessions = FALSE]
    BY <1>6, <2>1, SessionsLast
  <2>2. CASE uc' = uc
    BY <2>2
  <2> QED
    BY <1>5, <2>1, <2>2
<1>10. \A d \in DOMAIN uc : uc'[d] = uc[d] \/ (amf2nc[m.amf] \in Ues /\ d = nc[amf2nc[m.amf]].amf)
  BY <1>9 DEF u, c
<1> QED
  BY <1>1, <1>2, <1>3, <1>7, <1>8, <1>9, <1>10

LEMMA HandleDeregistrationNas ==
  ASSUME Types, NgapInv, NasInv, HandleDeregistration
  PROVE  NasInv'
<1> DEFINE m == Head(n1q)
<1>1. m = Head(n1q)
  OBVIOUS
<1> HIDE DEF m
<1>2. /\ m.amf \in Conns /\ In(n1q') \subseteq In(n1q) /\ Unhandled(m.amf) /\ Left(m.amf)
      /\ \A x \in In(n2q') : x \in In(n2q) \/ (x.type = "command" /\ x.amf = m.amf)
  BY <1>1, DeregistrationFacts
<1>3. /\ \A c \in Conns : amf2nc'[c] = amf2nc[c] \/ (c = m.amf /\ amf2nc'[c] = NoUe)
      /\ UNCHANGED <<ran, appq, n2, ngap, supi2uc, nc, supi2amf, timers>>
  BY <1>1, DeregistrationFacts
<1>4. /\ DOMAIN uc' = DOMAIN uc
      /\ \A c \in DOMAIN uc : uc'[c] = uc[c] \/ (amf2nc[m.amf] \in Ues /\ c = nc[amf2nc[m.amf]].amf)
  BY <1>1, DeregistrationFacts
<1>5. \A c : Unhandled(c) => Unhandled(c)'
  BY <1>2 DEF Unhandled
<1>6. \A c \in Conns, u \in Ues : Owner(c, u) => Owner(c, u)'
  BY <1>2, <1>3 DEF Owner, Left, ran
<1>7. Latest'
  <2>1. \A x \in In(n1q') : x.type = "initial" => amf2nc'[x.amf] = NoUe
    <3>1. \A x \in In(n1q) : x.amf \in Conns
      BY QueueFacts, Sizes
    <3> QED
      BY <1>2, <1>3, <3>1 DEF NasInv, Latest
  <2>2. \A c \in Conns : c \notin DOMAIN uc' => amf2nc'[c] = NoUe
    BY <1>3, <1>4 DEF NasInv, Latest
  <2>3. \A u \in Ues : supi2amf'[u] = nc'[u].amf /\ Unhandled(nc[u].amf)'
    BY <1>3, <1>5 DEF NasInv, Latest
  <2> QED
    BY <1>3, <2>1, <2>2, <2>3 DEF NasInv, Latest
<1>8. Owned'
  <2>1. \A x \in In(n2q') : x.type # "initial" => Unhandled(x.amf)'
    BY <1>2, <1>5 DEF NasInv, Owned
  <2>2. \A x \in In(n2q') : x.type = "setup" => Owner(x.amf, gnb[x.ran].ue)'
    <3> SUFFICES ASSUME NEW x \in In(n2q), x.type = "setup" PROVE Owner(x.amf, gnb[x.ran].ue)'
      BY <1>2
    <3>1. x.amf \in Conns /\ gnb[x.ran].ue \in Ues /\ Owner(x.amf, gnb[x.ran].ue)
      BY QueueFacts, Sizes DEF NgapInv, Stages, NasInv, Owned
    <3>2. gnb' = gnb
      BY <1>3 DEF ran
    <3> QED
      BY <1>6, <3>1, <3>2
  <2>3. \A r \in RanIds : gnb'[r].amf # 0 => Unhandled(gnb[r].amf)' /\ Owner(gnb[r].amf, gnb[r].ue)'
    <3> SUFFICES ASSUME NEW r \in RanIds, gnb[r].amf # 0
                 PROVE  Unhandled(gnb[r].amf)' /\ Owner(gnb[r].amf, gnb[r].ue)'
      BY <1>3 DEF ran
    <3>1. /\ gnb[r].amf \in Conns /\ gnb[r].ue \in Ues
          /\ Unhandled(gnb[r].amf) /\ Owner(gnb[r].amf, gnb[r].ue)
      BY Sizes DEF Types, RanTypes, NgapInv, Stages, NasInv, Owned
    <3>2. gnb' = gnb
      BY <1>3 DEF ran
    <3> QED
      BY <1>5, <1>6, <3>1, <3>2
  <2> QED
    BY <2>1, <2>2, <2>3 DEF Owned
<1>9. Leaves'
  <2>1. \A c \in Conns : Left(c) => Left(c)'
    BY <1>3 DEF Left, ran
  <2>2. Leaving(n2q)' /\ Leaving(appq)' /\ Leaving(n1q)'
    BY <1>2, <1>3 DEF NasInv, Leaves, Leaving, ran
  <2>3. \A x \in In(n2q') : x.type = "uplink" => Left(x.amf)'
    <3>1. \A x \in In(n2q) : x.type = "uplink" => x.amf \in Conns
      BY QueueFacts, Sizes
    <3> QED
      BY <1>2, <2>1, <3>1 DEF NasInv, Leaves
  <2>4. \A x \in In(n1q') : x.type = "uplink" => Unhandled(x.amf)' /\ Left(x.amf)'
    <3>1. \A x \in In(n1q) : x.amf \in Conns
      BY QueueFacts, Sizes
    <3> QED
      BY <1>2, <1>5, <2>1, <3>1 DEF NasInv, Leaves
  <2> QED
    BY <2>2, <2>3, <2>4 DEF Leaves
<1>10. Linked'
  BY <1>3 DEF NasInv, Linked, ran
<1>11. SessionsFollow'
  <2> SUFFICES ASSUME NEW u \in Ues, u \notin gone
               PROVE  uc'[nc[u].amf].sessions /\ supi2uc[u] = nc[u].amf
    BY <1>3 DEF SessionsFollow, ran
  <2>1. nc[u].amf \in DOMAIN uc /\ uc[nc[u].amf].sessions /\ supi2uc[u] = nc[u].amf
    BY DEF Types, NasTypes, NasInv, SessionsFollow
  <2>2. amf2nc[m.amf] \in Ues => nc[u].amf # nc[amf2nc[m.amf]].amf
    BY <1>2, NoUeAssumption DEF Left, NasInv, Latest
  <2> QED
    BY <1>4, <2>1, <2>2
<1> QED
  BY <1>7, <1>8, <1>9, <1>10, <1>11 DEF NasInv

LEMMA InitNas == Init => NasInv
<1> SUFFICES ASSUME Init PROVE NasInv
  OBVIOUS
<1>1. /\ In(n2q) = {} /\ In(appq) = {} /\ In(n1q) = {}
      /\ link = InitRan /\ supi2uc = InitRan /\ supi2amf = InitRan
      /\ nc = [u \in Ues |-> [amf |-> InitRan[u], ran |-> InitRan[u], cm |-> "CM_CONNECTED"]]
  BY Nothing DEF Init
<1>2. \A u \in Ues : nc[u].amf = InitRan[u] /\ InitRan[u] \in 1 .. Cardinality(Ues)
                     /\ InitRan[u] # 0
  BY <1>1, FirstUes
<1>3. \A r \in RanIds : gnb[r].amf # 0 => /\ r \in 1 .. Cardinality(Ues) /\ gnb[r].amf = r
                                          /\ gnb[r].ue = UeAt(r)
  BY DEF Init, Free
<1>4. \A c \in Conns : /\ c \in 1 .. Cardinality(Ues) => amf2nc[c] = UeAt(c)
                       /\ c \notin 1 .. Cardinality(Ues) => amf2nc[c] = NoUe
  BY DEF Init
<1>5. DOMAIN uc = 1 .. Cardinality(Ues)
  BY DEF Init
<1>6. Latest
  BY <1>1, <1>2, <1>4, <1>5, InitRanAssumption DEF Latest, Unhandled
<1>7. Owned
  <2>1. \A r \in RanIds : gnb[r].amf # 0 => gnb[r].amf \in Conns
    BY <1>3, InitTypes, Sizes DEF Types, RanTypes
  <2> QED
    BY <1>1, <1>3, <1>4, <2>1 DEF Owned, Unhandled, Owner
<1>8. Leaves
  BY <1>1 DEF Leaves, Leaving
<1>9. Linked
  <2>1. \A u \in Ues : InitRan[u] \in RanIds /\ UeAt(InitRan[u]) = u
    BY FirstUes, InitRanAssumption
  <2>2. \A r \in RanIds : r \in 1 .. Cardinality(Ues) => gnb[r].ue = UeAt(r)
    BY DEF Init
  <2> QED
    BY <1>1, <1>2, <2>1, <2>2 DEF Linked
<1>10. SessionsFollow
  <2>1. \A c \in 1 .. Cardinality(Ues) : uc[c].sessions
    BY DEF Init
  <2> QED
    BY <1>1, <1>2, <2>1 DEF SessionsFollow
<1> QED
  BY <1>6, <1>7, <1>8, <1>9, <1>10 DEF NasInv

LEMMA NasStep ==
  ASSUME Types, NgapInv, NasInv, [Next]_vars
  PROVE  NasInv'
  BY NextCases, AsideNas, EstablishNas, HandleServiceNas, HandleInitialDeregistrationNas,
     HandleDeregistrationNas

\* A UE that does not deregister keeps its PDU sessions in the context of its
\* latest connection, where the implicit deregistration looks for them
\* (copy_pdu_sessions in service_request_handle, amf_n1.cpp).
THEOREM SessionsAreKept == Spec => []SessionsFollow
<1>1. Types /\ NgapInv /\ NasInv /\ [Next]_vars => Types' /\ NgapInv' /\ NasInv'
  BY TypesStep, NgapStep, NasStep
<1>2. NasInv => SessionsFollow
  BY DEF NasInv
<1> QED
  BY <1>1, <1>2, InitTypes, InitNgap, InitNas, PTL DEF Spec

--------------------------------------------------------------------------------
(* A release in the hands of the N2 task, which has found the connection to *)
(* be the current one: the N1 task may move the UE to another meanwhile,    *)
(* but that one is not set up before the N2 task is done.                   *)
InHand ==
  n2.ue # NoUe =>
    /\ Owner(n2.amf, n2.ue) /\ Unhandled(n2.amf)
    /\ \A r \in RanIds : gnb[r].amf # nc[n2.ue].amf

\* The N2 task takes the end of the latest connection of a UE.
LEMMA CurrentHasEnded ==
  ASSUME Types, NgapInv, NasInv, NEW m, CompleteCurrent(m)
  PROVE  InHand'
<1>1. /\ n2q # <<>> /\ m = Head(n2q) /\ m.type = "complete"
      /\ uc[m.amf].ran = m.ran /\ amf2nc[m.amf] # NoUe /\ supi2amf[amf2nc[m.amf]] = m.amf
      /\ n2' = [amf |-> m.amf, ran |-> m.ran, ue |-> amf2nc[m.amf]]
      /\ UNCHANGED <<gnb, gone, n1q, nc, amf2nc>>
  BY DEF CompleteCurrent, Completes, N2Takes, HasContexts, Current, ran, nas
<1>2. m \in In(n2q) /\ m.amf \in DOMAIN uc /\ m.amf \in Conns /\ m.amf # 0
  BY <1>1, HeadTypes, QueueFacts, Sizes
<1>3. nc[amf2nc[m.amf]].amf = m.amf
  BY <1>1, <1>2 DEF Types, NasTypes, NasInv, Latest
<1>4. gnb[m.ran].amf = 0
  BY <1>1, <1>2 DEF NgapInv, Ends, Over
<1>5. \A r \in RanIds : gnb[r].amf # 0 => uc[gnb[r].amf].ran = r
  BY DEF NgapInv, Stages, Bound
<1>6. \A r \in RanIds : gnb[r].amf # nc[amf2nc[m.amf]].amf
  BY <1>1, <1>2, <1>3, <1>4, <1>5
<1>7. Unhandled(m.amf)
  BY <1>1, <1>2 DEF NasInv, Owned
<1>8. n2'.amf = m.amf /\ n2'.ue = amf2nc[m.amf]
  BY <1>1
<1> QED
  BY <1>1, <1>6, <1>7, <1>8 DEF InHand, Owner, Unhandled

\* While it is at it, the N2 task sets no connection up.
LEMMA HandSteps ==
  ASSUME Types, n2.ue # NoUe, [Next]_vars
  PROVE  \/ CompleteGoesIdle
         \/ n2' = n2 /\ \A r \in RanIds : gnb'[r].amf \in {0, gnb[r].amf}
<1>1. n2 # NoWait
  BY DEF NoWait
<1>2. ASSUME NEW u \in Ues, NEW r \in RanIds, NEW k \in Kinds, Attach(u, r, k)
      PROVE  \A s \in RanIds : gnb'[s].amf \in {0, gnb[s].amf}
  BY <1>2 DEF Attach, Types, RanTypes
<1>3. ASSUME NEW r \in RanIds, Inactive(r)
      PROVE  \A s \in RanIds : gnb'[s].amf \in {0, gnb[s].amf}
  BY <1>3 DEF Inactive, Types, RanTypes
<1>4. \/ CompleteGoesIdle
      \/ n2' = n2 /\ \/ gnb' = gnb
                     \/ \E u \in Ues, r \in RanIds, k \in Kinds : Attach(u, r, k)
                     \/ \E r \in RanIds : Inactive(r)
  BY <1>1 DEF Next, N2Task, N1Task, N2Takes, Completes, Attach, Inactive, Leave, ReceiveInitial,
         ReceiveUplink, ReceiveReleaseRequest, SendReleaseCommand, SetupContext, CompleteRemoves,
         CompleteUnknown, CompleteOld, CompleteCurrent, Establish, HandleService,
         HandleInitialDeregistration, HandleDeregistration, HandleMobileTimeout,
         HandleImplicitTimeout, Fire, ran, vars
<1> QED
  BY <1>2, <1>3, <1>4

\* The N1 task moves the UE to a connection that is not set up yet.
LEMMA MovedInHand ==
  ASSUME Types, NgapInv, NasInv, InHand, n2.ue # NoUe, n2' = n2, UNCHANGED <<gnb, gone>>,
         HandleService \/ HandleInitialDeregistration
  PROVE  InHand'
<1> DEFINE m == Head(n1q)
<1>1. m = Head(n1q) /\ n1q # <<>> /\ m.type = "initial" /\ n1q' = Tail(n1q)
      /\ Moved(m.ue, m.amf, m.ran)
  BY DEF HandleService, HandleInitialDeregistration, N1Takes
<1> HIDE DEF m
<1>2. /\ m \in In(n1q) /\ In(n1q') \subseteq In(n1q) /\ nc'[m.ue].amf = m.amf
      /\ \A u \in Ues \ {m.ue} : nc'[u].amf = nc[u].amf
      /\ \A c \in Conns \ {m.amf} : amf2nc'[c] = amf2nc[c]
      /\ m.amf \in DOMAIN uc
  BY <1>1, MovedFacts
<1>3. n2.ue \in Ues /\ n2.amf \in Conns /\ n2.amf # m.amf
  <2>1. n2.ue \in Ues /\ n2.amf \in DOMAIN uc
    BY DEF Types, QueueTypes, N2Release, NoWait
  <2> QED
    BY <1>1, <1>2, <2>1, Sizes DEF InHand, Unhandled
<1>4. Owner(n2.amf, n2.ue)' /\ Unhandled(n2.amf)'
  BY <1>2, <1>3 DEF InHand, Owner, Unhandled
<1>5. \A r \in RanIds : gnb[r].amf # m.amf
  BY <1>1, <1>2, Sizes DEF NasInv, Owned, Unhandled
<1>6. \A r \in RanIds : gnb[r].amf # nc'[n2.ue].amf
  BY <1>2, <1>3, <1>5 DEF InHand
<1> QED
  BY <1>4, <1>6 DEF InHand

LEMMA InHandStep ==
  ASSUME Types, NgapInv, NasInv, InHand, [Next]_vars
  PROVE  InHand'
<1>1. CASE n2.ue = NoUe
  <2>1. n2' = n2 \/ n2' = NoWait \/ \E m : CompleteCurrent(m)
    BY <1>1 DEF Next, N2Task, N1Task, Attach, Inactive, Leave, ReceiveInitial, ReceiveUplink,
         ReceiveReleaseRequest, SendReleaseCommand, SetupContext, CompleteGoesIdle, CompleteRemoves,
         CompleteUnknown, CompleteOld, Establish, HandleService, HandleInitialDeregistration,
         HandleDeregistration, HandleMobileTimeout, HandleImplicitTimeout, Fire, vars
  <2>2. n2'.ue = NoUe \/ \E m : CompleteCurrent(m)
    BY <1>1, <2>1 DEF NoWait
  <2> QED
    BY <2>2, CurrentHasEnded DEF InHand
<1>2. CASE n2.ue # NoUe /\ CompleteGoesIdle
  <2>1. n2'.ue = NoUe
    BY <1>2 DEF CompleteGoesIdle, Types, QueueTypes, N2Release, NoWait
  <2> QED
    BY <2>1 DEF InHand
<1>3. CASE n2.ue # NoUe /\ n2' = n2 /\ \A r \in RanIds : gnb'[r].amf \in {0, gnb[r].amf}
  <2>1. n2.ue \in Ues /\ n2.amf \in DOMAIN uc /\ n2.amf \in Conns
    BY <1>3, Sizes DEF Types, QueueTypes, N2Release, NoWait
  <2>2. nc[n2.ue].amf # 0
    BY <2>1, Sizes DEF Types, NasTypes
  <2>3. CASE HandleService \/ HandleInitialDeregistration
    BY <1>3, <2>3, MovedInHand DEF HandleService, HandleInitialDeregistration, ran
  <2>4. CASE HandleDeregistration
    <3> DEFINE m == Head(n1q)
    <3>1. m = Head(n1q)
      OBVIOUS
    <3> HIDE DEF m
    <3>2. /\ In(n1q') \subseteq In(n1q) /\ Left(m.amf) /\ UNCHANGED <<ran, nc>>
          /\ \A c \in Conns : amf2nc'[c] = amf2nc[c] \/ (c = m.amf /\ amf2nc'[c] = NoUe)
      BY <2>4, <3>1, DeregistrationFacts
    <3>3. Owner(n2.amf, n2.ue)'
      BY <1>3, <2>1, <3>2 DEF InHand, Owner, Left, ran
    <3> QED
      BY <1>3, <3>2, <3>3 DEF InHand, Unhandled, ran
  <2>5. CASE Aside
    <3>1. /\ UNCHANGED amf2nc /\ gone \subseteq gone' /\ nc'[n2.ue].amf = nc[n2.ue].amf
      BY <2>1, <2>5, AsideKeeps
    <3>2. \A x \in In(n1q') : x.type = "initial" => x \in In(n1q)
      BY <2>5, N1Queue
    <3> QED
      BY <1>3, <2>2, <3>1, <3>2 DEF InHand, Owner, Unhandled
  <2>6. CASE Establish
    <3> DEFINE m == Head(appq)
               z == [m EXCEPT !.amf = Len(uc) + 1]
    <3>1. m = Head(appq) /\ z = [m EXCEPT !.amf = Len(uc) + 1]
      OBVIOUS
    <3> HIDE DEF m, z
    <3>2. /\ z.amf \notin DOMAIN uc /\ In(n1q') = In(n1q) \cup {z}
          /\ UNCHANGED <<ran, nas>>
      BY <2>6, <3>1, EstablishSends
    <3> QED
      BY <1>3, <2>1, <3>2 DEF InHand, Owner, Unhandled, ran, nas
  <2> QED
    BY <2>3, <2>4, <2>5, <2>6, NextCases
<1> QED
  BY <1>1, <1>2, <1>3, HandSteps

LEMMA InitHand == Init => InHand
BY DEF Init, InHand, NoWait

\* Which step starts a mobile reachable timer.
LEMMA MobileStarts ==
  ASSUME [Next]_vars, NEW t \in timers', t \notin timers, t.kind = "mobile"
  PROVE  CompleteGoesIdle /\ t.amf = n2.amf
<1>1. CASE CompleteGoesIdle
  <2>1. timers' = timers \cup {[kind |-> "mobile", amf |-> n2.amf]}
    BY <1>1 DEF CompleteGoesIdle, MobileTimer
  <2> QED
    BY <1>1, <2>1
<1>2. CASE HandleMobileTimeout
  BY <1>2 DEF HandleMobileTimeout
<1>3. CASE \E s \in timers : Fire(s)
  BY <1>3 DEF Fire
<1>4. CASE timers' = timers
  BY <1>4
<1> QED
  BY <1>1, <1>2, <1>3, <1>4
     DEF Next, N2Task, N1Task, Attach, Inactive, Leave, ReceiveInitial, ReceiveUplink,
         ReceiveReleaseRequest, SendReleaseCommand, SetupContext, CompleteRemoves,
         CompleteUnknown, CompleteOld, CompleteCurrent, Establish, HandleService,
         HandleInitialDeregistration, HandleDeregistration, HandleImplicitTimeout, vars

\* A timer is started for a UE whose latest connection is not set up.
LEMMA StartedForEnded ==
  ASSUME InHand, [Next]_vars, NEW t \in timers', t \notin timers, t.kind = "mobile",
         NEW u \in Ues, NEW r \in RanIds, amf2nc[t.amf] = u
  PROVE  gnb[r].amf # nc[u].amf
<1>1. t.amf = n2.amf /\ n2.ue # NoUe
  BY MobileStarts DEF CompleteGoesIdle
<1>2. n2.ue = u
  BY <1>1, NoUeAssumption DEF InHand, Owner
<1> QED
  BY <1>1, <1>2 DEF InHand

\* The late end of an old connection starts no timer for a UE whose newer one
\* has been set up: the N2 task lets the mobile reachable timer run only when
\* the connection that ends is the latest ("UE Context Release Complete for the
\* old context", amf_n2.cpp), and sets up no other while it is at it.
THEOREM OldReleaseStartsNothing == Spec => OldReleaseIgnored
<1>1. Types /\ NgapInv /\ NasInv /\ InHand /\ [Next]_vars => Types' /\ NgapInv' /\ NasInv' /\ InHand'
  BY TypesStep, NgapStep, NasStep, InHandStep
<1>2. InHand /\ [Next]_vars =>
        [\A t \in timers' \ timers : t.kind = "mobile" =>
           \A u \in Ues, r \in RanIds : amf2nc[t.amf] = u => gnb[r].amf # nc[u].amf]_vars
  BY StartedForEnded
<1> QED
  BY <1>1, <1>2, InitTypes, InitNgap, InitNas, InitHand, PTL DEF Spec, OldReleaseIgnored

--------------------------------------------------------------------------------
(* The order.  Of the connections that a UE has opened and that are on      *)
(* their way through the queues it waits for the last one; f is the UE      *)
(* context over which each UE is reached.                                   *)
GivenUp(x, y, f) ==
  x.type = "initial" /\ y.type = "initial" /\ x.ue = y.ue => x.ran # f[x.ue]

Last(q, f)      == \A i, j \in DOMAIN q : i < j => GivenUp(q[i], q[j], f)
Before(p, q, f) == \A x \in In(p), y \in In(q) : GivenUp(x, y, f)

Sorted(a, b, c, f) ==
  /\ Last(a, f) /\ Last(b, f) /\ Last(c, f)
  /\ Before(c, b, f) /\ Before(c, a, f) /\ Before(b, a, f)

InOrder == Sorted(n2q, appq, n1q, link)

\* A connection of the UE is on its way; it is none, as the last is set up.
Opens(u)   == \E m \in In(n2q) \cup In(appq) \cup In(n1q) : m.type = "initial" /\ m.ue = u
Settled(u) == \/ link[u] = 0 \/ gnb[link[u]].amf # 0
              \/ \E m \in In(n2q) : m.type = "setup" /\ m.ran = link[u]

Settles ==
  /\ \A u \in Ues : Settled(u) => ~Opens(u)
  /\ \A u \in Ues : link[u] # 0 /\ gnb[link[u]].amf # 0 => supi2amf[u] = gnb[link[u]].amf
  /\ \A m \in In(n2q) : m.type = "setup" => \A u \in Ues : link[u] = m.ran => supi2amf[u] = m.amf

\* A connection ends once, and its NGAP context is there until then.
EndsOnce(q) ==
  \A i, j \in DOMAIN q : q[i].type = "complete" /\ q[j].type = "complete" /\ q[i].ran = q[j].ran => i = j

Endings ==
  /\ EndsOnce(n2q)
  /\ \A m \in In(n2q) : m.type = "complete" => amf2unc[m.amf] # 0 /\ (n2 # NoWait => n2.ran # m.ran)

\* What watches over a UE; the end that is still with the N2 task is that of its
\* latest connection.
Watched(u) ==
  \/ \E m \in In(n2q) : m.type = "complete" /\ amf2nc[m.amf] = u /\ supi2amf[u] = m.amf
  \/ n2.ue = u
  \/ \E t \in timers : amf2nc[t.amf] = u
  \/ \E m \in In(n1q) : Watches(m, u)
  \/ u \in released

Watching == \A u \in Ues \ gone : link[u] = 0 => Watched(u)

OrderInv == InOrder /\ Settles /\ Endings /\ Watching

--------------------------------------------------------------------------------
(* The order of a queue when a message is put and when the head is taken.   *)
LEMMA PutLast ==
  ASSUME NEW S, NEW q \in Seq(S), NEW m \in S, NEW f
  PROVE  /\ Last(q, f) /\ (\A x \in In(q) : GivenUp(x, m, f)) => Last(Append(q, m), f)
         /\ EndsOnce(q) /\ (m.type = "complete" => \A x \in In(q) : x.type = "complete" => x.ran # m.ran)
            => EndsOnce(Append(q, m))
<1> DEFINE n == Len(q)
           s == Append(q, m)
<1>1. /\ n \in Nat /\ DOMAIN q = 1 .. n /\ s \in Seq(S) /\ DOMAIN s = 1 .. n + 1
      /\ s[n + 1] = m /\ \A i \in 1 .. n : s[i] = q[i] /\ q[i] \in In(q)
  BY AppendProperties, LenProperties DEF In
<1> HIDE DEF n, s
<1>2. ASSUME Last(q, f), \A x \in In(q) : GivenUp(x, m, f)
      PROVE  Last(s, f)
  <2> SUFFICES ASSUME NEW i \in 1 .. n + 1, NEW j \in 1 .. n + 1, i < j
               PROVE  GivenUp(s[i], s[j], f)
    BY <1>1 DEF Last
  <2>1. i \in 1 .. n /\ (j \in 1 .. n \/ j = n + 1)
    BY <1>1
  <2> QED
    BY <1>1, <1>2, <2>1 DEF Last
<1>3. ASSUME EndsOnce(q), m.type = "complete" => \A x \in In(q) : x.type = "complete" => x.ran # m.ran
      PROVE  EndsOnce(s)
  <2> SUFFICES ASSUME NEW i \in 1 .. n + 1, NEW j \in 1 .. n + 1, s[i].type = "complete",
                      s[j].type = "complete", s[i].ran = s[j].ran
               PROVE  i = j
    BY <1>1 DEF EndsOnce
  <2>1. (i \in 1 .. n \/ i = n + 1) /\ (j \in 1 .. n \/ j = n + 1)
    BY <1>1
  <2> QED
    BY <1>1, <1>3, <2>1 DEF EndsOnce
<1> QED
  BY <1>2, <1>3 DEF s

LEMMA TookLast ==
  ASSUME NEW S, NEW q \in Seq(S), q # <<>>, NEW f
  PROVE  /\ Last(q, f) => /\ Last(Tail(q), f)
                          /\ \A x \in In(Tail(q)) : GivenUp(Head(q), x, f)
         /\ EndsOnce(q) => /\ EndsOnce(Tail(q))
                           /\ Head(q).type = "complete" =>
                                \A x \in In(Tail(q)) : x.type = "complete" => x.ran # Head(q).ran
<1> DEFINE n == Len(q)
           t == Tail(q)
<1>1. /\ n \in Nat /\ n > 0 /\ DOMAIN q = 1 .. n /\ Head(q) = q[1]
      /\ t \in Seq(S) /\ DOMAIN t = 1 .. n - 1 /\ \A i \in 1 .. n - 1 : t[i] = q[i + 1]
  BY EmptySeq, LenProperties, HeadTailProperties
<1>2. In(t) = {t[i] : i \in 1 .. n - 1}
  BY <1>1 DEF In
<1> HIDE DEF n, t
<1>3. ASSUME Last(q, f)
      PROVE  Last(t, f) /\ \A x \in In(t) : GivenUp(Head(q), x, f)
  <2>1. ASSUME NEW i \in 1 .. n - 1, NEW j \in 1 .. n - 1, i < j
        PROVE  GivenUp(t[i], t[j], f)
    <3>1. i + 1 \in 1 .. n /\ j + 1 \in 1 .. n
      BY <1>1
    <3>2. i + 1 < j + 1
      BY <1>1, <2>1
    <3> QED
      BY <1>1, <1>3, <3>1, <3>2 DEF Last
  <2>2. ASSUME NEW i \in 1 .. n - 1
        PROVE  GivenUp(q[1], t[i], f)
    <3>1. 1 \in 1 .. n /\ i + 1 \in 1 .. n /\ 1 < i + 1
      BY <1>1
    <3> QED
      BY <1>1, <1>3, <3>1 DEF Last
  <2>3. Last(t, f)
    BY <1>1, <2>1 DEF Last
  <2>4. \A x \in In(t) : GivenUp(Head(q), x, f)
    BY <1>1, <1>2, <2>2
  <2> QED
    BY <2>3, <2>4
<1>4. ASSUME EndsOnce(q)
      PROVE  /\ EndsOnce(t)
             /\ Head(q).type = "complete" =>
                  \A x \in In(t) : x.type = "complete" => x.ran # Head(q).ran
  <2>1. ASSUME NEW i \in 1 .. n - 1, NEW j \in 1 .. n - 1, t[i].type = "complete",
               t[j].type = "complete", t[i].ran = t[j].ran
        PROVE  i = j
    <3>1. i + 1 \in 1 .. n /\ j + 1 \in 1 .. n
      BY <1>1
    <3>2. i + 1 = j + 1
      BY <1>1, <1>4, <2>1, <3>1 DEF EndsOnce
    <3> QED
      BY <1>1, <3>2
  <2>2. ASSUME NEW i \in 1 .. n - 1, q[1].type = "complete", t[i].type = "complete"
        PROVE  t[i].ran # q[1].ran
    <3>1. 1 \in 1 .. n /\ i + 1 \in 1 .. n /\ 1 # i + 1
      BY <1>1
    <3> QED
      BY <1>1, <1>4, <2>2, <3>1 DEF EndsOnce
  <2>3. EndsOnce(t)
    BY <1>1, <2>1 DEF EndsOnce
  <2> QED
    BY <1>1, <1>2, <2>2, <2>3
<1> QED
  BY <1>3, <1>4 DEF t

\* Who is reached over another context has given up the same connections.
LEMMA MovesOn ==
  ASSUME NEW S, NEW q \in Seq(S), NEW f, NEW g, Last(q, f),
         \A x \in In(q) : x.type = "initial" /\ x.ran # f[x.ue] => x.ran # g[x.ue]
  PROVE  Last(q, g)
<1> SUFFICES ASSUME NEW i \in DOMAIN q, NEW j \in DOMAIN q, i < j
             PROVE  GivenUp(q[i], q[j], g)
  BY DEF Last
<1>1. q[i] \in In(q)
  BY DEF In
<1> QED
  BY <1>1 DEF Last, GivenUp

--------------------------------------------------------------------------------
(* How the queues and the links change.                                     *)
Attaches(u) == \E r \in RanIds, k \in Kinds : Attach(u, r, k)

\* The gNB ends the connection that message y names.
Ending(y) ==
  /\ y.type = "complete" /\ y.ran \in RanIds /\ y.amf \in DOMAIN uc /\ gnb[y.ran].amf = y.amf
  /\ n2 = NoWait /\ UNCHANGED <<appq, n1q, n2, ngap, uc, supi2uc, nas, timers, released>>

\* The N2 task takes the end of a connection.
CompletesOne ==
  \E m \in In(n2q) : CompleteUnknown(m) \/ CompleteOld(m) \/ CompleteCurrent(m)

LEMMA CommandSteps ==
  ASSUME Types, n2q # <<>>, n2 = NoWait, NEW c \in DOMAIN uc, NEW r \in RanIds,
         Command(Tail(n2q), c, r),
         UNCHANGED <<appq, n1q, n2, ngap, uc, supi2uc, nas, timers, released>>
  PROVE  \/ n2q' = Tail(n2q) /\ UNCHANGED ran
         \/ \E y \in Msgs : /\ Ending(y) /\ n2q' = Append(Tail(n2q), y) /\ gone' = gone
                            /\ gnb' = [gnb EXCEPT ![y.ran] = Free]
                            /\ link' = [u \in Ues |-> IF u = gnb[y.ran].ue /\ link[u] = y.ran
                                                      THEN 0 ELSE link[u]]
<1> DEFINE y == Msg("complete", c, r)
<1>1. y \in Msgs /\ y.type = "complete" /\ y.amf = c /\ y.ran = r
  BY MsgType, Sizes
<1>2. CASE c # 0 /\ gnb[r].amf = c
  <2>1. /\ gnb' = [gnb EXCEPT ![r] = Free] /\ gone' = gone /\ n2q' = Append(Tail(n2q), y)
        /\ link' = [u \in Ues |-> IF u = gnb[r].ue /\ link[u] = r THEN 0 ELSE link[u]]
    BY <1>2 DEF Command
  <2> HIDE DEF y
  <2>2. Ending(y)
    BY <1>1, <1>2 DEF Ending
  <2> QED
    BY <1>1, <2>1, <2>2
<1>3. CASE ~(c # 0 /\ gnb[r].amf = c)
  BY <1>3 DEF Command
<1> QED
  BY <1>2, <1>3

\* The N2 task orders the release of a connection, and its end comes back.
Released ==
  \E y \in Msgs :
    /\ Ending(y) /\ gone' = gone /\ n2q # <<>> /\ Head(n2q).type \in {"request", "command"}
    /\ n2q' = Append(Tail(n2q), y)
    /\ gnb' = [gnb EXCEPT ![y.ran] = Free]
    /\ link' = [u \in Ues |-> IF u = gnb[y.ran].ue /\ link[u] = y.ran THEN 0 ELSE link[u]]

LEMMA ReleaseSteps ==
  ASSUME Types, ReceiveReleaseRequest \/ SendReleaseCommand
  PROVE  \/ n2q # <<>> /\ Head(n2q).type # "complete" /\ n2q' = Tail(n2q) /\ UNCHANGED ran
         \/ Released
<1> DEFINE m == Head(n2q)
<1>1. /\ n2q # <<>> /\ n2 = NoWait /\ m.type \in {"request", "command"}
      /\ Command(Tail(n2q), m.amf, m.ran) \/ (n2q' = Tail(n2q) /\ UNCHANGED ran)
      /\ UNCHANGED <<appq, n1q, n2, ngap, uc, supi2uc, nas, timers, released>>
  BY DEF ReceiveReleaseRequest, SendReleaseCommand, N2Takes
<1>2. m.amf \in DOMAIN uc /\ m.ran \in RanIds
  BY <1>1, HeadTypes, QueueFacts
<1> QED
  BY <1>1, <1>2, CommandSteps DEF Released

LEMMA N2Steps ==
  ASSUME Types, [Next]_vars
  PROVE  \/ n2q' = n2q
         \/ n2q # <<>> /\ n2q' = Tail(n2q) /\ (Head(n2q).type = "complete" => CompletesOne)
         \/ \E y \in Msgs : y.type \in {"request", "uplink", "command"} /\ n2q' = Append(n2q, y)
         \/ \E u \in Ues : Attaches(u)
         \/ Released \/ HandleService
<1>1. ASSUME NEW r \in RanIds, Inactive(r)
      PROVE  \E y \in Msgs : y.type \in {"request", "uplink", "command"} /\ n2q' = Append(n2q, y)
  <2>1. gnb[r].amf \in 0 .. MaxConns
    BY Sizes DEF Types, RanTypes
  <2> QED
    BY <1>1, <2>1, MsgType DEF Inactive
<1>2. ASSUME NEW u \in Ues, Leave(u)
      PROVE  \E y \in Msgs : y.type \in {"request", "uplink", "command"} /\ n2q' = Append(n2q, y)
  <2>1. link[u] \in RanIds /\ gnb[link[u]].amf \in 0 .. MaxConns
    BY <1>2, Sizes DEF Leave, Types, RanTypes
  <2> QED
    BY <1>2, <2>1, MsgType DEF Leave
<1>3. ASSUME HandleDeregistration
      PROVE  \/ n2q' = n2q
             \/ \E y \in Msgs : y.type \in {"request", "uplink", "command"} /\ n2q' = Append(n2q, y)
  <2> DEFINE m == Head(n1q)
  <2>1. n1q # <<>> /\ n1q' = Tail(n1q) /\ m.type = "uplink"
        /\ (n2q' = n2q \/ n2q' = Append(n2q, Msg("command", m.amf, m.ran)))
    BY <1>3 DEF HandleDeregistration, N1Takes
  <2>2. m.amf \in 0 .. MaxConns /\ m.ran \in RanIds
    BY <2>1, N1Tail, Sizes
  <2> QED
    BY <2>1, <2>2, MsgType
<1>4. ASSUME HandleImplicitTimeout
      PROVE  \/ n2q' = n2q
             \/ \E y \in Msgs : y.type \in {"request", "uplink", "command"} /\ n2q' = Append(n2q, y)
  <2> DEFINE u == amf2nc[Head(n1q).amf]
  <2>1. /\ n1q # <<>> /\ n1q' = Tail(n1q)
        /\ n2q' = n2q \/ (u # NoUe /\ n2q' = Append(n2q, Msg("command", nc[u].amf, nc[u].ran)))
    BY <1>4 DEF HandleImplicitTimeout, N1Takes
  <2>2. CASE u # NoUe
    <3>1. u \in Ues /\ nc[u].amf \in 0 .. MaxConns /\ nc[u].ran \in RanIds
      BY <2>1, <2>2, N1Tail, Sizes DEF Types, NasTypes
    <3> QED
      BY <2>1, <3>1, MsgType
  <2> QED
    BY <2>1, <2>2
<1>5. CASE ReceiveReleaseRequest \/ SendReleaseCommand
  BY <1>5, ReleaseSteps
<1>6. CASE ReceiveInitial \/ ReceiveUplink \/ SetupContext
  BY <1>6 DEF ReceiveInitial, ReceiveUplink, SetupContext, N2Takes
<1>8. CASE \E i \in DOMAIN n2q : \/ CompleteUnknown(n2q[i]) \/ CompleteOld(n2q[i])
                                 \/ CompleteCurrent(n2q[i])
  <2>1. CompletesOne
    BY <1>8 DEF CompletesOne, In
  <2> QED
    BY <1>8, <2>1 DEF CompleteUnknown, CompleteOld, CompleteCurrent, Completes, N2Takes
<1>7. CASE \/ CompleteGoesIdle \/ CompleteRemoves \/ Establish \/ HandleInitialDeregistration
           \/ HandleMobileTimeout \/ UNCHANGED vars \/ \E t \in timers : Fire(t)
  BY <1>7 DEF CompleteGoesIdle, CompleteRemoves, Establish, HandleInitialDeregistration, HandleMobileTimeout,
              Fire, vars
<1> QED
  BY <1>1, <1>2, <1>3, <1>4, <1>5, <1>6, <1>7, <1>8 DEF Next, N2Task, N1Task, Attaches

LEMMA N1Steps ==
  ASSUME Types, [Next]_vars
  PROVE  \/ n1q' = n1q
         \/ n1q # <<>> /\ n1q' = Tail(n1q) /\ N1Task
         \/ \E y \in Msgs : y.type # "initial" /\ n1q' = Append(n1q, y)
         \/ Establish
<1>1. ASSUME NEW t \in timers, Fire(t)
      PROVE  \E y \in Msgs : y.type # "initial" /\ n1q' = Append(n1q, y)
  <2>1. t.kind \in {"mobile", "implicit"} /\ t.amf \in 0 .. MaxConns
    BY Sizes DEF Types, NasTypes
  <2> QED
    BY <1>1, <2>1, MsgType DEF Fire
<1>2. ASSUME ReceiveUplink
      PROVE  n1q' = n1q \/ \E y \in Msgs : y.type # "initial" /\ n1q' = Append(n1q, y)
  BY <1>2, HeadTypes DEF ReceiveUplink, N2Takes
<1>3. CASE N1Task
  BY <1>3 DEF N1Task, N1Takes, HandleService, HandleInitialDeregistration,
              HandleDeregistration, HandleMobileTimeout, HandleImplicitTimeout
<1>4. CASE n1q' = n1q
  BY <1>4
<1> QED
  BY <1>1, <1>2, <1>3, <1>4
     DEF Next, N2Task, Attach, Inactive, Leave, ReceiveInitial, ReceiveReleaseRequest,
         SendReleaseCommand, SetupContext, CompleteGoesIdle, CompleteRemoves, CompleteUnknown, CompleteOld,
         CompleteCurrent, vars

LEMMA AppSteps ==
  ASSUME Types, [Next]_vars
  PROVE  appq' = appq \/ ReceiveInitial \/ Establish
  BY DEF Next, N2Task, N1Task, Attach, Inactive, Leave, ReceiveUplink, ReceiveReleaseRequest,
         SendReleaseCommand, SetupContext, CompleteGoesIdle, CompleteRemoves, CompleteUnknown, CompleteOld,
         CompleteCurrent, HandleMobileTimeout, HandleImplicitTimeout, HandleDeregistration,
         HandleService, HandleInitialDeregistration, Fire, vars

\* A UE is reached over another context only after it has opened a connection.
LEMMA LinkSteps ==
  ASSUME Types, [Next]_vars
  PROVE  link' = link \/ Released \/ \E u \in Ues : Attaches(u)
<1>1. CASE ReceiveReleaseRequest \/ SendReleaseCommand
  BY <1>1, ReleaseSteps DEF ran
<1>2. CASE \E u \in Ues : Attaches(u)
  BY <1>2
<1>3. CASE link' = link
  BY <1>3
<1> QED
  BY <1>1, <1>2, <1>3
     DEF Next, N2Task, N1Task, Attaches, Inactive, Leave, ReceiveInitial, ReceiveUplink,
         SetupContext, CompleteGoesIdle, CompleteRemoves, CompleteUnknown, CompleteOld, CompleteCurrent, Establish,
         HandleMobileTimeout, HandleImplicitTimeout, HandleDeregistration, HandleService,
         HandleInitialDeregistration, Fire, ran, vars

--------------------------------------------------------------------------------
(* The queues keep the order.                                               *)
LEMMA GivenUpStays ==
  ASSUME Types, NgapInv, [Next]_vars, NEW x \in In(n2q) \cup In(appq) \cup In(n1q),
         x.type = "initial", x.ran # link[x.ue]
  PROVE  x.ran # link'[x.ue]
<1>1. x.ran \in RanIds /\ x.ue \in Ues /\ x.ran # 0
  BY QueueFacts, Sizes
<1>2. CASE Released
  <2>1. link'[x.ue] \in {0, link[x.ue]}
    BY <1>1, <1>2 DEF Released
  <2> QED
    BY <1>1, <2>1
<1>3. ASSUME NEW u \in Ues, NEW r \in RanIds, NEW k \in Kinds, Attach(u, r, k)
      PROVE  x.ran # link'[x.ue]
  <2>1. gnb[r].ue \notin Ues /\ link' = [link EXCEPT ![u] = r]
    BY <1>3, Sizes DEF Attach, Used, Free
  <2>2. Fresh(n2q, r) /\ Fresh(appq, r) /\ Fresh(n1q, r)
    BY <2>1, SetUpIsFresh
  <2>3. x.ran # r
    BY <2>2 DEF Fresh, Staged
  <2> QED
    BY <1>1, <2>1, <2>3 DEF Types, RanTypes
<1> QED
  BY <1>2, <1>3, LinkSteps DEF Attaches

LEMMA GivenUpOrder ==
  ASSUME Types, NgapInv, InOrder, [Next]_vars
  PROVE  Sorted(n2q, appq, n1q, link')
<1>1. Last(n2q, link') /\ Last(appq, link') /\ Last(n1q, link')
  BY GivenUpStays, MovesOn, SameQueues DEF InOrder, Sorted
<1>2. \A x, y \in In(n2q) \cup In(appq) \cup In(n1q) : GivenUp(x, y, link) => GivenUp(x, y, link')
  BY GivenUpStays DEF GivenUp
<1>3. Before(n1q, appq, link') /\ Before(n1q, n2q, link') /\ Before(appq, n2q, link')
  BY <1>2 DEF InOrder, Sorted, Before
<1> QED
  BY <1>1, <1>3 DEF Sorted

LEMMA AttachOrder ==
  ASSUME Types, NgapInv, InOrder, NEW u \in Ues, NEW r \in RanIds, NEW k \in Kinds, Attach(u, r, k)
  PROVE  InOrder'
<1> DEFINE m == Initial(u, r, 0, k)
<1>1. m \in Msgs /\ m.type = "initial" /\ m.ue = u /\ m.ran = r
  BY InitialType, Sizes
<1>2. /\ n2q' = Append(n2q, m) /\ appq' = appq /\ n1q' = n1q
      /\ gnb[r].ue \notin Ues /\ link' = [link EXCEPT ![u] = r]
  BY Sizes DEF Attach, Used, Free
<1>9. [Next]_vars
  BY DEF Next
<1> HIDE DEF m
<1>3. Sorted(n2q, appq, n1q, link')
  BY <1>9, GivenUpOrder
<1>4. Fresh(n2q, r) /\ Fresh(appq, r) /\ Fresh(n1q, r) /\ link'[u] = r
  BY <1>2, SetUpIsFresh DEF Types, RanTypes
<1>5. \A x \in In(n2q) \cup In(appq) \cup In(n1q) : GivenUp(x, m, link')
  BY <1>1, <1>4 DEF GivenUp, Fresh, Staged
<1>6. \A y \in Msgs : /\ In(Append(n2q, y)) = In(n2q) \cup {y}
                      /\ Last(n2q, link') /\ (\A x \in In(n2q) : GivenUp(x, y, link'))
                         => Last(Append(n2q, y), link')
  BY SameQueues, Put, PutLast
<1>7. Last(n2q', link') /\ In(n2q') = In(n2q) \cup {m}
  BY <1>1, <1>2, <1>3, <1>5, <1>6 DEF Sorted
<1>8. Before(n1q, n2q', link') /\ Before(appq, n2q', link')
  BY <1>3, <1>5, <1>7 DEF Sorted, Before
<1> QED
  BY <1>2, <1>3, <1>7, <1>8 DEF InOrder, Sorted

\* The order of the queue of the N2 task, as long as no connection is opened.
LEMMA N2Order ==
  ASSUME Types, [Next]_vars, ~\E u \in Ues : Attaches(u), NEW f, Last(n2q, f)
  PROVE  Last(n2q', f) /\ \A x \in In(n2q') : x.type = "initial" => x \in In(n2q)
<1>1. \A q \in Seq(Msgs) : \A y \in Msgs : y.type # "initial" /\ Last(q, f)
        => Last(Append(q, y), f) /\ In(Append(q, y)) = In(q) \cup {y} /\ Append(q, y) \in Seq(Msgs)
  BY Put, PutLast DEF GivenUp
<1>2. n2q # <<>> => Tail(n2q) \in Seq(Msgs) /\ Last(Tail(n2q), f) /\ In(Tail(n2q)) \subseteq In(n2q)
  BY SameQueues, TookLast, HeadTypes
<1>3. CASE n2q' = n2q
  BY <1>3
<1>4. CASE n2q # <<>> /\ n2q' = Tail(n2q)
  BY <1>2, <1>4
<1>5. CASE \E y \in Msgs : y.type \in {"request", "uplink", "command"} /\ n2q' = Append(n2q, y)
  BY <1>1, <1>5, SameQueues
<1>6. CASE Released
  <2>1. PICK y \in Msgs : n2q # <<>> /\ y.type = "complete" /\ n2q' = Append(Tail(n2q), y)
    BY <1>6 DEF Released, Ending
  <2>2. Last(n2q', f) /\ In(n2q') = In(Tail(n2q)) \cup {y}
    BY <1>1, <1>2, <2>1
  <2>3. \A x \in In(n2q') : x.type = "initial" => x \in In(n2q)
    BY <1>2, <2>1, <2>2
  <2> QED
    BY <2>2, <2>3
<1>7. CASE HandleService
  <2> DEFINE m == Head(n1q)
             s == Msg("setup", m.amf, m.ran)
             o == Msg("command", nc[m.ue].amf, nc[m.ue].ran)
             p == Append(n2q, o)
  <2>1. m = Head(n1q) /\ s = Msg("setup", m.amf, m.ran) /\ o = Msg("command", nc[m.ue].amf, nc[m.ue].ran)
    OBVIOUS
  <2> HIDE DEF m, s, o
  <2>2. s \in Msgs /\ s.type = "setup" /\ o \in Msgs /\ o.type = "command"
    BY <1>7, <2>1, ServiceSends
  <2>3. n2q' = Append(n2q, s) \/ n2q' = Append(p, s)
    BY <1>7, <2>1, ServiceSends
  <2>4. p \in Seq(Msgs) /\ Last(p, f) /\ In(p) = In(n2q) \cup {o}
    BY <1>1, <2>2, SameQueues
  <2> HIDE DEF p
  <2>5. Last(n2q', f) /\ (In(n2q') = In(n2q) \cup {s} \/ In(n2q') = In(p) \cup {s})
    <3>1. CASE n2q' = Append(n2q, s)
      BY <1>1, <2>2, <3>1, SameQueues
    <3>2. CASE n2q' = Append(p, s)
      BY <1>1, <2>2, <2>4, <3>2
    <3> QED
      BY <2>3, <3>1, <3>2
  <2>6. \A x \in In(n2q') : x.type = "initial" => x \in In(n2q)
    BY <2>2, <2>4, <2>5
  <2> QED
    BY <2>5, <2>6
<1> QED
  BY <1>3, <1>4, <1>5, <1>6, <1>7, N2Steps

LEMMA QueuesOrder ==
  ASSUME Types, [Next]_vars, ~\E u \in Ues : Attaches(u), NEW f, Sorted(n2q, appq, n1q, f)
  PROVE  Sorted(n2q', appq', n1q', f)
<1>1. Last(n2q', f) /\ \A x \in In(n2q') : x.type = "initial" => x \in In(n2q)
  BY N2Order DEF Sorted
<1>2. CASE ReceiveInitial
  <2> DEFINE m == Head(n2q)
  <2>1. n2q # <<>> /\ n2q' = Tail(n2q) /\ appq' = Append(appq, m) /\ n1q' = n1q
    BY <1>2 DEF ReceiveInitial, N2Takes
  <2>2. m \in In(n2q) /\ m \in Msgs /\ \A x \in In(n2q') : GivenUp(m, x, f)
    BY <2>1, HeadTypes, SameQueues, TookLast DEF Sorted
  <2> HIDE DEF m
  <2>3. \A x \in In(appq) \cup In(n1q) : GivenUp(x, m, f)
    BY <2>2 DEF Sorted, Before
  <2>4. \A y \in Msgs : /\ In(Append(appq, y)) = In(appq) \cup {y}
                        /\ Last(appq, f) /\ (\A x \in In(appq) : GivenUp(x, y, f))
                           => Last(Append(appq, y), f)
    BY SameQueues, Put, PutLast
  <2>5. Last(appq', f) /\ In(appq') = In(appq) \cup {m}
    BY <2>1, <2>2, <2>3, <2>4 DEF Sorted
  <2>6. Before(n1q', appq', f) /\ Before(n1q', n2q', f) /\ Before(appq', n2q', f)
    <3>1. In(n2q') \subseteq In(n2q)
      BY <2>1, HeadTypes
    <3> QED
      BY <2>1, <2>2, <2>3, <2>5, <3>1 DEF Sorted, Before
  <2> QED
    BY <1>1, <2>1, <2>5, <2>6 DEF Sorted
<1>3. CASE Establish
  <2> DEFINE m == Head(appq)
             z == [m EXCEPT !.amf = Len(uc) + 1]
  <2>1. m = Head(appq) /\ z = [m EXCEPT !.amf = Len(uc) + 1]
    OBVIOUS
  <2> HIDE DEF m, z
  <2>2. /\ appq # <<>> /\ m \in In(appq) /\ m.type = "initial" /\ appq' = Tail(appq)
        /\ n1q' = Append(n1q, z)
        /\ z \in Msgs /\ z.type = "initial" /\ z.ue = m.ue /\ z.ran = m.ran
    BY <1>3, <2>1, EstablishSends
  <2>3. n2q' = n2q
    BY <1>3 DEF Establish
  <2>4. Last(appq', f) /\ In(appq') \subseteq In(appq) /\ \A x \in In(appq') : GivenUp(m, x, f)
    BY <2>1, <2>2, HeadTypes, SameQueues, TookLast DEF Sorted
  <2>5. \A x : (GivenUp(x, m, f) => GivenUp(x, z, f)) /\ (GivenUp(m, x, f) => GivenUp(z, x, f))
    BY <2>2 DEF GivenUp
  <2>6. \A x \in In(n1q) : GivenUp(x, z, f)
    BY <2>2, <2>5 DEF Sorted, Before
  <2>7. \A x \in In(appq') \cup In(n2q) : GivenUp(z, x, f)
    BY <2>2, <2>4, <2>5 DEF Sorted, Before
  <2>8. \A y \in Msgs : /\ In(Append(n1q, y)) = In(n1q) \cup {y}
                        /\ Last(n1q, f) /\ (\A x \in In(n1q) : GivenUp(x, y, f))
                           => Last(Append(n1q, y), f)
    BY SameQueues, Put, PutLast
  <2>9. Last(n1q', f) /\ In(n1q') = In(n1q) \cup {z}
    BY <2>2, <2>6, <2>8 DEF Sorted
  <2>10. Before(n1q', appq', f) /\ Before(n1q', n2q', f) /\ Before(appq', n2q', f)
    BY <2>3, <2>4, <2>7, <2>9 DEF Sorted, Before
  <2> QED
    BY <1>1, <2>4, <2>9, <2>10 DEF Sorted
<1>4. CASE appq' = appq /\ ~Establish
  <2>1. Last(n1q', f) /\ \A x \in In(n1q') : x.type = "initial" => x \in In(n1q)
    <3>1. CASE n1q # <<>> /\ n1q' = Tail(n1q)
      BY <3>1, SameQueues, TookLast, HeadTypes DEF Sorted
    <3>2. CASE \E y \in Msgs : y.type # "initial" /\ n1q' = Append(n1q, y)
      BY <3>2, SameQueues, Put, PutLast DEF Sorted, GivenUp
    <3>3. CASE n1q' = n1q
      BY <3>3 DEF Sorted
    <3> QED
      BY <1>4, <3>1, <3>2, <3>3, N1Steps
  <2>2. Before(n1q', appq', f) /\ Before(n1q', n2q', f) /\ Before(appq', n2q', f)
    BY <1>1, <1>4, <2>1 DEF Sorted, Before, GivenUp
  <2> QED
    BY <1>1, <1>4, <2>1, <2>2 DEF Sorted
<1> QED
  BY <1>2, <1>3, <1>4, AppSteps

LEMMA OrderStep ==
  ASSUME Types, NgapInv, InOrder, [Next]_vars
  PROVE  InOrder'
<1>1. CASE \E u \in Ues : Attaches(u)
  BY <1>1, AttachOrder DEF Attaches
<1>2. CASE ~\E u \in Ues : Attaches(u)
  BY <1>2, GivenUpOrder, QueuesOrder DEF InOrder
<1> QED
  BY <1>1, <1>2

--------------------------------------------------------------------------------
(* A connection that is set up is the last one of its UE.                   *)
LEMMA N2News ==
  ASSUME Types, [Next]_vars
  PROVE  \A x \in In(n2q') :
           \/ x \in In(n2q)
           \/ x.type \in {"request", "uplink", "command"}
           \/ x.type = "initial" /\ Attaches(x.ue)
           \/ x.type = "setup" /\ HandleService /\ x.amf = Head(n1q).amf /\ x.ran = Head(n1q).ran
           \/ Released /\ Ending(x)
<1>1. \A q \in Seq(Msgs) : \A y \in Msgs : In(Append(q, y)) = In(q) \cup {y}
  BY Put
<1>2. CASE n2q' = n2q
  BY <1>2
<1>3. CASE n2q # <<>> /\ n2q' = Tail(n2q)
  BY <1>3, HeadTypes
<1>4. CASE \E y \in Msgs : y.type \in {"request", "uplink", "command"} /\ n2q' = Append(n2q, y)
  BY <1>1, <1>4, SameQueues
<1>5. ASSUME NEW u \in Ues, NEW r \in RanIds, NEW k \in Kinds, Attach(u, r, k)
      PROVE  \A x \in In(n2q') : x \in In(n2q) \/ (x.type = "initial" /\ Attaches(x.ue))
  <2> DEFINE m == Initial(u, r, 0, k)
  <2>1. m \in Msgs /\ m.type = "initial" /\ m.ue = u
    BY InitialType, Sizes
  <2>2. n2q' = Append(n2q, m) /\ Attaches(u)
    BY <1>5 DEF Attach, Attaches
  <2> HIDE DEF m
  <2> QED
    BY <1>1, <2>1, <2>2, SameQueues
<1>6. CASE Released
  <2>1. PICK y \in Msgs : Ending(y) /\ n2q # <<>> /\ n2q' = Append(Tail(n2q), y)
    BY <1>6 DEF Released
  <2>2. In(n2q') = In(Tail(n2q)) \cup {y} /\ In(Tail(n2q)) \subseteq In(n2q)
    BY <1>1, <2>1, HeadTypes
  <2> QED
    BY <1>6, <2>1, <2>2
<1>7. CASE HandleService
  <2> DEFINE m == Head(n1q)
  <2>1. m = Head(n1q)
    OBVIOUS
  <2> HIDE DEF m
  <2>2. \A x \in In(n2q') : \/ x \in In(n2q) \/ x.type = "command"
                            \/ x.type = "setup" /\ x.amf = m.amf /\ x.ran = m.ran
    BY <1>7, <2>1, ServiceQueue
  <2> QED
    BY <1>7, <2>1, <2>2
<1> QED
  BY <1>2, <1>3, <1>4, <1>5, <1>6, <1>7, N2Steps DEF Attaches

LEMMA OpensStep ==
  ASSUME Types, [Next]_vars, NEW u \in Ues, Opens(u)'
  PROVE  Opens(u) \/ Attaches(u)
<1>1. \A x \in In(n2q') : x.type = "initial" => x \in In(n2q) \/ Attaches(x.ue)
  BY N2News DEF Ending
<1>2. \A x \in In(appq') : x \in In(appq) \/ x \in In(n2q)
  <2>1. CASE Establish
    BY <2>1, HeadTypes DEF Establish
  <2>2. CASE ReceiveInitial
    <3>1. Aside
      BY <2>2 DEF Aside, N2Task
    <3> QED
      BY <3>1, AppQueue
  <2> QED
    BY <2>1, <2>2, AppSteps
<1>3. \A x \in In(n1q') : x.type = "initial" =>
        x \in In(n1q) \/ \E y \in In(appq) : y.type = "initial" /\ y.ue = x.ue
  <2>1. CASE n1q # <<>> /\ n1q' = Tail(n1q)
    BY <2>1, HeadTypes
  <2>2. CASE \E y \in Msgs : y.type # "initial" /\ n1q' = Append(n1q, y)
    BY <2>2, SameQueues, Put
  <2>3. CASE Establish
    <3> DEFINE m == Head(appq)
               z == [m EXCEPT !.amf = Len(uc) + 1]
    <3>1. m = Head(appq) /\ z = [m EXCEPT !.amf = Len(uc) + 1]
      OBVIOUS
    <3> HIDE DEF m, z
    <3>2. m \in In(appq) /\ m.type = "initial" /\ z.ue = m.ue /\ In(n1q') = In(n1q) \cup {z}
      BY <2>3, <3>1, EstablishSends
    <3> QED
      BY <3>2
  <2>4. CASE n1q' = n1q
    BY <2>4
  <2> QED
    BY <2>1, <2>2, <2>3, <2>4, N1Steps
<1> QED
  BY <1>1, <1>2, <1>3 DEF Opens

LEMMA StepFollows ==
  ASSUME Types, NgapInv, NasInv, [Next]_vars
  PROVE  Follows
<1>1. CASE Aside
  BY <1>1, AsideFollows DEF NasInv
<1>2. CASE Establish \/ HandleService \/ HandleInitialDeregistration \/ HandleDeregistration
  <2>1. gnb' = gnb
    BY <1>2 DEF Establish, HandleService, HandleInitialDeregistration, HandleDeregistration, ran
  <2> QED
    BY <2>1 DEF Follows
<1> QED
  BY <1>1, <1>2, NextCases

LEMMA SupiStays ==
  ASSUME Types, NgapInv, NasInv, [Next]_vars, NEW u \in Ues, ~Opens(u)
  PROVE  supi2amf'[u] = supi2amf[u]
<1>1. CASE HandleService \/ HandleInitialDeregistration
  <2> DEFINE m == Head(n1q)
  <2>1. m = Head(n1q) /\ n1q # <<>> /\ m.type = "initial" /\ n1q' = Tail(n1q) /\ Moved(m.ue, m.amf, m.ran)
    BY <1>1 DEF HandleService, HandleInitialDeregistration, N1Takes
  <2> HIDE DEF m
  <2>2. m \in In(n1q) /\ \A v \in Ues \ {m.ue} : supi2amf'[v] = supi2amf[v]
    BY <2>1, MovedFacts
  <2> QED
    BY <2>1, <2>2 DEF Opens
<1>2. CASE Aside
  BY <1>2, AsideKeeps
<1>3. CASE Establish \/ HandleDeregistration
  BY <1>3 DEF Establish, HandleDeregistration, nas
<1> QED
  BY <1>1, <1>2, <1>3, NextCases

\* A UE that is reached over another context is not settled.
LEMMA LinkKept ==
  ASSUME Types, NgapInv, [Next]_vars, NEW u \in Ues, link'[u] # 0,
         gnb'[link'[u]].amf # 0 \/ \E x \in In(n2q') : x.type = "setup" /\ x.ran = link'[u]
  PROVE  link'[u] = link[u]
<1>1. CASE Released
  BY <1>1 DEF Released
<1>2. ASSUME NEW v \in Ues, NEW r \in RanIds, NEW k \in Kinds, Attach(v, r, k)
      PROVE  link'[u] = link[u]
  <2> DEFINE m == Initial(v, r, 0, k)
  <2>1. m \in Msgs /\ m.type = "initial"
    BY InitialType, Sizes
  <2>2. /\ gnb[r] = Free /\ gnb' = [gnb EXCEPT ![r] = [ue |-> v, amf |-> 0, asked |-> FALSE]]
        /\ link' = [link EXCEPT ![v] = r] /\ n2q' = Append(n2q, m)
    BY <1>2 DEF Attach, Used
  <2> HIDE DEF m
  <2>3. gnb'[r].amf = 0 /\ link'[v] = r
    BY <2>2 DEF Types, RanTypes
  <2>4. Fresh(n2q, r) /\ In(n2q') = In(n2q) \cup {m}
    BY <2>1, <2>2, SetUpIsFresh, Sizes, SameQueues, Put DEF Free
  <2>5. u # v
    BY <2>1, <2>3, <2>4 DEF Fresh, Staged
  <2> QED
    BY <2>2, <2>5 DEF Types, RanTypes
<1> QED
  BY <1>1, <1>2, LinkSteps DEF Attaches

\* The connection that a Service Request sets up for a UE that waits for it.
LEMMA ServiceFor ==
  ASSUME Types, NgapInv, NasInv, HandleService, NEW m, m = Head(n1q), NEW u \in Ues, link[u] = m.ran
  PROVE  m.ue = u /\ m \in In(n1q) /\ m.type = "initial" /\ m.ran \in RanIds
         /\ n1q # <<>> /\ n1q' = Tail(n1q) /\ supi2amf'[u] = m.amf
<1>1. n1q # <<>> /\ m.type = "initial" /\ n1q' = Tail(n1q) /\ Moved(m.ue, m.amf, m.ran)
  BY DEF HandleService, N1Takes
<1>2. m \in In(n1q) /\ m.ran \in RanIds /\ Waits(m.ran, m.ue) /\ supi2amf'[m.ue] = m.amf
  BY <1>1, MovedFacts
<1>3. m.ue = u
  BY <1>2, Sizes DEF Waits, NasInv, Linked
<1> QED
  BY <1>1, <1>2, <1>3

\* Who settles has opened no connection since.
LEMMA SettledStep ==
  ASSUME Types, NgapInv, NasInv, InOrder, Settles, [Next]_vars, NEW u \in Ues, Settled(u)'
  PROVE  /\ ~Opens(u)'
         /\ \/ Settled(u)
            \/ HandleService /\ link'[u] = link[u] /\ link[u] = Head(n1q).ran
<1>1. ASSUME Attaches(u) PROVE FALSE
  <2>1. PICK r \in RanIds, k \in Kinds : Attach(u, r, k)
    BY <1>1 DEF Attaches
  <2>2. gnb[r] = Free /\ link' = [link EXCEPT ![u] = r] /\ gnb' = [gnb EXCEPT ![r] = [ue |-> u, amf |-> 0, asked |-> FALSE]]
        /\ n2q' = Append(n2q, Initial(u, r, 0, k))
    BY <2>1 DEF Attach, Used
  <2>3. link'[u] = r /\ r # 0 /\ gnb'[r].amf = 0
    BY <2>2, Sizes DEF Types, RanTypes
  <2>4. PICK x \in In(n2q') : x.type = "setup" /\ x.ran = r
    BY <2>3 DEF Settled
  <2>5. link'[u] = link[u]
    BY <2>3, <2>4, LinkKept
  <2>6. In(n2q') = In(n2q) \cup {Initial(u, r, 0, k)} /\ Initial(u, r, 0, k).type = "initial"
    BY <2>2, InitialType, Sizes, SameQueues, Put
  <2>7. Fresh(n2q, r)
    BY <2>2, SetUpIsFresh, Sizes DEF Free
  <2> QED
    BY <2>4, <2>6, <2>7 DEF Fresh, Staged
<1>2. CASE HandleService /\ link'[u] = link[u] /\ link[u] = Head(n1q).ran
  <2> DEFINE m == Head(n1q)
  <2>1. m = Head(n1q)
    OBVIOUS
  <2> HIDE DEF m
  <2>2. /\ m.ue = u /\ m \in In(n1q) /\ m.type = "initial" /\ m.ran = link[u]
        /\ n1q # <<>> /\ n1q' = Tail(n1q)
    BY <1>2, <2>1, ServiceFor
  <2>3. \A x \in In(Tail(n1q)) : GivenUp(m, x, link)
    BY <2>1, <2>2, SameQueues, TookLast DEF InOrder, Sorted
  <2>4. \A x \in In(appq) \cup In(n2q) : GivenUp(m, x, link)
    BY <2>2 DEF InOrder, Sorted, Before
  <2>5. \A x \in In(n1q') \cup In(appq) \cup In(n2q) : x.type = "initial" => x.ue # u
    BY <2>2, <2>3, <2>4 DEF GivenUp
  <2>6. appq' = appq /\ \A x \in In(n2q') : x.type = "initial" => x \in In(n2q)
    BY <1>1, <1>2, <2>1, ServiceQueue DEF HandleService
  <2> QED
    BY <1>2, <2>5, <2>6 DEF Opens
<1>3. Settled(u) \/ (HandleService /\ link'[u] = link[u] /\ link[u] = Head(n1q).ran)
  <2>1. CASE link'[u] = 0
    <3>1. CASE Released
      <4>1. PICK y \in Msgs : /\ Ending(y)
                              /\ link' = [v \in Ues |-> IF v = gnb[y.ran].ue /\ link[v] = y.ran
                                                        THEN 0 ELSE link[v]]
        BY <3>1 DEF Released
      <4>2. link[u] = 0 \/ (link[u] = y.ran /\ gnb[y.ran].amf # 0)
        BY <2>1, <4>1, Sizes DEF Ending
      <4> QED
        BY <4>2 DEF Settled
    <3>2. CASE \E v \in Ues : Attaches(v)
      BY <2>1, <3>2, Sizes DEF Attaches, Attach, Settled, Types, RanTypes
    <3> QED
      BY <2>1, <3>1, <3>2, LinkSteps DEF Settled
  <2>2. CASE link'[u] # 0 /\ gnb'[link'[u]].amf # 0
    <3>1. link'[u] = link[u] /\ link[u] \in RanIds
      BY <2>2, LinkKept DEF Types, RanTypes
    <3> QED
      BY <2>2, <3>1, StepFollows DEF Follows, Settled
  <2>3. CASE link'[u] # 0 /\ \E x \in In(n2q') : x.type = "setup" /\ x.ran = link'[u]
    <3>1. link'[u] = link[u]
      BY <2>3, LinkKept
    <3>2. PICK x \in In(n2q') : x.type = "setup" /\ x.ran = link[u]
      BY <2>3, <3>1
    <3>3. x \in In(n2q) \/ (HandleService /\ x.ran = Head(n1q).ran)
      BY <3>2, N2News DEF Ending
    <3> QED
      BY <3>1, <3>2, <3>3 DEF Settled
  <2> QED
    BY <2>1, <2>2, <2>3 DEF Settled
<1>4. CASE Settled(u)
  BY <1>1, <1>4, OpensStep DEF Settles
<1> QED
  BY <1>2, <1>3, <1>4

LEMMA SettlesStep ==
  ASSUME Types, NgapInv, NasInv, InOrder, Settles, [Next]_vars
  PROVE  Settles'
<1>1. ASSUME NEW u \in Ues, Settled(u)' PROVE ~Opens(u)'
  BY <1>1, SettledStep
<1>2. ASSUME NEW u \in Ues, Settled(u) PROVE supi2amf'[u] = supi2amf[u]
  BY <1>2, SupiStays DEF Settles
<1>3. ASSUME NEW u \in Ues, link'[u] # 0, gnb'[link'[u]].amf # 0
      PROVE  supi2amf'[u] = gnb'[link'[u]].amf
  <2>1. link'[u] = link[u] /\ link[u] \in RanIds
    BY <1>3, LinkKept DEF Types, RanTypes
  <2>2. \/ gnb[link[u]].amf = gnb'[link[u]].amf
        \/ \E m \in In(n2q) : m.type = "setup" /\ m.ran = link[u] /\ m.amf = gnb'[link[u]].amf
    BY <1>3, <2>1, StepFollows DEF Follows
  <2>3. supi2amf[u] = gnb'[link[u]].amf /\ Settled(u)
    BY <1>3, <2>1, <2>2 DEF Settles, Settled
  <2> QED
    BY <1>2, <2>1, <2>3
<1>4. ASSUME NEW x \in In(n2q'), x.type = "setup", NEW u \in Ues, link'[u] = x.ran
      PROVE  supi2amf'[u] = x.amf
  <2>1. x \in In(n2q) \/ (HandleService /\ x.amf = Head(n1q).amf /\ x.ran = Head(n1q).ran)
    BY <1>4, N2News DEF Ending
  <2>2. link'[u] # 0
    <3>1. CASE x \in In(n2q)
      BY <1>4, <3>1, QueueFacts, Sizes
    <3>2. CASE HandleService
      BY <1>4, <2>1, <3>1, <3>2, ServiceSends, Sizes
    <3> QED
      BY <2>1, <3>1, <3>2
  <2>3. link'[u] = link[u]
    BY <1>4, <2>2, LinkKept
  <2>4. CASE x \in In(n2q)
    BY <1>2, <1>4, <2>3, <2>4 DEF Settles, Settled
  <2>5. CASE HandleService /\ x.amf = Head(n1q).amf /\ x.ran = Head(n1q).ran
    <3> DEFINE m == Head(n1q)
    <3>1. m = Head(n1q) /\ link[u] = m.ran /\ x.amf = m.amf
      BY <1>4, <2>3, <2>5
    <3> HIDE DEF m
    <3> QED
      BY <2>5, <3>1, ServiceFor
  <2> QED
    BY <2>1, <2>4, <2>5
<1> QED
  BY <1>1, <1>3, <1>4 DEF Settles

--------------------------------------------------------------------------------
(* A connection ends once.                                                  *)
LEMMA EndsOnceStep ==
  ASSUME Types, NgapInv, Endings, [Next]_vars
  PROVE  EndsOnce(n2q')
<1>1. \A q \in Seq(Msgs) : \A y \in Msgs :
        EndsOnce(q) /\ (y.type = "complete" => \A x \in In(q) : x.type = "complete" => x.ran # y.ran)
          => EndsOnce(Append(q, y))
  BY PutLast
<1>2. n2q # <<>> => EndsOnce(Tail(n2q)) /\ Tail(n2q) \in Seq(Msgs) /\ In(Tail(n2q)) \subseteq In(n2q)
  BY SameQueues, TookLast, HeadTypes DEF Endings
<1>3. n2q \in Seq(Msgs) /\ EndsOnce(n2q)
  BY SameQueues DEF Endings
<1>4. CASE \E y \in Msgs : y.type \in {"request", "uplink", "command"} /\ n2q' = Append(n2q, y)
  BY <1>1, <1>3, <1>4
<1>5. CASE \E u \in Ues : Attaches(u)
  <2>1. PICK u \in Ues, r \in RanIds, k \in Kinds : Attach(u, r, k)
    BY <1>5 DEF Attaches
  <2>2. Initial(u, r, 0, k) \in Msgs /\ Initial(u, r, 0, k).type = "initial"
    BY InitialType, Sizes
  <2>3. n2q' = Append(n2q, Initial(u, r, 0, k))
    BY <2>1 DEF Attach
  <2> QED
    BY <1>1, <1>3, <2>2, <2>3
<1>6. CASE Released
  <2>1. PICK y \in Msgs : Ending(y) /\ n2q # <<>> /\ n2q' = Append(Tail(n2q), y)
    BY <1>6 DEF Released
  <2>2. gnb[y.ran].amf # 0
    BY <2>1, Sizes DEF Ending
  <2>3. \A x \in In(n2q) : x.type = "complete" => gnb[x.ran].amf = 0
    BY DEF NgapInv, Ends, Over
  <2> QED
    BY <1>1, <1>2, <2>1, <2>2, <2>3
<1>7. CASE HandleService
  <2> DEFINE m == Head(n1q)
             s == Msg("setup", m.amf, m.ran)
             o == Msg("command", nc[m.ue].amf, nc[m.ue].ran)
             p == Append(n2q, o)
  <2>1. m = Head(n1q) /\ s = Msg("setup", m.amf, m.ran) /\ o = Msg("command", nc[m.ue].amf, nc[m.ue].ran)
    OBVIOUS
  <2> HIDE DEF m, s, o
  <2>2. s \in Msgs /\ s.type = "setup" /\ o \in Msgs /\ o.type = "command"
    BY <1>7, <2>1, ServiceSends
  <2>3. n2q' = Append(n2q, s) \/ n2q' = Append(p, s)
    BY <1>7, <2>1, ServiceSends
  <2>4. p \in Seq(Msgs) /\ EndsOnce(p)
    BY <1>1, <1>3, <2>2, Put
  <2> HIDE DEF p
  <2> QED
    BY <1>1, <1>3, <2>2, <2>3, <2>4
<1> QED
  BY <1>2, <1>3, <1>4, <1>5, <1>6, <1>7, N2Steps

LEMMA NgapSteps ==
  ASSUME [Next]_vars
  PROVE  \/ UNCHANGED <<amf2unc, n2>> \/ Establish \/ CompletesOne
         \/ CompleteGoesIdle \/ CompleteRemoves
  BY DEF Next, N2Task, N1Task, Attach, Inactive, Leave, ReceiveInitial, ReceiveUplink,
         ReceiveReleaseRequest, SendReleaseCommand, SetupContext, CompletesOne,
         HandleMobileTimeout, HandleImplicitTimeout, HandleDeregistration, HandleService,
         HandleInitialDeregistration, Fire, ngap, vars, In

\* The NGAP context of an ended connection goes with the end of no other.
LEMMA RemovedKeeps ==
  ASSUME Types, NgapInv, NEW c \in DOMAIN uc, NEW r \in RanIds, RemovedUnc(c, r), uc[c].ran = r,
         NEW x \in In(n2q), x.type = "complete", x.ran # r
  PROVE  amf2unc'[x.amf] = amf2unc[x.amf]
<1>1. uc[x.amf].ran = x.ran /\ x.amf \in Conns
  BY QueueFacts, Sizes DEF NgapInv, Ends, Over
<1> QED
  BY <1>1 DEF RemovedUnc, Types, NgapTypes

LEMMA EndingsStep ==
  ASSUME Types, NgapInv, Endings, [Next]_vars
  PROVE  Endings'
<1> SUFFICES ASSUME NEW x \in In(n2q'), x.type = "complete"
             PROVE  amf2unc'[x.amf] # 0 /\ (n2' # NoWait => n2'.ran # x.ran)
  BY EndsOnceStep DEF Endings
<1>1. CASE x \notin In(n2q)
  <2>1. Ending(x)
    BY <1>1, N2News
  <2>2. Bound(x.ran, gnb[x.ran].ue, x.amf)
    BY <2>1, Sizes DEF Ending, NgapInv, Stages
  <2> QED
    BY <2>1, <2>2 DEF Ending, ngap, Bound
<1>2. CASE x \in In(n2q)
  <2>1. amf2unc[x.amf] # 0 /\ (n2 # NoWait => n2.ran # x.ran) /\ x.amf \in DOMAIN uc
    BY <1>2, QueueFacts DEF Endings
  <2>2. CASE UNCHANGED <<amf2unc, n2>>
    BY <2>1, <2>2
  <2>3. CASE Establish
    <3>1. n2' = n2 /\ appq # <<>>
          /\ (amf2unc' = amf2unc \/ \E i : amf2unc' = [amf2unc EXCEPT ![Len(uc) + 1] = i])
      BY <2>3 DEF Establish
    <3>2. x.amf # Len(uc) + 1
      BY <2>1, Sizes
    <3> QED
      BY <2>1, <3>1, <3>2, Sizes DEF Types, NgapTypes
  <2>4. CASE CompletesOne
    <3>1. PICK m \in In(n2q) : CompleteUnknown(m) \/ CompleteOld(m) \/ CompleteCurrent(m)
      BY <2>4 DEF CompletesOne
    <3>2. /\ n2q # <<>> /\ m = Head(n2q) /\ n2q' = Tail(n2q) /\ m.type = "complete" /\ n2 = NoWait
      BY <3>1 DEF CompleteUnknown, CompleteOld, CompleteCurrent, Completes, N2Takes
    <3>3. x.ran # m.ran
      <4>1. \A y \in In(Tail(n2q)) : y.type = "complete" => y.ran # Head(n2q).ran
        BY <3>2, SameQueues, TookLast DEF Endings
      <4> QED
        BY <3>2, <4>1
    <3>4. CASE CompleteUnknown(m)
      BY <2>1, <3>2, <3>4 DEF CompleteUnknown, ngap
    <3>5. CASE CompleteOld(m)
      <4>1. RemovedUnc(m.amf, m.ran) /\ uc[m.amf].ran = m.ran /\ n2' = n2
        BY <3>5 DEF CompleteOld, HasContexts
      <4>2. m.amf \in DOMAIN uc /\ m.ran \in RanIds
        BY <3>2, QueueFacts
      <4>3. amf2unc'[x.amf] = amf2unc[x.amf]
        BY <1>2, <3>3, <4>1, <4>2, RemovedKeeps
      <4> QED
        BY <2>1, <4>1, <4>3
    <3>6. CASE CompleteCurrent(m)
      <4>1. amf2unc' = amf2unc /\ n2'.ran = m.ran
        BY <3>6 DEF CompleteCurrent, ngap
      <4> QED
        BY <2>1, <3>3, <4>1
    <3> QED
      BY <3>1, <3>4, <3>5, <3>6
  <2>5. CASE CompleteRemoves
    <3>1. n2 # NoWait /\ RemovedUnc(n2.amf, n2.ran) /\ n2' = NoWait
      BY <2>5 DEF CompleteRemoves
    <3>2. n2.amf \in DOMAIN uc /\ n2.ran \in RanIds /\ uc[n2.amf].ran = n2.ran
      BY <3>1 DEF Types, QueueTypes, N2Release, NgapInv, Ends, Over
    <3>3. amf2unc'[x.amf] = amf2unc[x.amf]
      BY <1>2, <2>1, <3>1, <3>2, RemovedKeeps
    <3> QED
      BY <2>1, <3>1, <3>3
  <2>6. CASE CompleteGoesIdle
    <3>1. n2 # NoWait /\ n2'.ran = n2.ran /\ amf2unc' = amf2unc
      BY <2>6 DEF CompleteGoesIdle, Types, QueueTypes, N2Release, NoWait, ngap
    <3> QED
      BY <2>1, <3>1
  <2> QED
    BY <2>2, <2>3, <2>4, <2>5, <2>6, NgapSteps
<1> QED
  BY <1>1, <1>2

--------------------------------------------------------------------------------
(* A UE out of reach is watched.                                            *)
LEMMA OwnerStays ==
  ASSUME Types, NgapInv, NasInv, [Next]_vars, NEW u \in Ues, u \notin gone, NEW c \in Conns,
         amf2nc[c] = u
  PROVE  amf2nc'[c] = u
<1>1. CASE HandleService \/ HandleInitialDeregistration
  <2> DEFINE m == Head(n1q)
  <2>1. m = Head(n1q) /\ n1q # <<>> /\ m.type = "initial" /\ n1q' = Tail(n1q) /\ Moved(m.ue, m.amf, m.ran)
    BY <1>1 DEF HandleService, HandleInitialDeregistration, N1Takes
  <2> HIDE DEF m
  <2>2. amf2nc[m.amf] = NoUe /\ \A d \in Conns \ {m.amf} : amf2nc'[d] = amf2nc[d]
    BY <2>1, MovedFacts
  <2> QED
    BY <2>2, NoUeAssumption
<1>2. CASE HandleDeregistration
  <2> DEFINE m == Head(n1q)
  <2>1. m = Head(n1q)
    OBVIOUS
  <2> HIDE DEF m
  <2>2. Left(m.amf) /\ (amf2nc'[c] = amf2nc[c] \/ c = m.amf)
    BY <1>2, <2>1, DeregistrationFacts
  <2>3. ~Left(c)
    BY NoUeAssumption DEF Left
  <2> QED
    BY <2>2, <2>3 DEF Left
<1>3. CASE Aside
  BY <1>3, AsideKeeps
<1>4. CASE Establish
  BY <1>4 DEF Establish, nas
<1> QED
  BY <1>1, <1>2, <1>3, <1>4, NextCases

LEMMA EndStays ==
  ASSUME Types, [Next]_vars, NEW x \in In(n2q), x.type = "complete"
  PROVE  x \in In(n2q') \/ CompleteUnknown(x) \/ CompleteOld(x) \/ CompleteCurrent(x)
<1>1. n2q # <<>> => In(n2q) = {Head(n2q)} \cup In(Tail(n2q)) /\ Tail(n2q) \in Seq(Msgs)
  BY SameQueues, Took
<1>2. \A q \in Seq(Msgs) : \A y \in Msgs : In(Append(q, y)) = In(q) \cup {y}
  BY Put
<1>3. CASE CompletesOne
  <2>1. PICK m \in In(n2q) : CompleteUnknown(m) \/ CompleteOld(m) \/ CompleteCurrent(m)
    BY <1>3 DEF CompletesOne
  <2>2. n2q # <<>> /\ m = Head(n2q) /\ n2q' = Tail(n2q)
    BY <2>1 DEF CompleteUnknown, CompleteOld, CompleteCurrent, Completes, N2Takes
  <2> QED
    BY <1>1, <2>1, <2>2
<1>4. CASE n2q # <<>> /\ n2q' = Tail(n2q) /\ Head(n2q).type # "complete"
  BY <1>1, <1>4
<1>5. CASE \E y \in Msgs : y.type \in {"request", "uplink", "command"} /\ n2q' = Append(n2q, y)
  BY <1>2, <1>5, SameQueues
<1>6. CASE \E u \in Ues : Attaches(u)
  <2>1. PICK u \in Ues, r \in RanIds, k \in Kinds : Attach(u, r, k)
    BY <1>6 DEF Attaches
  <2>2. Initial(u, r, 0, k) \in Msgs
    BY InitialType, Sizes
  <2>3. n2q' = Append(n2q, Initial(u, r, 0, k))
    BY <2>1 DEF Attach
  <2> QED
    BY <1>2, <2>2, <2>3, SameQueues
<1>7. CASE Released
  <2>1. PICK y \in Msgs : /\ n2q # <<>> /\ Head(n2q).type \in {"request", "command"}
                          /\ n2q' = Append(Tail(n2q), y)
    BY <1>7 DEF Released
  <2> QED
    BY <1>1, <1>2, <2>1
<1>8. CASE HandleService
  <2>1. \A m : m = Head(n1q) => In(n2q) \subseteq In(n2q')
    BY <1>8, ServiceQueue
  <2> QED
    BY <2>1
<1>9. CASE n2q' = n2q
  BY <1>9
<1> QED
  BY <1>3, <1>4, <1>5, <1>6, <1>7, <1>8, <1>9, N2Steps

\* The end of the latest connection of a UE is known for what it is.
LEMMA EndOfLatest ==
  ASSUME Types, NgapInv, Endings, NEW u \in Ues,
         NEW x \in In(n2q), x.type = "complete", amf2nc[x.amf] = u, supi2amf[u] = x.amf
  PROVE  ~CompleteUnknown(x) /\ ~CompleteOld(x)
<1>1. uc[x.amf].ran = x.ran /\ amf2unc[x.amf] # 0 /\ amf2nc[x.amf] # NoUe
  BY NoUeAssumption DEF NgapInv, Ends, Over, Endings
<1> QED
  BY <1>1 DEF CompleteUnknown, CompleteOld, HasContexts, Current

\* Timers fire, and their messages wait for the N1 task.
LEMMA TimerStays ==
  ASSUME Types, [Next]_vars, NEW t \in timers
  PROVE  t \in timers' \/ \E m \in In(n1q') : m.type \in {"mobile", "implicit"} /\ m.amf = t.amf
<1>1. ASSUME NEW s \in timers, Fire(s)
      PROVE  t \in timers' \/ \E m \in In(n1q') : m.type \in {"mobile", "implicit"} /\ m.amf = t.amf
  <2> DEFINE m == Msg(s.kind, s.amf, 0)
  <2>1. s.kind \in {"mobile", "implicit"} /\ s.amf \in 0 .. MaxConns
    BY Sizes DEF Types, NasTypes
  <2>2. m \in Msgs /\ m.type = s.kind /\ m.amf = s.amf
    BY <2>1, MsgType
  <2>3. n1q' = Append(n1q, m) /\ timers' = timers \ {s}
    BY <1>1 DEF Fire
  <2> HIDE DEF m
  <2>4. m \in In(n1q')
    BY <2>2, <2>3, SameQueues, Put
  <2> QED
    BY <2>1, <2>2, <2>3, <2>4
<1>2. CASE timers \subseteq timers'
  BY <1>2
<1>3. (\E s \in timers : Fire(s)) \/ timers \subseteq timers'
  BY DEF Next, N2Task, N1Task, Attach, Inactive, Leave, ReceiveInitial, ReceiveUplink,
         ReceiveReleaseRequest, SendReleaseCommand, SetupContext, CompleteGoesIdle, CompleteRemoves,
         CompleteUnknown, CompleteOld, CompleteCurrent, Establish, HandleService,
         HandleInitialDeregistration, HandleDeregistration, HandleMobileTimeout,
         HandleImplicitTimeout, vars
<1> QED
  BY <1>1, <1>2, <1>3

LEMMA TimeoutStays ==
  ASSUME Types, NasInv, [Next]_vars, NEW u \in Ues, u \notin gone,
         NEW x \in In(n1q), Watches(x, u)
  PROVE  \/ x \in In(n1q')
         \/ \E t \in timers' : t.amf = x.amf
         \/ u \in released'
<1>1. x.type \in {"mobile", "implicit"} /\ amf2nc[x.amf] = u
  BY DEF Watches
<1>2. \A y \in Msgs : In(Append(n1q, y)) = In(n1q) \cup {y}
  BY SameQueues, Put
<1>3. n1q # <<>> => In(n1q) = {Head(n1q)} \cup In(Tail(n1q))
  BY SameQueues, Took
<1>4. CASE x \in In(n1q')
  BY <1>4
<1>5. CASE \E y \in Msgs : y.type # "initial" /\ n1q' = Append(n1q, y)
  BY <1>2, <1>5
<1>6. CASE Establish
  <2> DEFINE m == Head(appq)
             z == [m EXCEPT !.amf = Len(uc) + 1]
  <2>1. m = Head(appq) /\ z = [m EXCEPT !.amf = Len(uc) + 1]
    OBVIOUS
  <2> HIDE DEF m, z
  <2>2. In(n1q') = In(n1q) \cup {z}
    BY <1>6, <2>1, EstablishSends
  <2> QED
    BY <2>2
<1>7. CASE n1q # <<>> /\ n1q' = Tail(n1q) /\ N1Task /\ x = Head(n1q)
  <2>1. CASE HandleMobileTimeout
    <3> DEFINE t == [kind |-> "implicit", amf |-> x.amf]
    <3>1. t \in timers' /\ t.amf = x.amf
      BY <1>1, <1>7, <2>1, NoUeAssumption DEF HandleMobileTimeout
    <3> HIDE DEF t
    <3> QED
      BY <3>1
  <2>2. CASE HandleImplicitTimeout
    <3>1. uc[nc[u].amf].sessions
      BY DEF NasInv, SessionsFollow
    <3> QED
      BY <1>1, <1>7, <2>2, <3>1, NoUeAssumption DEF HandleImplicitTimeout
  <2>4. HandleMobileTimeout \/ HandleImplicitTimeout
    BY <1>1, <1>7 DEF N1Task, N1Takes, HandleService, HandleInitialDeregistration, HandleDeregistration
  <2> QED
    BY <2>1, <2>2, <2>4
<1> QED
  BY <1>3, <1>4, <1>5, <1>6, <1>7, N1Steps

LEMMA WatchedStays ==
  ASSUME Types, NgapInv, NasInv, InHand, Settles, Endings, [Next]_vars,
         NEW u \in Ues, u \notin gone, link[u] = 0, Watched(u)
  PROVE  Watched(u)'
<1>1. \A c \in Conns : amf2nc[c] = u => amf2nc'[c] = u
  BY OwnerStays
<1>2. supi2amf'[u] = supi2amf[u]
  BY SupiStays DEF Settles, Settled
<1>3. ASSUME NEW x \in In(n2q), x.type = "complete", amf2nc[x.amf] = u, supi2amf[u] = x.amf
      PROVE  Watched(u)'
  <2>1. amf2nc'[x.amf] = u
    BY <1>1, <1>3, QueueFacts, Sizes
  <2>2. CASE x \in In(n2q')
    BY <1>2, <1>3, <2>1, <2>2 DEF Watched
  <2>3. CASE CompleteCurrent(x)
    <3>1. n2'.ue = u
      BY <1>3, <2>3 DEF CompleteCurrent
    <3> QED
      BY <3>1 DEF Watched
  <2> QED
    BY <1>3, <2>2, <2>3, EndStays, EndOfLatest
<1>4. ASSUME NEW t \in timers, amf2nc[t.amf] = u
      PROVE  Watched(u)'
  <2>1. amf2nc'[t.amf] = u
    BY <1>1, <1>4, Sizes DEF Types, NasTypes
  <2> QED
    BY <2>1, TimerStays DEF Watched, Watches
<1>5. ASSUME NEW x \in In(n1q), Watches(x, u)
      PROVE  Watched(u)'
  <2>1. amf2nc'[x.amf] = u /\ x.type \in {"mobile", "implicit"}
    BY <1>1, <1>5, QueueFacts, Sizes DEF Watches
  <2> QED
    BY <1>5, <2>1, TimeoutStays DEF Watched, Watches
<1>6. CASE u \in released
  <2>1. released \subseteq released'
    BY DEF Next, N2Task, N1Task, Attach, Inactive, Leave, ReceiveInitial, ReceiveUplink,
           ReceiveReleaseRequest, SendReleaseCommand, SetupContext, CompleteGoesIdle, CompleteRemoves,
           CompleteUnknown, CompleteOld, CompleteCurrent, Establish, HandleService,
           HandleInitialDeregistration, HandleDeregistration, HandleMobileTimeout,
           HandleImplicitTimeout, Fire, vars
  <2> QED
    BY <1>6, <2>1 DEF Watched
<1>7. CASE n2.ue = u
  <2>1. n2.ue # NoUe /\ n2.amf \in Conns
    BY <1>7, NoUeAssumption, Sizes DEF Types, QueueTypes, N2Release, NoWait
  <2>2. CASE CompleteGoesIdle
    <3> DEFINE t == [kind |-> "mobile", amf |-> n2.amf]
    <3>1. t \in timers' /\ t.amf = n2.amf
      BY <2>2 DEF CompleteGoesIdle, MobileTimer
    <3> HIDE DEF t
    <3>2. amf2nc'[n2.amf] = u
      BY <1>1, <1>7, <2>1 DEF InHand, Owner
    <3> QED
      BY <3>1, <3>2 DEF Watched
  <2>3. CASE n2' = n2
    BY <1>7, <2>3 DEF Watched
  <2> QED
    BY <2>1, <2>2, <2>3, HandSteps
<1> QED
  BY <1>3, <1>4, <1>5, <1>6, <1>7 DEF Watched

LEMMA WatchingStep ==
  ASSUME Types, NgapInv, NasInv, InHand, OrderInv, [Next]_vars
  PROVE  Watching'
<1> SUFFICES ASSUME NEW u \in Ues, u \notin gone', link'[u] = 0
             PROVE  Watched(u)'
  BY DEF Watching
<1>1. u \notin gone
  <2>1. gone \subseteq gone'
    <3>1. CASE Aside
      BY <3>1, AsideKeeps
    <3>2. CASE Establish \/ HandleService \/ HandleInitialDeregistration \/ HandleDeregistration
      BY <3>2 DEF Establish, HandleService, HandleInitialDeregistration, HandleDeregistration, ran
    <3> QED
      BY <3>1, <3>2, NextCases
  <2> QED
    BY <2>1
<1>2. CASE link[u] = 0
  BY <1>1, <1>2, WatchedStays DEF OrderInv, Watching
<1>3. CASE link[u] # 0
  <2>1. Released
    BY <1>3, LinkSteps, Sizes DEF Attaches, Attach, Types, RanTypes
  <2>2. PICK y \in Msgs : /\ Ending(y) /\ n2q # <<>> /\ n2q' = Append(Tail(n2q), y)
                          /\ link' = [v \in Ues |-> IF v = gnb[y.ran].ue /\ link[v] = y.ran
                                                    THEN 0 ELSE link[v]]
    BY <2>1 DEF Released
  <2>3. gnb[y.ran].ue = u /\ link[u] = y.ran /\ gnb[y.ran].amf = y.amf /\ y.amf # 0
    BY <1>3, <2>2, Sizes DEF Ending
  <2>4. supi2amf[u] = y.amf /\ amf2nc[y.amf] = u
    BY <1>1, <1>3, <2>2, <2>3 DEF Ending, OrderInv, Settles, NasInv, Owned, Owner
  <2>5. supi2amf' = supi2amf /\ amf2nc' = amf2nc /\ y.type = "complete"
    BY <2>2 DEF Ending, nas
  <2>6. y \in In(n2q')
    <3>1. \A q \in Seq(Msgs) : \A z \in Msgs : z \in In(Append(q, z))
      BY Put
    <3> QED
      BY <2>2, <3>1, HeadTypes
  <2> QED
    BY <2>4, <2>5, <2>6 DEF Watched
<1> QED
  BY <1>2, <1>3

LEMMA InitOrder == Init => OrderInv
<1> SUFFICES ASSUME Init PROVE OrderInv
  OBVIOUS
<1>1. /\ In(n2q) = {} /\ In(appq) = {} /\ In(n1q) = {} /\ n2q = <<>> /\ appq = <<>> /\ n1q = <<>>
      /\ link = InitRan /\ supi2amf = InitRan
      /\ \A i \in DOMAIN <<>> : FALSE
  BY Nothing DEF Init
<1>2. InOrder
  BY <1>1 DEF InOrder, Sorted, Last, Before
<1>3. \A u \in Ues : link[u] \in 1 .. Cardinality(Ues) /\ link[u] \in RanIds /\ link[u] # 0
  BY <1>1, FirstUes, InitRanAssumption
<1>4. Settles
  <2>1. \A r \in RanIds : gnb[r].amf # 0 => gnb[r].amf = r
    BY DEF Init, Free
  <2> QED
    BY <1>1, <1>3, <2>1 DEF Settles, Opens
<1>5. Endings
  BY <1>1 DEF Endings, EndsOnce
<1>6. Watching
  BY <1>3 DEF Watching
<1> QED
  BY <1>2, <1>4, <1>5, <1>6 DEF OrderInv

\* A UE out of reach is watched: the end of its connection is on the way to the
\* N2 task or in its hands, or its mobile reachable or its implicit deregistration timer runs or
\* has fired, until the SMF was asked to release its PDU sessions (amf_n1.cpp,
\* amf_n2.cpp).
THEOREM OutOfReachIsWatched == Spec => []Supervised
<1>1. Types /\ NgapInv /\ NasInv /\ InHand /\ OrderInv /\ [Next]_vars
        => Types' /\ NgapInv' /\ NasInv' /\ InHand' /\ OrderInv'
  <2>1. OrderInv /\ Types /\ NgapInv /\ NasInv /\ InHand /\ [Next]_vars => OrderInv'
    BY OrderStep, SettlesStep, EndingsStep, WatchingStep DEF OrderInv
  <2> QED
    BY <2>1, TypesStep, NgapStep, NasStep, InHandStep
<1>2. OrderInv => Supervised
  BY DEF OrderInv, Watching, Watched, Supervised, In
<1> QED
  BY <1>1, <1>2, InitTypes, InitNgap, InitNas, InitHand, InitOrder, PTL DEF Spec
================================================================================
