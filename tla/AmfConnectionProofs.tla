-------------------------- MODULE AmfConnectionProofs --------------------------
(***************************************************************************)
(* What the three tasks of the AMF keep for registered UEs, for any number *)
(* of UEs, RAN UE NGAP IDs and connections.                                *)
(*                                                                         *)
(* The argument follows a connection through the tasks: its Initial UE     *)
(* Message is in one queue at a time, and it takes the ids of an older     *)
(* connection only when the older one has ended.                           *)
(***************************************************************************)
EXTENDS AmfConnection, TLAPS, SequenceTheorems, FiniteSetTheorems

\* The messages of a queue, and how many of them open a connection.
In(q)    == {q[i] : i \in DOMAIN q}
Inits(q) == Cardinality({i \in DOMAIN q : q[i].type = "initial"})

\* A message with which a connection that is not set up yet is on its way.
Staged(m) == m.type \in {"initial", "setup"}

\* No connection under the RAN id is on its way through the queue; no two in a
\* queue, or in two queues, are under one RAN id.
Fresh(q, r)    == \A m \in In(q) : Staged(m) => m.ran # r
Apart(q)       == \A i, j \in DOMAIN q : Staged(q[i]) /\ Staged(q[j]) /\ q[i].ran = q[j].ran => i = j
Disjoint(p, q) == \A m \in In(p) : Staged(m) => Fresh(q, m.ran)

\* A connection that takes the RAN id of one whose end is still in the queue is
\* behind it in the queue.
Ended(q) ==
  \A k, j \in DOMAIN q :
    q[k].type = "complete" /\ Staged(q[j]) /\ q[j].ran = q[k].ran => q[j].type = "initial" /\ k < j

--------------------------------------------------------------------------------
(* Queues: a message is put at the end, the head is taken.                  *)
LEMMA Put ==
  ASSUME NEW S, NEW q \in Seq(S), NEW m \in S
  PROVE  /\ Append(q, m) \in Seq(S) /\ Len(Append(q, m)) = Len(q) + 1
         /\ In(Append(q, m)) = In(q) \cup {m}
<1>1. /\ Append(q, m) \in Seq(S) /\ Len(Append(q, m)) = Len(q) + 1
      /\ DOMAIN Append(q, m) = 1 .. Len(q) + 1 /\ DOMAIN q = 1 .. Len(q) /\ Len(q) \in Nat
      /\ \A i \in 1 .. Len(q) : Append(q, m)[i] = q[i]
      /\ Append(q, m)[Len(q) + 1] = m
  BY AppendProperties, LenProperties
<1>2. In(Append(q, m)) = In(q) \cup {m}
  <2>1. ASSUME NEW x \in In(Append(q, m)) PROVE x \in In(q) \cup {m}
    <3>1. PICK i \in 1 .. Len(q) + 1 : x = Append(q, m)[i]
      BY <1>1, <2>1 DEF In
    <3> QED
      BY <1>1, <3>1 DEF In
  <2>2. ASSUME NEW x \in In(q) \cup {m} PROVE x \in In(Append(q, m))
    <3>1. CASE x = m
      <4>1. Len(q) + 1 \in DOMAIN Append(q, m)
        BY <1>1
      <4> QED
        BY <1>1, <3>1, <4>1 DEF In
    <3>2. CASE x \in In(q)
      <4>1. PICK i \in 1 .. Len(q) : x = q[i]
        BY <1>1, <3>2 DEF In
      <4>2. i \in DOMAIN Append(q, m)
        BY <1>1
      <4> QED
        BY <1>1, <4>1, <4>2 DEF In
    <3> QED
      BY <2>2, <3>1, <3>2
  <2> QED
    BY <2>1, <2>2
<1> QED
  BY <1>1, <1>2

LEMMA Took ==
  ASSUME NEW S, NEW q \in Seq(S), q # <<>>
  PROVE  /\ Tail(q) \in Seq(S) /\ Len(Tail(q)) = Len(q) - 1 /\ Len(q) > 0
         /\ Head(q) \in S /\ Head(q) \in In(q)
         /\ In(Tail(q)) \subseteq In(q) /\ In(q) = {Head(q)} \cup In(Tail(q))
<1>1. /\ Tail(q) \in Seq(S) /\ Len(Tail(q)) = Len(q) - 1 /\ Len(q) \in Nat /\ Len(q) > 0
      /\ DOMAIN Tail(q) = 1 .. Len(q) - 1 /\ DOMAIN q = 1 .. Len(q)
      /\ \A i \in 1 .. Len(q) - 1 : Tail(q)[i] = q[i + 1]
      /\ Head(q) = q[1] /\ Head(q) \in S
  BY HeadTailProperties, LenProperties, EmptySeq
<1>2. Head(q) \in In(q)
  BY <1>1 DEF In
<1>3. ASSUME NEW x \in In(Tail(q)) PROVE x \in In(q)
  <2>1. PICK i \in 1 .. Len(q) - 1 : x = q[i + 1]
    BY <1>1, <1>3 DEF In
  <2>2. i + 1 \in DOMAIN q
    BY <1>1
  <2> QED
    BY <2>1, <2>2 DEF In
<1>4. ASSUME NEW x \in In(q) PROVE x = Head(q) \/ x \in In(Tail(q))
  <2>1. PICK i \in 1 .. Len(q) : x = q[i]
    BY <1>1, <1>4 DEF In
  <2>2. CASE i = 1
    BY <1>1, <2>1, <2>2
  <2>3. CASE i # 1
    <3>1. i - 1 \in DOMAIN Tail(q) /\ Tail(q)[i - 1] = q[i]
      BY <1>1, <2>3
    <3> QED
      BY <2>1, <3>1 DEF In
  <2> QED
    BY <2>2, <2>3
<1> QED
  BY <1>1, <1>2, <1>3, <1>4

\* What the messages of a queue say of each other stays true when one is put ...
LEMMA PutApart ==
  ASSUME NEW S, NEW q \in Seq(S), NEW m \in S
  PROVE  /\ Apart(q) /\ (Staged(m) => Fresh(q, m.ran)) => Apart(Append(q, m))
         /\ /\ Ended(q)
            /\ m.type = "complete" => Fresh(q, m.ran)
            /\ m.type = "setup" => \A x \in In(q) : x.type = "complete" => x.ran # m.ran
            => Ended(Append(q, m))
<1>1. /\ DOMAIN Append(q, m) = 1 .. Len(q) + 1 /\ DOMAIN q = 1 .. Len(q) /\ Len(q) \in Nat
      /\ \A i \in 1 .. Len(q) : Append(q, m)[i] = q[i]
      /\ Append(q, m)[Len(q) + 1] = m
  BY AppendProperties, LenProperties
<1>2. \A i \in 1 .. Len(q) : q[i] \in In(q)
  BY <1>1 DEF In
<1>3. \A i \in 1 .. Len(q) + 1 : i \in 1 .. Len(q) \/ i = Len(q) + 1
  BY <1>1
<1>4. ASSUME Apart(q), Staged(m) => Fresh(q, m.ran)
      PROVE  Apart(Append(q, m))
  BY <1>1, <1>2, <1>3, <1>4 DEF Apart, Fresh
<1>5. ASSUME Ended(q), m.type = "complete" => Fresh(q, m.ran),
             m.type = "setup" => \A x \in In(q) : x.type = "complete" => x.ran # m.ran
      PROVE  Ended(Append(q, m))
  BY <1>1, <1>2, <1>3, <1>5 DEF Ended, Fresh, Staged
<1> QED
  BY <1>4, <1>5

\* ... and when the head is taken.
LEMMA TookApart ==
  ASSUME NEW S, NEW q \in Seq(S), q # <<>>
  PROVE  /\ Apart(q) => /\ Apart(Tail(q))
                        /\ Staged(Head(q)) => Fresh(Tail(q), Head(q).ran)
         /\ Ended(q) =>
              /\ Ended(Tail(q))
              /\ Staged(Head(q)) =>
                   \A x \in In(q) : x.type = "complete" => x.ran # Head(q).ran
              /\ Head(q).type = "complete" =>
                   \A x \in In(q) : x.type = "setup" => x.ran # Head(q).ran
<1>1. /\ Len(q) \in Nat /\ Len(q) > 0
      /\ DOMAIN Tail(q) = 1 .. Len(q) - 1 /\ DOMAIN q = 1 .. Len(q)
      /\ \A i \in 1 .. Len(q) - 1 : i + 1 \in 1 .. Len(q) /\ Tail(q)[i] = q[i + 1]
      /\ Head(q) = q[1] /\ 1 \in DOMAIN q
  BY HeadTailProperties, LenProperties, EmptySeq
<1>2. ASSUME Apart(q) PROVE Apart(Tail(q))
  BY <1>1, <1>2 DEF Apart
<1>3. ASSUME Apart(q), Staged(Head(q)), NEW x \in In(Tail(q)), Staged(x) PROVE x.ran # Head(q).ran
  <2>1. PICK i \in 1 .. Len(q) - 1 : x = q[i + 1] /\ i + 1 \in DOMAIN q /\ i + 1 # 1
    BY <1>1, <1>3 DEF In
  <2> QED
    BY <1>1, <1>3, <2>1 DEF Apart
<1>4. ASSUME Ended(q) PROVE Ended(Tail(q))
  <2> SUFFICES ASSUME NEW k \in 1 .. Len(q) - 1, NEW j \in 1 .. Len(q) - 1,
                      q[k + 1].type = "complete", Staged(q[j + 1]), q[j + 1].ran = q[k + 1].ran
               PROVE  q[j + 1].type = "initial" /\ k < j
    BY <1>1 DEF Ended
  <2>1. k + 1 \in DOMAIN q /\ j + 1 \in DOMAIN q
    BY <1>1
  <2>2. q[j + 1].type = "initial" /\ k + 1 < j + 1
    BY <1>4, <2>1 DEF Ended
  <2> QED
    BY <1>1, <2>2
<1>5. ASSUME Ended(q), NEW x \in In(q)
      PROVE  /\ Staged(Head(q)) /\ x.type = "complete" => x.ran # Head(q).ran
             /\ Head(q).type = "complete" /\ x.type = "setup" => x.ran # Head(q).ran
  <2>1. PICK i \in DOMAIN q : x = q[i]
    BY <1>5 DEF In
  <2>2. i \in Nat /\ i > 0
    BY <1>1
  <2>3. ~(i < 1)
    BY <2>2
  <2> QED
    BY <1>1, <1>5, <2>1, <2>3 DEF Ended, Staged
<1> QED
  BY <1>2, <1>3, <1>4, <1>5 DEF Fresh

\* The connections that are being opened.
LEMMA InitsNat ==
  ASSUME NEW S, NEW q \in Seq(S), NEW P, P = {i \in DOMAIN q : q[i].type = "initial"}
  PROVE  IsFiniteSet(P) /\ Cardinality(P) \in Nat
<1>1. DOMAIN q = 1 .. Len(q) /\ Len(q) \in Nat
  BY LenProperties
<1>2. IsFiniteSet(1 .. Len(q)) /\ P \in SUBSET (1 .. Len(q))
  BY <1>1, FS_Interval
<1>3. IsFiniteSet(P)
  BY <1>2, FS_Subset
<1> QED
  BY <1>3, FS_CardinalityType

LEMMA PutInits ==
  ASSUME NEW S, NEW q \in Seq(S), NEW m \in S
  PROVE  Inits(Append(q, m)) = Inits(q) + (IF m.type = "initial" THEN 1 ELSE 0)
<1> DEFINE P == {i \in DOMAIN q : q[i].type = "initial"}
           n == Len(q) + 1
           Q == {i \in DOMAIN Append(q, m) : Append(q, m)[i].type = "initial"}
<1>1. /\ DOMAIN Append(q, m) = 1 .. Len(q) + 1 /\ DOMAIN q = 1 .. Len(q) /\ Len(q) \in Nat
      /\ \A i \in 1 .. Len(q) : Append(q, m)[i] = q[i]
      /\ Append(q, m)[Len(q) + 1] = m
  BY AppendProperties, LenProperties
<1>2. IsFiniteSet(P) /\ Cardinality(P) \in Nat
  BY InitsNat
<1>3. n \notin P /\ Inits(q) = Cardinality(P) /\ Inits(Append(q, m)) = Cardinality(Q)
  BY <1>1 DEF Inits
<1>4. CASE m.type = "initial"
  <2>1. Q = P \cup {n}
    BY <1>1, <1>4
  <2>2. Cardinality(P \cup {n}) = Cardinality(P) + 1
    BY <1>2, <1>3, FS_AddElement
  <2> HIDE DEF P, Q, n
  <2> QED
    BY <1>3, <1>4, <2>1, <2>2
<1>5. CASE m.type # "initial"
  <2>1. Q = P
    BY <1>1, <1>5
  <2> HIDE DEF P, Q
  <2> QED
    BY <1>2, <1>3, <1>5, <2>1
<1> QED
  BY <1>4, <1>5

LEMMA TookInits ==
  ASSUME NEW S, NEW q \in Seq(S), q # <<>>
  PROVE  /\ Inits(q) \in Nat
         /\ Inits(Tail(q)) = Inits(q) - (IF Head(q).type = "initial" THEN 1 ELSE 0)
<1> DEFINE P == {i \in DOMAIN q : q[i].type = "initial"}
           R == {i \in DOMAIN Tail(q) : Tail(q)[i].type = "initial"}
           f == [i \in R |-> i + 1]
<1>1. /\ Tail(q) \in Seq(S) /\ Len(q) \in Nat /\ Len(q) > 0
      /\ DOMAIN Tail(q) = 1 .. Len(q) - 1 /\ DOMAIN q = 1 .. Len(q)
      /\ \A i \in 1 .. Len(q) - 1 : i + 1 \in 1 .. Len(q) /\ Tail(q)[i] = q[i + 1]
      /\ Head(q) = q[1] /\ 1 \in DOMAIN q
  BY HeadTailProperties, LenProperties, EmptySeq
<1>2. IsFiniteSet(P) /\ Cardinality(P) \in Nat
  BY InitsNat
<1>3. IsFiniteSet(R) /\ Cardinality(R) \in Nat
  BY <1>1, InitsNat
<1>4. f \in Bijection(R, P \ {1})
  <2>1. \A i \in R : f[i] \in P \ {1}
    BY <1>1
  <2>2. f \in [R -> P \ {1}]
    BY <2>1
  <2>3. \A i, j \in R : f[i] = f[j] => i = j
    BY <1>1
  <2>4. ASSUME NEW k \in P \ {1} PROVE \E i \in R : f[i] = k
    <3>1. k - 1 \in R /\ f[k - 1] = k
      BY <1>1
    <3> QED
      BY <3>1
  <2> HIDE DEF P, R, f
  <2> QED
    BY <2>2, <2>3, <2>4 DEF Bijection, Injection, IsInjective, Surjection
<1>5. Cardinality(P \ {1}) = Cardinality(R)
  BY <1>3, <1>4, FS_Bijection DEF ExistsBijection
<1>6. Cardinality(P \ {1}) = IF 1 \in P THEN Cardinality(P) - 1 ELSE Cardinality(P)
  BY <1>2, FS_RemoveElement
<1>7. 1 \in P <=> Head(q).type = "initial"
  BY <1>1
<1>8. Inits(q) = Cardinality(P) /\ Inits(Tail(q)) = Cardinality(R)
  BY DEF Inits
<1> HIDE DEF P, R
<1> QED
  BY <1>2, <1>3, <1>5, <1>6, <1>7, <1>8

--------------------------------------------------------------------------------
(* Types, by queue.                                                         *)
IsInitial(m) == m.type = "initial" /\ m.ran \in RanIds /\ m.ue \in Ues /\ m.kind \in Kinds

N2Msg(m) == /\ m.type \in {"initial", "request", "uplink", "complete", "command", "setup"}
            /\ m.ran \in RanIds
            /\ IF m.type = "initial" THEN IsInitial(m) ELSE m.amf \in DOMAIN uc
N1Msg(m) == /\ m.type \in {"initial", "uplink", "mobile", "implicit"}
            /\ m.amf \in DOMAIN uc
            /\ m.type = "initial" => IsInitial(m)
            /\ m.type = "uplink" => m.ran \in RanIds

Uncs == [ran : RanIds, amf : 0 .. MaxConns, tmsi : Ues]
Ucs  == [ran : RanIds, sessions : BOOLEAN]

\* A release that the N2 task is in the middle of.
N2Release == [amf : DOMAIN uc, ran : RanIds, ue : Ues \cup {NoUe}]

RanTypes ==
  /\ gnb \in [RanIds -> [ue : Ues \cup {NoUe}, amf : 0 .. Len(uc), asked : BOOLEAN]]
  /\ link \in [Ues -> RanIds \cup {0}] /\ gone \subseteq Ues
QueueTypes ==
  /\ n2q \in Seq(Msgs) /\ \A m \in In(n2q) : N2Msg(m)
  /\ appq \in Seq(Msgs) /\ \A m \in In(appq) : IsInitial(m)
  /\ n1q \in Seq(Msgs) /\ \A m \in In(n1q) : N1Msg(m)
  /\ n2 = NoWait \/ n2 \in N2Release
NgapTypes ==
  /\ uc \in Seq(Ucs) /\ uncs \in Seq(Uncs)
  /\ Len(uncs) <= Len(uc) + Len(appq) /\ Len(uc) + Len(appq) + Inits(n2q) <= MaxConns
  /\ ran2unc \in [RanIds -> 0 .. Len(uncs)] /\ amf2unc \in [Conns -> 0 .. Len(uncs)]
NasTypes ==
  /\ nc \in [Ues -> [amf : DOMAIN uc, ran : RanIds, cm : {"CM_IDLE", "CM_CONNECTED"}]]
  /\ amf2nc \in [Conns -> Ues \cup {NoUe}]
  /\ supi2amf \in [Ues -> DOMAIN uc] /\ supi2uc \in [Ues -> DOMAIN uc]
  /\ timers \subseteq [kind : {"mobile", "implicit"}, amf : DOMAIN uc]

Types == RanTypes /\ QueueTypes /\ NgapTypes /\ NasTypes

--------------------------------------------------------------------------------
(* A connection under RAN id r, of UE u, that the N2 task knows, and one    *)
(* that has the AMF UE NGAP ID c.                                           *)
Known(r, u) == ran2unc[r] # 0 /\ uncs[ran2unc[r]].ran = r /\ uncs[ran2unc[r]].tmsi = u

Bound(r, u, c) ==
  /\ c \in DOMAIN uc /\ uc[c].ran = r
  /\ ran2unc[r] # 0 /\ amf2unc[c] = ran2unc[r]
  /\ uncs[ran2unc[r]] = [ran |-> r, amf |-> c, tmsi |-> u]

Waits(r, u) == gnb[r].ue = u /\ gnb[r].amf = 0

OneStage ==
  /\ Apart(n2q) /\ Apart(appq) /\ Apart(n1q)
  /\ Disjoint(n2q, appq) /\ Disjoint(n2q, n1q) /\ Disjoint(appq, n1q)

Stages ==
  /\ \A m \in In(n2q) : m.type = "initial" => Waits(m.ran, m.ue)
  /\ \A m \in In(appq) : Waits(m.ran, m.ue) /\ Known(m.ran, m.ue)
  /\ \A m \in In(n1q) : m.type = "initial" => Waits(m.ran, m.ue) /\ Bound(m.ran, m.ue, m.amf)
  /\ \A m \in In(n2q) : m.type = "setup" =>
       gnb[m.ran].ue \in Ues /\ gnb[m.ran].amf = 0 /\ Bound(m.ran, gnb[m.ran].ue, m.amf)
  /\ \A r \in RanIds : gnb[r].amf # 0 => gnb[r].ue \in Ues /\ Bound(r, gnb[r].ue, gnb[r].amf)

\* The end of connection c under RAN id r is with the N2 task.
Over(c, r) == uc[c].ran = r /\ gnb[r].amf = 0 /\ Fresh(appq, r) /\ Fresh(n1q, r)

Ends ==
  /\ Ended(n2q)
  /\ \A m \in In(n2q) : m.type = "complete" => Over(m.amf, m.ran)
  /\ n2 # NoWait => /\ Over(n2.amf, n2.ran)
                    /\ \A m \in In(n2q) : m.type = "setup" => m.ran # n2.ran

RanNames == \A r \in RanIds : ran2unc[r] # 0 => uncs[ran2unc[r]].ran = r

NgapInv == OneStage /\ Stages /\ Ends /\ RanNames

--------------------------------------------------------------------------------
(* The types are kept by every action.                                      *)
LEMMA Sizes ==
  ASSUME Types
  PROVE  /\ Len(uc) \in Nat /\ DOMAIN uc = 1 .. Len(uc) /\ MaxConns \in Nat
         /\ Len(appq) \in Nat /\ Inits(n2q) \in Nat /\ Len(uncs) \in Nat
         /\ DOMAIN uncs = 1 .. Len(uncs) /\ DOMAIN uc \subseteq Conns
         /\ DOMAIN uc \subseteq 0 .. MaxConns
         /\ Len(uc) + Len(appq) + Inits(n2q) <= MaxConns
         /\ NoUe \notin Ues /\ 0 \notin RanIds
<1>1. Len(uc) \in Nat /\ DOMAIN uc = 1 .. Len(uc) /\ Len(appq) \in Nat
      /\ Len(uncs) \in Nat /\ DOMAIN uncs = 1 .. Len(uncs)
  BY LenProperties DEF Types, QueueTypes, NgapTypes
<1>2. Inits(n2q) \in Nat
  BY InitsNat DEF Inits, Types, QueueTypes
<1>3. MaxConns \in Nat /\ NoUe \notin Ues /\ 0 \notin RanIds
  BY InitRanAssumption, NoUeAssumption
<1>4. Len(uc) + Len(appq) + Inits(n2q) <= MaxConns
  BY DEF Types, NgapTypes
<1>5. Len(uc) <= MaxConns
  BY <1>1, <1>2, <1>3, <1>4
<1> QED
  BY <1>1, <1>2, <1>3, <1>4, <1>5 DEF Conns

\* The messages that are sent.
LEMMA MsgType ==
  ASSUME NEW type \in {"request", "uplink", "complete", "command", "setup", "mobile", "implicit"},
         NEW c \in 0 .. MaxConns, NEW r \in RanIds \cup {0}
  PROVE  /\ Msg(type, c, r) \in Msgs /\ ~IsInitial(Msg(type, c, r))
         /\ Msg(type, c, r).type = type /\ Msg(type, c, r).amf = c /\ Msg(type, c, r).ran = r
  BY DEF Msg, Msgs, MsgTypes, IsInitial

LEMMA InitialType ==
  ASSUME NEW u \in Ues, NEW r \in RanIds, NEW c \in 0 .. MaxConns, NEW k \in Kinds
  PROVE  /\ Initial(u, r, c, k) \in Msgs /\ IsInitial(Initial(u, r, c, k))
         /\ Initial(u, r, c, k).type = "initial" /\ Initial(u, r, c, k).ran = r
         /\ Initial(u, r, c, k).ue = u /\ Initial(u, r, c, k).kind = k /\ Initial(u, r, c, k).amf = c
  BY DEF Initial, Msgs, MsgTypes, IsInitial

\* What the types say of a message that is taken.
LEMMA HeadTypes ==
  ASSUME Types
  PROVE  /\ n2q # <<>> => /\ Head(n2q) \in In(n2q) /\ Head(n2q) \in Msgs /\ N2Msg(Head(n2q))
                          /\ Tail(n2q) \in Seq(Msgs) /\ In(Tail(n2q)) \subseteq In(n2q)
                          /\ Inits(Tail(n2q)) = Inits(n2q) - (IF Head(n2q).type = "initial" THEN 1 ELSE 0)
         /\ appq # <<>> => /\ Head(appq) \in In(appq) /\ Head(appq) \in Msgs /\ IsInitial(Head(appq))
                           /\ Tail(appq) \in Seq(Msgs) /\ In(Tail(appq)) \subseteq In(appq)
                           /\ Len(Tail(appq)) = Len(appq) - 1
         /\ n1q # <<>> => /\ Head(n1q) \in In(n1q) /\ Head(n1q) \in Msgs /\ N1Msg(Head(n1q))
                          /\ Tail(n1q) \in Seq(Msgs) /\ In(Tail(n1q)) \subseteq In(n1q)
<1>1. n2q \in Seq(Msgs) /\ appq \in Seq(Msgs) /\ n1q \in Seq(Msgs)
      /\ (\A m \in In(n2q) : N2Msg(m)) /\ (\A m \in In(appq) : IsInitial(m))
      /\ (\A m \in In(n1q) : N1Msg(m))
  BY DEF Types, QueueTypes
<1>2. n2q # <<>> =>
        /\ Tail(n2q) \in Seq(Msgs) /\ Head(n2q) \in Msgs
        /\ Head(n2q) \in In(n2q) /\ In(Tail(n2q)) \subseteq In(n2q)
        /\ Inits(Tail(n2q)) = Inits(n2q) - (IF Head(n2q).type = "initial" THEN 1 ELSE 0)
  BY <1>1, Took, TookInits
<1>3. appq # <<>> =>
        /\ Tail(appq) \in Seq(Msgs) /\ Head(appq) \in Msgs /\ Len(Tail(appq)) = Len(appq) - 1
        /\ Head(appq) \in In(appq) /\ In(Tail(appq)) \subseteq In(appq)
  BY <1>1, Took
<1>4. n1q # <<>> =>
        /\ Tail(n1q) \in Seq(Msgs) /\ Head(n1q) \in Msgs
        /\ Head(n1q) \in In(n1q) /\ In(Tail(n1q)) \subseteq In(n1q)
  BY <1>1, Took
<1> QED
  BY <1>1, <1>2, <1>3, <1>4

\* The contexts of the connections stay, whatever becomes of the sessions.
Lasts == uc' \in Seq(Ucs) /\ Len(uc') = Len(uc)

LEMMA LastsTypes ==
  ASSUME Types, Lasts
  PROVE  /\ DOMAIN uc' = DOMAIN uc
         /\ \A x : (N2Msg(x)' <=> N2Msg(x)) /\ (N1Msg(x)' <=> N1Msg(x))
<1>1. DOMAIN uc' = DOMAIN uc
  BY Sizes, LenProperties DEF Lasts
<1> QED
  BY <1>1 DEF N2Msg, N1Msg, IsInitial

\* The queues of the N2 and the N1 task change by plain messages.
LEMMA QueuesKeepTypes ==
  ASSUME Types, Lasts, UNCHANGED <<appq, ngap>>,
         n2q' \in Seq(Msgs), \A m \in In(n2q') : m \in In(n2q) \/ N2Msg(m),
         Inits(n2q') <= Inits(n2q), Inits(n2q') \in Nat,
         n1q' \in Seq(Msgs), \A m \in In(n1q') : m \in In(n1q) \/ N1Msg(m),
         n2' = n2 \/ n2' = NoWait \/ n2' \in N2Release
  PROVE  QueueTypes' /\ NgapTypes'
<1>1. DOMAIN uc' = DOMAIN uc /\ (\A x : N2Msg(x)' <=> N2Msg(x)) /\ \A x : N1Msg(x)' <=> N1Msg(x)
  BY LastsTypes
<1>2. QueueTypes'
  BY <1>1 DEF Types, QueueTypes, N2Release
<1>3. Len(uc') + Len(appq') + Inits(n2q') <= MaxConns
  BY Sizes DEF Lasts
<1> QED
  BY <1>2, <1>3 DEF Types, NgapTypes, Lasts, ngap

LEMMA AttachTypes ==
  ASSUME Types, NEW u \in Ues, NEW r \in RanIds, NEW k \in Kinds, Attach(u, r, k)
  PROVE  Types'
<1> DEFINE m == Initial(u, r, 0, k)
<1>1. n2q \in Seq(Msgs) /\ m \in Msgs /\ IsInitial(m) /\ m.type = "initial"
  BY InitialType, Sizes DEF Types, QueueTypes
<1>2. n2q' = Append(n2q, m)
  BY DEF Attach
<1> HIDE DEF m
<1>3. n2q' \in Seq(Msgs) /\ In(n2q') = In(n2q) \cup {m} /\ Inits(n2q') = Inits(n2q) + 1
  BY <1>1, <1>2, Put, PutInits
<1>4. N2Msg(m) /\ \A x : (N2Msg(x)' <=> N2Msg(x)) /\ (N1Msg(x)' <=> N1Msg(x))
  BY <1>1 DEF Attach, N2Msg, N1Msg, IsInitial
<1>5. QueueTypes'
  BY <1>3, <1>4 DEF Attach, Types, QueueTypes, N2Release
<1>6. Opened = Len(uc) + Len(appq) + Inits(n2q)
  BY DEF Opened, Inits
<1>7. Len(uc') + Len(appq') + Inits(n2q') <= MaxConns
  BY <1>3, <1>6, Sizes DEF Attach
<1>8. NgapTypes'
  BY <1>7 DEF Attach, Types, NgapTypes, ngap
<1>9. RanTypes'
  <2>1. [ue |-> u, amf |-> 0, asked |-> FALSE] \in [ue : Ues \cup {NoUe}, amf : 0 .. Len(uc), asked : BOOLEAN]
    BY Sizes
  <2> QED
    BY <2>1 DEF Attach, Types, RanTypes
<1>10. NasTypes'
  BY DEF Attach, Types, NasTypes, nas
<1> QED
  BY <1>5, <1>8, <1>9, <1>10 DEF Types

\* A plain message for the N2 task.
LEMMA PlainPut ==
  ASSUME Types, NEW m \in Msgs, N2Msg(m), m.type # "initial", NEW q, n2q' = Append(q, m),
         q = n2q \/ (n2q # <<>> /\ q = Tail(n2q))
  PROVE  /\ n2q' \in Seq(Msgs) /\ \A x \in In(n2q') : x \in In(n2q) \/ N2Msg(x)
         /\ In(n2q') = In(q) \cup {m} /\ Inits(n2q') <= Inits(n2q) /\ Inits(n2q') \in Nat
<1>1. n2q \in Seq(Msgs)
  BY DEF Types, QueueTypes
<1>2. q \in Seq(Msgs) /\ In(q) \subseteq In(n2q) /\ Inits(q) <= Inits(n2q)
  <2>1. CASE q = n2q
    BY <1>1, <2>1, Sizes
  <2>2. CASE n2q # <<>> /\ q = Tail(n2q)
    BY <2>2, HeadTypes, Sizes
  <2> QED
    BY <2>1, <2>2
<1>3. Inits(q) \in Nat
  BY <1>2, InitsNat DEF Inits
<1>4. n2q' \in Seq(Msgs) /\ In(n2q') = In(q) \cup {m}
  BY <1>2, Put
<1>5. Inits(n2q') = Inits(q)
  BY <1>2, <1>3, PutInits
<1> QED
  BY <1>2, <1>3, <1>4, <1>5

LEMMA TailTypes ==
  ASSUME Types, n2q # <<>>, n2q' = Tail(n2q)
  PROVE  /\ n2q' \in Seq(Msgs) /\ \A x \in In(n2q') : x \in In(n2q)
         /\ Inits(n2q') <= Inits(n2q) /\ Inits(n2q') \in Nat
<1>1. n2q' \in Seq(Msgs) /\ In(n2q') \subseteq In(n2q) /\ Inits(n2q') <= Inits(n2q)
  BY HeadTypes, Sizes
<1> QED
  BY <1>1, InitsNat DEF Inits

LEMMA N1Put ==
  ASSUME Types, NEW m \in Msgs, N1Msg(m), n1q' = Append(n1q, m)
  PROVE  /\ n1q' \in Seq(Msgs) /\ \A x \in In(n1q') : x \in In(n1q) \/ N1Msg(x)
         /\ In(n1q') = In(n1q) \cup {m}
<1>1. n1q \in Seq(Msgs)
  BY DEF Types, QueueTypes
<1> QED
  BY <1>1, Put

LEMMA SameQueues ==
  ASSUME Types
  PROVE  /\ n2q \in Seq(Msgs) /\ appq \in Seq(Msgs) /\ n1q \in Seq(Msgs)
         /\ Inits(n2q) \in Nat /\ Inits(n2q) <= Inits(n2q)
         /\ uc \in Seq(Ucs) /\ (uc' = uc => Lasts)
  BY Sizes DEF Types, QueueTypes, NgapTypes, Lasts

LEMMA InactiveTypes ==
  ASSUME Types, NEW r \in RanIds, Inactive(r)
  PROVE  Types'
<1> DEFINE m == Msg("request", gnb[r].amf, r)
<1>1. gnb[r].amf \in DOMAIN uc
  BY Sizes DEF Inactive, Types, RanTypes
<1>2. m \in Msgs /\ m.type = "request" /\ m.amf \in DOMAIN uc /\ m.ran \in RanIds
  BY <1>1, MsgType, Sizes
<1>3. n2q' = Append(n2q, m)
  BY DEF Inactive
<1> HIDE DEF m
<1>4. N2Msg(m)
  BY <1>2 DEF N2Msg
<1>5. QueueTypes' /\ NgapTypes'
  BY <1>2, <1>3, <1>4, PlainPut, SameQueues, QueuesKeepTypes DEF Inactive
<1>6. RanTypes'
  BY DEF Inactive, Types, RanTypes
<1>7. NasTypes'
  BY DEF Inactive, Types, NasTypes, nas
<1> QED
  BY <1>5, <1>6, <1>7 DEF Types

LEMMA LeaveTypes ==
  ASSUME Types, NEW u \in Ues, Leave(u)
  PROVE  Types'
<1> DEFINE m == Msg("uplink", gnb[link[u]].amf, link[u])
<1>1. link[u] \in RanIds /\ gnb[link[u]].amf \in DOMAIN uc
  BY Sizes DEF Leave, Types, RanTypes
<1>2. m \in Msgs /\ m.type = "uplink" /\ m.amf \in DOMAIN uc /\ m.ran \in RanIds
  BY <1>1, MsgType, Sizes
<1>3. n2q' = Append(n2q, m)
  BY DEF Leave
<1> HIDE DEF m
<1>4. N2Msg(m)
  BY <1>2 DEF N2Msg
<1>5. QueueTypes' /\ NgapTypes'
  BY <1>2, <1>3, <1>4, PlainPut, SameQueues, QueuesKeepTypes DEF Leave
<1>6. RanTypes'
  BY DEF Leave, Types, RanTypes
<1>7. NasTypes'
  BY DEF Leave, Types, NasTypes, nas
<1> QED
  BY <1>5, <1>6, <1>7 DEF Types

LEMMA FireTypes ==
  ASSUME Types, NEW t \in timers, Fire(t)
  PROVE  Types'
<1> DEFINE m == Msg(t.kind, t.amf, 0)
<1>1. t.kind \in {"mobile", "implicit"} /\ t.amf \in DOMAIN uc
  BY DEF Types, NasTypes
<1>2. m \in Msgs /\ m.type = t.kind /\ m.amf \in DOMAIN uc
  BY <1>1, MsgType, Sizes
<1>3. n1q' = Append(n1q, m)
  BY DEF Fire
<1> HIDE DEF m
<1>4. N1Msg(m)
  BY <1>1, <1>2 DEF N1Msg
<1>5. QueueTypes' /\ NgapTypes'
  BY <1>2, <1>3, <1>4, N1Put, SameQueues, QueuesKeepTypes DEF Fire
<1>6. RanTypes' /\ NasTypes'
  BY DEF Fire, Types, RanTypes, NasTypes, ran, nas
<1> QED
  BY <1>5, <1>6 DEF Types

LEMMA CommandTypes ==
  ASSUME Types, n2q # <<>>, NEW c \in DOMAIN uc, NEW r \in RanIds, Command(Tail(n2q), c, r),
         UNCHANGED <<appq, n1q, n2, ngap, uc, supi2uc, nas, timers, released>>
  PROVE  Types'
<1> DEFINE m == Msg("complete", c, r)
<1>1. m \in Msgs /\ m.type = "complete" /\ m.amf \in DOMAIN uc /\ m.ran \in RanIds
  BY MsgType, Sizes
<1>2. n2q' = Append(Tail(n2q), m) \/ n2q' = Tail(n2q)
  BY DEF Command
<1> HIDE DEF m
<1>3. N2Msg(m)
  BY <1>1 DEF N2Msg
<1>4. n2q' \in Seq(Msgs) /\ (\A x \in In(n2q') : x \in In(n2q) \/ N2Msg(x))
      /\ Inits(n2q') <= Inits(n2q) /\ Inits(n2q') \in Nat
  BY <1>1, <1>2, <1>3, PlainPut, TailTypes
<1>5. QueueTypes' /\ NgapTypes'
  BY <1>4, SameQueues, QueuesKeepTypes
<1>6. RanTypes'
  <2>1. Free \in [ue : Ues \cup {NoUe}, amf : 0 .. Len(uc), asked : BOOLEAN]
    BY Sizes DEF Free
  <2> QED
    BY <2>1 DEF Command, Types, RanTypes, ran
<1>7. NasTypes'
  BY DEF Types, NasTypes, nas
<1> QED
  BY <1>5, <1>6, <1>7 DEF Types

LEMMA N2PlainTypes ==
  ASSUME Types, ReceiveUplink \/ ReceiveReleaseRequest \/ SendReleaseCommand
  PROVE  Types'
<1>1. n2q # <<>> /\ N2Msg(Head(n2q)) /\ Head(n2q) \in Msgs
  BY HeadTypes DEF ReceiveUplink, ReceiveReleaseRequest, SendReleaseCommand, N2Takes
<1>2. CASE ReceiveUplink
  <2>1. N1Msg(Head(n2q)) /\ n2q' = Tail(n2q) /\ (n1q' = Append(n1q, Head(n2q)) \/ n1q' = n1q)
    BY <1>1, <1>2 DEF N2Msg, N1Msg, ReceiveUplink, N2Takes
  <2>2. n1q' \in Seq(Msgs) /\ \A x \in In(n1q') : x \in In(n1q) \/ N1Msg(x)
    BY <1>1, <2>1, N1Put, SameQueues
  <2>3. QueueTypes' /\ NgapTypes'
    BY <1>1, <1>2, <2>1, <2>2, TailTypes, SameQueues, QueuesKeepTypes DEF ReceiveUplink
  <2> QED
    BY <1>2, <2>3 DEF ReceiveUplink, Types, RanTypes, NasTypes, ran, nas
<1>3. CASE ReceiveReleaseRequest
  <2>1. Head(n2q).amf \in DOMAIN uc /\ Head(n2q).ran \in RanIds
    BY <1>1, <1>3 DEF N2Msg, ReceiveReleaseRequest, N2Takes
  <2> QED
    BY <1>1, <1>3, <2>1, CommandTypes DEF ReceiveReleaseRequest
<1>4. CASE SendReleaseCommand
  <2>1. Head(n2q).amf \in DOMAIN uc /\ Head(n2q).ran \in RanIds
    BY <1>1, <1>4 DEF N2Msg, SendReleaseCommand, N2Takes
  <2>2. CASE HasNgapContext(Head(n2q).amf, Head(n2q).ran)
    BY <1>1, <1>4, <2>1, <2>2, CommandTypes DEF SendReleaseCommand
  <2>3. CASE ~HasNgapContext(Head(n2q).amf, Head(n2q).ran)
    <3>1. QueueTypes' /\ NgapTypes'
      BY <1>1, <1>4, <2>3, TailTypes, SameQueues, QueuesKeepTypes DEF SendReleaseCommand
    <3> QED
      BY <1>4, <2>3, <3>1 DEF SendReleaseCommand, Types, RanTypes, NasTypes, ran, nas
  <2> QED
    BY <2>2, <2>3
<1> QED
  BY <1>2, <1>3, <1>4

LEMMA ReceiveInitialTypes ==
  ASSUME Types, ReceiveInitial
  PROVE  Types'
<1> DEFINE m == Head(n2q)
           new == ran2unc[m.ran] = 0
           i == IF new THEN Len(uncs) + 1 ELSE ran2unc[m.ran]
           d == [ran |-> m.ran, amf |-> 0, tmsi |-> m.ue]
<1>1. /\ n2q # <<>> /\ m.type = "initial" /\ n2q' = Tail(n2q) /\ appq' = Append(appq, m)
      /\ uncs' = IF new THEN Append(uncs, d) ELSE [uncs EXCEPT ![i].ran = m.ran, ![i].tmsi = m.ue]
      /\ ran2unc' = [ran2unc EXCEPT ![m.ran] = i]
      /\ UNCHANGED <<ran, n1q, n2, amf2unc, uc, supi2uc, nas, timers, released>>
  BY DEF ReceiveInitial, N2Takes
<1>2. m \in Msgs /\ IsInitial(m) /\ m.ran \in RanIds /\ m.ue \in Ues
  BY <1>1, HeadTypes DEF N2Msg, IsInitial
<1>3. uncs \in Seq(Uncs) /\ Len(uncs) \in Nat /\ ran2unc \in [RanIds -> 0 .. Len(uncs)]
      /\ amf2unc \in [Conns -> 0 .. Len(uncs)]
  BY Sizes DEF Types, NgapTypes
<1>4. appq' \in Seq(Msgs) /\ Len(appq') = Len(appq) + 1 /\ \A x \in In(appq') : x \in In(appq) \/ x = m
  BY <1>1, <1>2, SameQueues, Put
<1>5. n2q' \in Seq(Msgs) /\ (\A x \in In(n2q') : x \in In(n2q)) /\ Inits(n2q') = Inits(n2q) - 1
  BY <1>1, HeadTypes
<1>6. \A x : (N2Msg(x)' <=> N2Msg(x)) /\ (N1Msg(x)' <=> N1Msg(x))
  BY <1>1 DEF N2Msg, N1Msg, IsInitial
<1>7. QueueTypes'
  BY <1>1, <1>2, <1>4, <1>5, <1>6 DEF Types, QueueTypes, N2Release
<1>8. /\ uncs' \in Seq(Uncs) /\ Len(uncs') <= Len(uncs) + 1 /\ Len(uncs) <= Len(uncs')
      /\ i \in 0 .. Len(uncs')
  <2>1. CASE new
    <3>1. d \in Uncs
      BY <1>2, Sizes DEF Uncs
    <3> QED
      BY <1>1, <1>3, <2>1, <3>1, Put
  <2>2. CASE ~new
    <3> DEFINE e == [uncs[i] EXCEPT !.ran = m.ran, !.tmsi = m.ue]
    <3>1. i \in 1 .. Len(uncs) /\ uncs[i] \in Uncs
      BY <1>2, <1>3, <2>2, ElementOfSeq
    <3>2. e \in Uncs
      BY <1>2, <3>1 DEF Uncs
    <3>3. uncs' = [uncs EXCEPT ![i] = e]
      BY <1>1, <2>2
    <3> HIDE DEF e, i
    <3> QED
      BY <1>3, <3>1, <3>2, <3>3, ExceptSeq
  <2> QED
    BY <2>1, <2>2
<1>9. Len(uncs') \in Nat
  BY <1>8, LenProperties
<1> HIDE DEF i, new, m
<1>10. NgapTypes'
  <2>1. Len(uncs') <= Len(uc') + Len(appq') /\ Len(uc') + Len(appq') + Inits(n2q') <= MaxConns
    BY <1>1, <1>3, <1>4, <1>5, <1>8, <1>9, Sizes DEF Types, NgapTypes
  <2>2. 0 .. Len(uncs) \subseteq 0 .. Len(uncs')
    BY <1>3, <1>8, <1>9
  <2>3. ran2unc' \in [RanIds -> 0 .. Len(uncs')]
    BY <1>1, <1>2, <1>3, <1>8, <2>2
  <2>4. amf2unc' \in [Conns -> 0 .. Len(uncs')]
    BY <1>1, <1>3, <2>2
  <2> QED
    BY <1>1, <1>8, <2>1, <2>3, <2>4 DEF Types, NgapTypes
<1> QED
  BY <1>1, <1>7, <1>10 DEF Types, RanTypes, NasTypes, ran, nas

LEMMA SetupContextTypes ==
  ASSUME Types, SetupContext
  PROVE  Types'
<1>1. n2q # <<>> /\ Head(n2q).amf \in DOMAIN uc /\ Head(n2q).ran \in RanIds
  BY HeadTypes DEF SetupContext, N2Takes, N2Msg
<1>2. QueueTypes' /\ NgapTypes'
  BY <1>1, TailTypes, SameQueues, QueuesKeepTypes DEF SetupContext
<1>3. Head(n2q).amf \in 0 .. Len(uc)
  BY <1>1, Sizes
<1>4. RanTypes'
  BY <1>1, <1>3 DEF SetupContext, Types, RanTypes
<1> QED
  BY <1>2, <1>4 DEF SetupContext, Types, NasTypes, nas

\* The NGAP context of a released connection is removed.
LEMMA RemovedTypes ==
  ASSUME Types, NEW c \in DOMAIN uc, NEW r \in RanIds, RemovedUnc(c, r), uc' = uc,
         Len(appq') = Len(appq), Inits(n2q') <= Inits(n2q), Inits(n2q') \in Nat
  PROVE  NgapTypes'
<1>1. Len(uc') + Len(appq') + Inits(n2q') <= MaxConns
  BY Sizes
<1>2. 0 \in 0 .. Len(uncs)
  BY Sizes
<1> QED
  BY <1>1, <1>2 DEF RemovedUnc, Types, NgapTypes

LEMMA CompleteTypes ==
  ASSUME Types, NEW i \in DOMAIN n2q,
         CompleteUnknown(n2q[i]) \/ CompleteOld(n2q[i]) \/ CompleteCurrent(n2q[i])
  PROVE  Types'
<1> DEFINE m == Head(n2q)
<1>1. n2q # <<>> /\ m = n2q[i] /\ m.type = "complete" /\ n2q' = Tail(n2q) /\ n2 = NoWait
  BY DEF CompleteUnknown, CompleteOld, CompleteCurrent, Completes, N2Takes
<1>2. m.amf \in DOMAIN uc /\ m.ran \in RanIds /\ m.amf \in Conns
  BY <1>1, HeadTypes, Sizes DEF N2Msg
<1>3. n2q' \in Seq(Msgs) /\ (\A x \in In(n2q') : x \in In(n2q))
      /\ Inits(n2q') <= Inits(n2q) /\ Inits(n2q') \in Nat
  BY <1>1, TailTypes
<1> HIDE DEF m
<1>4. CASE CompleteUnknown(n2q[i])
  <2>1. QueueTypes' /\ NgapTypes'
    BY <1>3, <1>4, SameQueues, QueuesKeepTypes DEF CompleteUnknown
  <2> QED
    BY <1>4, <2>1 DEF CompleteUnknown, Types, RanTypes, NasTypes, ran, nas
<1>5. CASE CompleteOld(n2q[i])
  <2>1. \A x : (N2Msg(x)' <=> N2Msg(x)) /\ (N1Msg(x)' <=> N1Msg(x))
    BY <1>5 DEF CompleteOld, N2Msg, N1Msg, IsInitial
  <2>2. QueueTypes'
    BY <1>3, <1>5, <2>1 DEF CompleteOld, Types, QueueTypes, N2Release
  <2>3. NgapTypes'
    BY <1>1, <1>2, <1>3, <1>5, RemovedTypes DEF CompleteOld
  <2> QED
    BY <1>5, <2>2, <2>3 DEF CompleteOld, Types, RanTypes, NasTypes, ran, nas
<1>6. CASE CompleteCurrent(n2q[i])
  <2>1. amf2nc[m.amf] \in Ues
    BY <1>1, <1>2, <1>6 DEF CompleteCurrent, HasContexts, Types, NasTypes
  <2>2. n2' \in N2Release
    BY <1>1, <1>2, <1>6, <2>1 DEF CompleteCurrent, N2Release
  <2>3. QueueTypes' /\ NgapTypes'
    BY <1>3, <1>6, <2>2, SameQueues, QueuesKeepTypes DEF CompleteCurrent, Lasts, Types, NgapTypes
  <2> QED
    BY <1>6, <2>3 DEF CompleteCurrent, Types, RanTypes, NasTypes, ran, nas
<1> QED
  BY <1>4, <1>5, <1>6

LEMMA CompleteGoesIdleTypes ==
  ASSUME Types, CompleteGoesIdle
  PROVE  Types'
<1>1. n2 \in N2Release /\ n2.amf \in DOMAIN uc /\ n2.ran \in RanIds /\ n2.ue \in Ues
  BY DEF CompleteGoesIdle, Types, QueueTypes, NoWait, N2Release
<1>2. /\ nc' = [nc EXCEPT ![n2.ue].cm = "CM_IDLE"]
      /\ timers' = timers \cup {[kind |-> "mobile", amf |-> n2.amf]}
      /\ n2' = [n2 EXCEPT !.ue = NoUe]
      /\ UNCHANGED <<ran, n2q, appq, n1q, ngap, uc, supi2uc, amf2nc, supi2amf>>
  BY DEF CompleteGoesIdle, MobileTimer
<1>3. n2' \in N2Release
  BY <1>1, <1>2 DEF N2Release
<1>4. \A x : (N2Msg(x)' <=> N2Msg(x)) /\ (N1Msg(x)' <=> N1Msg(x))
  BY <1>2 DEF N2Msg, N1Msg, IsInitial
<1>5. QueueTypes'
  BY <1>2, <1>3, <1>4 DEF Types, QueueTypes, N2Release
<1>6. NasTypes'
  <2>1. nc' \in [Ues -> [amf : DOMAIN uc, ran : RanIds, cm : {"CM_IDLE", "CM_CONNECTED"}]]
    BY <1>1, <1>2 DEF Types, NasTypes
  <2>2. timers' \subseteq [kind : {"mobile", "implicit"}, amf : DOMAIN uc]
    BY <1>1, <1>2 DEF Types, NasTypes
  <2> QED
    BY <1>2, <2>1, <2>2 DEF Types, NasTypes
<1> QED
  BY <1>2, <1>5, <1>6 DEF Types, RanTypes, NgapTypes, ran, ngap

LEMMA CompleteRemovesTypes ==
  ASSUME Types, CompleteRemoves
  PROVE  Types'
<1>1. n2 \in N2Release
  BY DEF CompleteRemoves, Types, QueueTypes
<1>2. n2.amf \in DOMAIN uc /\ n2.ran \in RanIds
  BY <1>1 DEF N2Release
<1>3. NgapTypes'
  BY <1>2, RemovedTypes, Sizes DEF CompleteRemoves
<1>4. \A x : (N2Msg(x)' <=> N2Msg(x)) /\ (N1Msg(x)' <=> N1Msg(x))
  BY DEF CompleteRemoves, N2Msg, N1Msg, IsInitial
<1>5. QueueTypes'
  BY <1>4 DEF CompleteRemoves, Types, QueueTypes
<1> QED
  BY <1>3, <1>5 DEF CompleteRemoves, Types, RanTypes, NasTypes, ran, nas

LEMMA EstablishTypes ==
  ASSUME Types, Establish
  PROVE  Types'
<1> DEFINE m == Head(appq)
           c == Len(uc) + 1
           i == ran2unc[m.ran]
           x == [m EXCEPT !.amf = c]
           d == [ran |-> m.ran, sessions |-> FALSE]
<1>1. /\ appq # <<>> /\ appq' = Tail(appq) /\ uc' = Append(uc, d)
      /\ uncs' = IF i = 0 THEN uncs ELSE [uncs EXCEPT ![i].amf = c]
      /\ amf2unc' = IF i = 0 THEN amf2unc ELSE [amf2unc EXCEPT ![c] = i]
      /\ n1q' = Append(n1q, x)
      /\ UNCHANGED <<ran, n2q, n2, ran2unc, supi2uc, nas, timers, released>>
  BY DEF Establish
<1>2. m \in Msgs /\ IsInitial(m) /\ m.ran \in RanIds
      /\ appq' \in Seq(Msgs) /\ (\A y \in In(appq') : y \in In(appq)) /\ Len(appq') = Len(appq) - 1
  BY <1>1, HeadTypes DEF IsInitial
<1>3. c \in Conns /\ c \in 0 .. MaxConns /\ Len(uc) < c
  <2>1. Len(appq) > 0
    BY <1>1, SameQueues, Took
  <2> QED
    BY <2>1, Sizes DEF Conns
<1>4. x \in Msgs /\ IsInitial(x) /\ x.type = "initial" /\ x.amf = c
  <2>1. x = [m EXCEPT !.amf = c]
    OBVIOUS
  <2> HIDE DEF m, c, x
  <2> QED
    BY <1>2, <1>3, <2>1 DEF Msgs, IsInitial
<1>5. d \in Ucs
  BY <1>2 DEF Ucs
<1>6. uc' \in Seq(Ucs) /\ Len(uc') = c
  BY <1>1, <1>5, SameQueues, Put
<1>7. DOMAIN uc' = 1 .. c
  BY <1>6, LenProperties
<1>8. DOMAIN uc \subseteq DOMAIN uc' /\ c \in DOMAIN uc' /\ 0 .. Len(uc) \subseteq 0 .. Len(uc')
  BY <1>3, <1>6, <1>7, Sizes
<1>9. n1q' \in Seq(Msgs) /\ \A y \in In(n1q') : y \in In(n1q) \/ y = x
  <2> HIDE DEF m, c, x
  <2> QED
    BY <1>1, <1>4, SameQueues, Put
<1> HIDE DEF m, c, d, x
<1>10. QueueTypes'
  <2>1. \A y : N2Msg(y) => N2Msg(y)'
    BY <1>8 DEF N2Msg, IsInitial
  <2>2. \A y : N1Msg(y) => N1Msg(y)'
    BY <1>8 DEF N1Msg, IsInitial
  <2>3. \A y : y = x => N1Msg(y)'
    BY <1>4, <1>8 DEF N1Msg, IsInitial
  <2>4. n2' = NoWait \/ n2' \in N2Release'
    BY <1>1, <1>8 DEF Types, QueueTypes, N2Release
  <2> QED
    BY <1>1, <1>2, <1>9, <2>1, <2>2, <2>3, <2>4 DEF Types, QueueTypes
<1>11. i \in 0 .. Len(uncs)
  BY <1>2 DEF Types, NgapTypes
<1>12. uncs' \in Seq(Uncs) /\ Len(uncs') = Len(uncs)
  <2>1. CASE i = 0
    BY <1>1, <2>1 DEF Types, NgapTypes
  <2>2. CASE i # 0
    <3> DEFINE e == [uncs[i] EXCEPT !.amf = c]
    <3>1. i \in 1 .. Len(uncs) /\ uncs \in Seq(Uncs)
      BY <1>11, <2>2, Sizes DEF Types, NgapTypes
    <3>2. uncs[i] \in Uncs
      BY <3>1, ElementOfSeq
    <3>3. e \in Uncs
      BY <1>3, <3>2 DEF Uncs
    <3>4. uncs' = [uncs EXCEPT ![i] = e]
      BY <1>1, <2>2
    <3> HIDE DEF e, i
    <3> QED
      BY <3>1, <3>3, <3>4, ExceptSeq
  <2> QED
    BY <2>1, <2>2
<1>13. NgapTypes'
  <2>1. Len(uncs') <= Len(uc') + Len(appq') /\ Len(uc') + Len(appq') + Inits(n2q') <= MaxConns
    BY <1>1, <1>2, <1>6, <1>12, Sizes DEF c, Types, NgapTypes
  <2>2. amf2unc' \in [Conns -> 0 .. Len(uncs)]
    BY <1>1, <1>3, <1>11 DEF Types, NgapTypes
  <2> QED
    BY <1>1, <1>6, <1>12, <2>1, <2>2 DEF Types, NgapTypes
<1>14. RanTypes'
  BY <1>1, <1>8 DEF Types, RanTypes, ran
<1>15. NasTypes'
  BY <1>1, <1>8 DEF Types, NasTypes, nas
<1> QED
  BY <1>10, <1>13, <1>14, <1>15 DEF Types

\* The message the N1 task takes.
LEMMA N1Tail ==
  ASSUME Types, n1q # <<>>, n1q' = Tail(n1q)
  PROVE  /\ n1q' \in Seq(Msgs) /\ \A x \in In(n1q') : x \in In(n1q) \/ N1Msg(x)
         /\ Head(n1q) \in In(n1q) /\ Head(n1q).amf \in DOMAIN uc /\ Head(n1q).amf \in Conns
         /\ Head(n1q).type = "uplink" => Head(n1q).ran \in RanIds
         /\ Head(n1q).type = "initial" =>
              IsInitial(Head(n1q)) /\ Head(n1q).ue \in Ues /\ Head(n1q).ran \in RanIds
<1>1. N1Msg(Head(n1q)) /\ n1q' \in Seq(Msgs) /\ In(n1q') \subseteq In(n1q) /\ Head(n1q) \in In(n1q)
  BY HeadTypes
<1> QED
  BY <1>1, Sizes DEF N1Msg, IsInitial

\* The sessions of a context change.
LEMMA SessionsLast ==
  ASSUME Types, NEW c \in DOMAIN uc, NEW b \in BOOLEAN, uc' = [uc EXCEPT ![c].sessions = b]
  PROVE  /\ Lasts /\ DOMAIN uc' = DOMAIN uc /\ uc'[c].sessions = b
         /\ \A d \in DOMAIN uc : uc'[d].ran = uc[d].ran
         /\ \A d \in DOMAIN uc \ {c} : uc'[d] = uc[d]
<1> DEFINE e == [uc[c] EXCEPT !.sessions = b]
<1>1. uc \in Seq(Ucs) /\ uc[c] \in Ucs /\ c \in 1 .. Len(uc)
  BY SameQueues, ElementOfSeq, Sizes
<1>2. e \in Ucs /\ e.ran = uc[c].ran /\ e.sessions = b
  BY <1>1 DEF Ucs
<1>3. uc' = [uc EXCEPT ![c] = e]
  OBVIOUS
<1> HIDE DEF e
<1>4. Lasts
  BY <1>1, <1>2, <1>3, ExceptSeq DEF Lasts
<1> QED
  BY <1>1, <1>2, <1>3, <1>4, LastsTypes

LEMMA MovedTypes ==
  ASSUME Types, NEW u \in Ues, NEW c \in DOMAIN uc, NEW r \in RanIds, Moved(u, c, r),
         Lasts, UNCHANGED timers, supi2uc' \in [Ues -> DOMAIN uc]
  PROVE  NasTypes'
<1>1. DOMAIN uc' = DOMAIN uc /\ c \in Conns
  BY LastsTypes, Sizes
<1>2. nc' \in [Ues -> [amf : DOMAIN uc, ran : RanIds, cm : {"CM_IDLE", "CM_CONNECTED"}]]
  <2> DEFINE e == [nc[u] EXCEPT !.amf = c, !.ran = r]
  <2>1. e \in [amf : DOMAIN uc, ran : RanIds, cm : {"CM_IDLE", "CM_CONNECTED"}]
    <3>1. nc[u] \in [amf : DOMAIN uc, ran : RanIds, cm : {"CM_IDLE", "CM_CONNECTED"}]
      BY DEF Types, NasTypes
    <3> QED
      BY <3>1
  <2>2. nc' = [nc EXCEPT ![u] = e]
    BY DEF Moved
  <2> HIDE DEF e
  <2> QED
    BY <2>1, <2>2 DEF Types, NasTypes
<1>3. amf2nc' \in [Conns -> Ues \cup {NoUe}] /\ supi2amf' \in [Ues -> DOMAIN uc]
  BY <1>1 DEF Moved, Types, NasTypes
<1> QED
  BY <1>1, <1>2, <1>3 DEF Types, NasTypes

\* The N1 task handles a Service Request: the message, and what it sends.
LEMMA ServiceSends ==
  ASSUME Types, HandleService,
         NEW m, m = Head(n1q), NEW s, s = Msg("setup", m.amf, m.ran),
         NEW o, o = Msg("command", nc[m.ue].amf, nc[m.ue].ran)
  PROVE  /\ n1q # <<>> /\ m \in In(n1q) /\ m.type = "initial" /\ m.kind = "service"
         /\ m.amf \in DOMAIN uc /\ m.amf \in Conns /\ m.ue \in Ues /\ m.ran \in RanIds
         /\ n1q' = Tail(n1q) /\ Moved(m.ue, m.amf, m.ran)
         /\ s \in Msgs /\ s.type = "setup" /\ s.amf = m.amf /\ s.ran = m.ran /\ N2Msg(s)
         /\ o \in Msgs /\ o.type = "command" /\ o.amf = nc[m.ue].amf /\ N2Msg(o)
         /\ n2q' = Append(n2q, s) \/ n2q' = Append(Append(n2q, o), s)
         /\ Append(n2q, o) \in Seq(Msgs) /\ In(Append(n2q, o)) = In(n2q) \cup {o}
         /\ Lasts /\ DOMAIN uc' = DOMAIN uc /\ \A d \in DOMAIN uc : uc'[d].ran = uc[d].ran
         /\ uc'[m.amf].sessions = uc[supi2uc[m.ue]].sessions
         /\ \A d \in DOMAIN uc \ {m.amf} : uc'[d] = uc[d]
         /\ supi2uc' = [supi2uc EXCEPT ![m.ue] = m.amf]
         /\ UNCHANGED <<ran, appq, n2, ngap, timers, released>>
<1>1. /\ n1q # <<>> /\ m.type = "initial" /\ m.kind = "service"
      /\ n1q' = Tail(n1q) /\ Moved(m.ue, m.amf, m.ran)
      /\ n2q' = n2q \o OldReleased(m.ue, m.ran) \o <<s>>
      /\ uc' = [uc EXCEPT ![m.amf].sessions = uc[supi2uc[m.ue]].sessions]
      /\ supi2uc' = [supi2uc EXCEPT ![m.ue] = m.amf]
      /\ UNCHANGED <<ran, appq, n2, ngap, timers, released>>
  BY DEF HandleService, N1Takes, CopiedSessions
<1>2. m \in In(n1q) /\ m.amf \in DOMAIN uc /\ m.amf \in Conns /\ m.ue \in Ues /\ m.ran \in RanIds
  BY <1>1, N1Tail
<1>3. nc[m.ue].amf \in DOMAIN uc /\ nc[m.ue].ran \in RanIds /\ supi2uc[m.ue] \in DOMAIN uc
  BY <1>2 DEF Types, NasTypes
<1>4. /\ s \in Msgs /\ s.type = "setup" /\ s.amf = m.amf /\ s.ran = m.ran /\ N2Msg(s)
      /\ o \in Msgs /\ o.type = "command" /\ o.amf = nc[m.ue].amf /\ N2Msg(o)
  <2>1. m.amf \in 0 .. MaxConns /\ nc[m.ue].amf \in 0 .. MaxConns
    BY <1>2, <1>3, Sizes
  <2>2. s \in Msgs /\ s.type = "setup" /\ s.amf = m.amf /\ s.ran = m.ran
    BY <1>2, <2>1, MsgType
  <2>3. o \in Msgs /\ o.type = "command" /\ o.amf = nc[m.ue].amf /\ o.ran = nc[m.ue].ran
    BY <1>3, <2>1, MsgType
  <2> QED
    BY <1>2, <1>3, <2>2, <2>3 DEF N2Msg
<1>5. Append(n2q, o) \in Seq(Msgs) /\ In(Append(n2q, o)) = In(n2q) \cup {o}
  <2>1. n2q \in Seq(Msgs) /\ o \in Msgs
    BY <1>4, SameQueues
  <2> QED
    BY <2>1, Put
<1>6. n2q' = Append(n2q, s) \/ n2q' = Append(Append(n2q, o), s)
  <2>1. OldReleased(m.ue, m.ran) = <<o>> \/ OldReleased(m.ue, m.ran) = <<>>
    BY DEF OldReleased
  <2>2. CASE OldReleased(m.ue, m.ran) = <<>>
    <3>1. n2q \o <<>> = n2q /\ n2q \o <<s>> = Append(n2q, s)
      BY <1>4, SameQueues, ConcatEmptySeq, AppendIsConcat
    <3>2. n2q' = n2q \o <<>> \o <<s>>
      BY <1>1, <2>2
    <3> QED
      BY <3>1, <3>2
  <2>3. CASE OldReleased(m.ue, m.ran) = <<o>>
    <3>1. n2q \o <<o>> = Append(n2q, o)
      BY <1>4, SameQueues, AppendIsConcat
    <3>2. Append(n2q, o) \o <<s>> = Append(Append(n2q, o), s)
      BY <1>4, <1>5, AppendIsConcat
    <3>3. n2q' = n2q \o <<o>> \o <<s>>
      BY <1>1, <2>3
    <3> QED
      BY <3>1, <3>2, <3>3
  <2> QED
    BY <2>1, <2>2, <2>3
<1>7. uc[supi2uc[m.ue]].sessions \in BOOLEAN
  <2>1. uc[supi2uc[m.ue]] \in Ucs
    BY <1>3, SameQueues, ElementOfSeq, Sizes
  <2> QED
    BY <2>1 DEF Ucs
<1>8. /\ Lasts /\ DOMAIN uc' = DOMAIN uc /\ \A d \in DOMAIN uc : uc'[d].ran = uc[d].ran
      /\ uc'[m.amf].sessions = uc[supi2uc[m.ue]].sessions
      /\ \A d \in DOMAIN uc \ {m.amf} : uc'[d] = uc[d]
  BY <1>1, <1>2, <1>7, SessionsLast
<1> QED
  BY <1>1, <1>2, <1>4, <1>5, <1>6, <1>8

LEMMA HandleServiceTypes ==
  ASSUME Types, HandleService
  PROVE  Types'
<1> DEFINE m == Head(n1q)
           s == Msg("setup", m.amf, m.ran)
           o == Msg("command", nc[m.ue].amf, nc[m.ue].ran)
           p == Append(n2q, o)
<1>1. /\ n1q # <<>> /\ n1q' = Tail(n1q) /\ Moved(m.ue, m.amf, m.ran) /\ Lasts
      /\ m.amf \in DOMAIN uc /\ m.ue \in Ues /\ m.ran \in RanIds
      /\ s \in Msgs /\ s.type = "setup" /\ N2Msg(s)
      /\ o \in Msgs /\ o.type = "command" /\ N2Msg(o)
      /\ p \in Seq(Msgs) /\ In(p) = In(n2q) \cup {o}
      /\ n2q' = Append(n2q, s) \/ n2q' = Append(p, s)
      /\ supi2uc' = [supi2uc EXCEPT ![m.ue] = m.amf]
      /\ UNCHANGED <<ran, appq, n2, ngap, timers, released>>
  BY ServiceSends
<1> HIDE DEF m, s, o
<1>2. Inits(p) = Inits(n2q)
  BY <1>1, SameQueues, PutInits
<1> HIDE DEF p
<1>3. ASSUME NEW q \in Seq(Msgs), Inits(q) = Inits(n2q), \A x \in In(q) : x \in In(n2q) \/ N2Msg(x),
             n2q' = Append(q, s)
      PROVE  /\ n2q' \in Seq(Msgs) /\ \A x \in In(n2q') : x \in In(n2q) \/ N2Msg(x)
             /\ Inits(n2q') = Inits(n2q)
  <2>1. n2q' \in Seq(Msgs) /\ In(n2q') = In(q) \cup {s}
    BY <1>1, <1>3, Put
  <2>2. Inits(n2q') = Inits(q)
    BY <1>1, <1>3, PutInits, SameQueues
  <2> QED
    BY <1>1, <1>3, <2>1, <2>2
<1>4. /\ n2q' \in Seq(Msgs) /\ \A x \in In(n2q') : x \in In(n2q) \/ N2Msg(x)
      /\ Inits(n2q') = Inits(n2q)
  BY <1>1, <1>2, <1>3, SameQueues
<1>5. n1q' \in Seq(Msgs) /\ \A x \in In(n1q') : x \in In(n1q) \/ N1Msg(x)
  BY <1>1, N1Tail
<1>6. QueueTypes' /\ NgapTypes'
  BY <1>1, <1>4, <1>5, SameQueues, QueuesKeepTypes
<1>7. supi2uc' \in [Ues -> DOMAIN uc]
  BY <1>1 DEF Types, NasTypes
<1>8. NasTypes'
  BY <1>1, <1>7, MovedTypes
<1>9. RanTypes'
  BY <1>1 DEF Types, RanTypes, ran, Lasts
<1> QED
  BY <1>6, <1>8, <1>9 DEF Types

LEMMA HandleInitialDeregistrationTypes ==
  ASSUME Types, HandleInitialDeregistration
  PROVE  Types'
<1> DEFINE m == Head(n1q)
<1>1. /\ n1q # <<>> /\ m.type = "initial" /\ n1q' = Tail(n1q) /\ Moved(m.ue, m.amf, m.ran)
      /\ UNCHANGED <<ran, n2q, appq, n2, ngap, uc, supi2uc, timers, released>>
  BY DEF HandleInitialDeregistration, N1Takes
<1>2. /\ n1q' \in Seq(Msgs) /\ \A x \in In(n1q') : x \in In(n1q) \/ N1Msg(x)
      /\ m.amf \in DOMAIN uc /\ m.ue \in Ues /\ m.ran \in RanIds
  BY <1>1, N1Tail
<1> HIDE DEF m
<1>3. QueueTypes' /\ NgapTypes'
  BY <1>1, <1>2, SameQueues, QueuesKeepTypes
<1>4. supi2uc' \in [Ues -> DOMAIN uc]
  BY <1>1 DEF Types, NasTypes
<1>5. NasTypes'
  BY <1>1, <1>2, <1>4, SameQueues, MovedTypes
<1> QED
  BY <1>1, <1>3, <1>5 DEF Types, RanTypes, ran

LEMMA HandleDeregistrationTypes ==
  ASSUME Types, HandleDeregistration
  PROVE  Types'
<1> DEFINE m == Head(n1q)
           u == amf2nc[m.amf]
           c == nc[u].amf
           o == Msg("command", m.amf, m.ran)
<1>1. /\ n1q # <<>> /\ m.type = "uplink" /\ n1q' = Tail(n1q)
      /\ \/ UNCHANGED <<uc, amf2nc, n2q>>
         \/ /\ u # NoUe
            /\ uc' = [uc EXCEPT ![c].sessions = FALSE] \/ uc' = uc
            /\ amf2nc' = [amf2nc EXCEPT ![m.amf] = NoUe]
            /\ n2q' = Append(n2q, o)
      /\ UNCHANGED <<ran, appq, n2, ngap, supi2uc, nc, supi2amf, timers>>
  BY DEF HandleDeregistration, N1Takes
<1>2. /\ n1q' \in Seq(Msgs) /\ \A x \in In(n1q') : x \in In(n1q) \/ N1Msg(x)
      /\ m.amf \in DOMAIN uc /\ m.ran \in RanIds /\ m.amf \in Conns
  BY <1>1, N1Tail
<1> HIDE DEF m
<1>3. u # NoUe => u \in Ues /\ c \in DOMAIN uc
  BY <1>2 DEF Types, NasTypes
<1>4. o \in Msgs /\ o.type = "command" /\ N2Msg(o)
  BY <1>2, MsgType, Sizes DEF N2Msg
<1> HIDE DEF o
<1>5. Lasts
  BY <1>1, <1>3, SessionsLast, SameQueues
<1>6. /\ n2q' \in Seq(Msgs) /\ \A x \in In(n2q') : x \in In(n2q) \/ N2Msg(x)
      /\ Inits(n2q') <= Inits(n2q) /\ Inits(n2q') \in Nat
  BY <1>1, <1>4, PlainPut, SameQueues
<1>7. QueueTypes' /\ NgapTypes'
  BY <1>1, <1>2, <1>5, <1>6, QueuesKeepTypes
<1>8. amf2nc' \in [Conns -> Ues \cup {NoUe}]
  BY <1>1, <1>2 DEF Types, NasTypes
<1>9. DOMAIN uc' = DOMAIN uc /\ Len(uc') = Len(uc)
  BY <1>5, LastsTypes DEF Lasts
<1>10. RanTypes' /\ NasTypes'
  BY <1>1, <1>8, <1>9 DEF Types, RanTypes, NasTypes, ran
<1> QED
  BY <1>7, <1>10 DEF Types

LEMMA TimeoutTypes ==
  ASSUME Types, HandleMobileTimeout \/ HandleImplicitTimeout
  PROVE  Types'
<1> DEFINE m == Head(n1q)
           u == amf2nc[m.amf]
           o == Msg("command", nc[u].amf, nc[u].ran)
<1>1. /\ n1q # <<>> /\ n1q' = Tail(n1q)
      /\ timers' = timers \/ timers' = timers \cup {[kind |-> "implicit", amf |-> m.amf]}
      /\ n2q' = n2q \/ (u # NoUe /\ n2q' = Append(n2q, o))
      /\ UNCHANGED <<ran, appq, n2, ngap, uc, supi2uc, nas>>
  BY DEF HandleMobileTimeout, HandleImplicitTimeout, N1Takes
<1>2. /\ n1q' \in Seq(Msgs) /\ \A x \in In(n1q') : x \in In(n1q) \/ N1Msg(x)
      /\ m.amf \in DOMAIN uc /\ m.amf \in Conns
  BY <1>1, N1Tail
<1> HIDE DEF m
<1>3. u # NoUe => nc[u].amf \in DOMAIN uc /\ nc[u].ran \in RanIds
  BY <1>2 DEF Types, NasTypes
<1> HIDE DEF u
<1>4. u # NoUe => o \in Msgs /\ o.type = "command" /\ N2Msg(o)
  BY <1>3, MsgType, Sizes DEF N2Msg
<1> HIDE DEF o
<1>5. /\ n2q' \in Seq(Msgs) /\ \A x \in In(n2q') : x \in In(n2q) \/ N2Msg(x)
      /\ Inits(n2q') <= Inits(n2q) /\ Inits(n2q') \in Nat
  BY <1>1, <1>4, PlainPut, SameQueues
<1>6. QueueTypes' /\ NgapTypes'
  BY <1>1, <1>2, <1>5, SameQueues, QueuesKeepTypes
<1>7. timers' \subseteq [kind : {"mobile", "implicit"}, amf : DOMAIN uc]
  BY <1>1, <1>2 DEF Types, NasTypes
<1>8. RanTypes' /\ NasTypes'
  BY <1>1, <1>7 DEF Types, RanTypes, NasTypes, ran, nas
<1> QED
  BY <1>6, <1>8 DEF Types

--------------------------------------------------------------------------------
(* The start: each of the first RAN ids is that of one UE.                  *)
LEMMA Nothing ==
  /\ <<>> \in Seq(Msgs) /\ In(<<>>) = {} /\ Len(<<>>) = 0 /\ Inits(<<>>) = 0
  /\ \A i \in DOMAIN <<>> : FALSE
<1>1. <<>> \in Seq(Msgs) /\ Len(<<>>) = 0 /\ DOMAIN <<>> = {}
  BY EmptySeq, LenProperties
<1>2. In(<<>>) = {} /\ {i \in DOMAIN <<>> : <<>>[i].type = "initial"} = {}
  BY <1>1 DEF In
<1>3. Inits(<<>>) = 0
  BY <1>2, FS_EmptySet DEF Inits
<1> QED
  BY <1>1, <1>2, <1>3

LEMMA FirstUes ==
  /\ Cardinality(Ues) \in Nat
  /\ \A c \in 1 .. Cardinality(Ues) : UeAt(c) \in Ues /\ InitRan[UeAt(c)] = c
  /\ \A u \in Ues : InitRan[u] \in 1 .. Cardinality(Ues) /\ UeAt(InitRan[u]) = u
<1> DEFINE n == Cardinality(Ues)
           First == 1 .. n
<1>1. n \in Nat
  BY InitRanAssumption, FS_CardinalityType
<1>2. IsFiniteSet(First) /\ Cardinality(First) = n
  BY <1>1, FS_Interval
<1>3. InitRan \in Injection(Ues, First)
  BY InitRanAssumption DEF Injection, IsInjective
<1>4. InitRan \in Surjection(Ues, First)
  BY <1>2, <1>3, FS_Injection
<1>5. \A c \in First : \E u \in Ues : InitRan[u] = c
  BY <1>4 DEF Surjection
<1>6. \A c \in First : UeAt(c) \in Ues /\ InitRan[UeAt(c)] = c
  BY <1>5 DEF UeAt
<1>7. \A u \in Ues : InitRan[u] \in First
  BY InitRanAssumption
<1> QED
  BY <1>1, <1>6, <1>7, InitRanAssumption

LEMMA InitTypes == Init => Types
<1> SUFFICES ASSUME Init PROVE Types
  OBVIOUS
<1> DEFINE n == Cardinality(Ues)
           First == 1 .. n
<1>1. n \in Nat /\ MaxConns \in Nat /\ n <= MaxConns /\ First \subseteq RanIds /\ First \subseteq Conns
      /\ NoUe \notin Ues /\ InitRan \in [Ues -> First]
      /\ \A c \in First : UeAt(c) \in Ues /\ InitRan[UeAt(c)] = c
  BY FirstUes, InitRanAssumption, NoUeAssumption DEF Conns
<1> HIDE DEF n
<1>2. /\ gnb = [r \in RanIds |-> IF r \in First THEN [ue |-> UeAt(r), amf |-> r, asked |-> FALSE]
                                               ELSE Free]
      /\ link = InitRan /\ gone = {}
      /\ n2q = <<>> /\ appq = <<>> /\ n1q = <<>> /\ n2 = NoWait
      /\ uncs = [c \in First |-> [ran |-> c, amf |-> c, tmsi |-> UeAt(c)]]
      /\ ran2unc = [r \in RanIds |-> IF r \in First THEN r ELSE 0]
      /\ amf2unc = [c \in Conns |-> IF c \in First THEN c ELSE 0]
      /\ uc = [c \in First |-> [ran |-> c, sessions |-> TRUE]]
      /\ supi2uc = InitRan /\ supi2amf = InitRan
      /\ nc = [u \in Ues |-> [amf |-> InitRan[u], ran |-> InitRan[u], cm |-> "CM_CONNECTED"]]
      /\ amf2nc = [c \in Conns |-> IF c \in First THEN UeAt(c) ELSE NoUe]
      /\ timers = {} /\ released = {}
  BY DEF Init, n
<1>3. uc \in [First -> Ucs] /\ uncs \in [First -> Uncs]
  <2>1. \A c \in First : [ran |-> c, sessions |-> TRUE] \in Ucs
    BY <1>1 DEF Ucs
  <2>2. \A c \in First : [ran |-> c, amf |-> c, tmsi |-> UeAt(c)] \in Uncs
    BY <1>1 DEF Uncs
  <2> QED
    BY <1>2, <2>1, <2>2
<1>4. uc \in Seq(Ucs) /\ Len(uc) = n /\ DOMAIN uc = First /\ uncs \in Seq(Uncs) /\ Len(uncs) = n
  BY <1>1, <1>3, IsASeq, LenProperties
<1>5. RanTypes
  <2>1. \A r \in RanIds : gnb[r] \in [ue : Ues \cup {NoUe}, amf : 0 .. n, asked : BOOLEAN]
    <3>1. Free \in [ue : Ues \cup {NoUe}, amf : 0 .. n, asked : BOOLEAN]
      BY <1>1 DEF Free
    <3>2. \A r \in First : [ue |-> UeAt(r), amf |-> r, asked |-> FALSE]
                             \in [ue : Ues \cup {NoUe}, amf : 0 .. n, asked : BOOLEAN]
      BY <1>1
    <3> QED
      BY <1>2, <3>1, <3>2
  <2>2. gnb \in [RanIds -> [ue : Ues \cup {NoUe}, amf : 0 .. n, asked : BOOLEAN]]
    BY <1>2, <2>1
  <2>3. link \in [Ues -> RanIds \cup {0}]
    BY <1>1, <1>2
  <2> QED
    BY <1>2, <1>4, <2>2, <2>3 DEF RanTypes
<1>6. QueueTypes
  BY <1>2, Nothing DEF QueueTypes
<1>7. NgapTypes
  <2>1. Len(uncs) <= Len(uc) + Len(appq) /\ Len(uc) + Len(appq) + Inits(n2q) <= MaxConns
    BY <1>1, <1>2, <1>4, Nothing
  <2>2. ran2unc \in [RanIds -> 0 .. Len(uncs)] /\ amf2unc \in [Conns -> 0 .. Len(uncs)]
    BY <1>1, <1>2, <1>4
  <2> QED
    BY <1>4, <2>1, <2>2 DEF NgapTypes
<1>8. NasTypes
  BY <1>1, <1>2, <1>4 DEF NasTypes
<1> QED
  BY <1>5, <1>6, <1>7, <1>8 DEF Types

LEMMA TypesStep ==
  ASSUME Types, [Next]_vars
  PROVE  Types'
<1>1. CASE UNCHANGED vars
  BY <1>1 DEF vars, ran, ngap, nas, Types, RanTypes, QueueTypes, NgapTypes, NasTypes, N2Msg, N1Msg,
              IsInitial, N2Release
<1>2. ASSUME NEW u \in Ues, NEW r \in RanIds, NEW k \in Kinds, Attach(u, r, k) PROVE Types'
  BY <1>2, AttachTypes
<1>3. ASSUME NEW r \in RanIds, Inactive(r) PROVE Types'
  BY <1>3, InactiveTypes
<1>4. ASSUME NEW u \in Ues, Leave(u) PROVE Types'
  BY <1>4, LeaveTypes
<1>5. CASE ReceiveInitial
  BY <1>5, ReceiveInitialTypes
<1>6. CASE ReceiveUplink \/ ReceiveReleaseRequest \/ SendReleaseCommand
  BY <1>6, N2PlainTypes
<1>7. CASE SetupContext
  BY <1>7, SetupContextTypes
<1>8. ASSUME NEW i \in DOMAIN n2q,
             CompleteUnknown(n2q[i]) \/ CompleteOld(n2q[i]) \/ CompleteCurrent(n2q[i])
      PROVE  Types'
  BY <1>8, CompleteTypes
<1>9. CASE CompleteGoesIdle \/ CompleteRemoves
  BY <1>9, CompleteGoesIdleTypes, CompleteRemovesTypes
<1>10. CASE Establish
  BY <1>10, EstablishTypes
<1>11. CASE HandleService
  BY <1>11, HandleServiceTypes
<1>12. CASE HandleInitialDeregistration
  BY <1>12, HandleInitialDeregistrationTypes
<1>13. CASE HandleDeregistration
  BY <1>13, HandleDeregistrationTypes
<1>14. CASE HandleMobileTimeout \/ HandleImplicitTimeout
  BY <1>14, TimeoutTypes
<1>15. ASSUME NEW t \in timers, Fire(t) PROVE Types'
  BY <1>15, FireTypes
<1> QED
  BY <1>1, <1>2, <1>3, <1>4, <1>5, <1>6, <1>7, <1>8, <1>9, <1>10, <1>11, <1>12, <1>13, <1>14, <1>15
     DEF Next, N2Task, N1Task

\* The types of the contexts and queues hold in every state.
LEMMA TypesHold == Types => TypeOK
<1> SUFFICES ASSUME Types PROVE TypeOK
  OBVIOUS
<1>1. n2q \in Seq(Msgs) /\ appq \in Seq(Msgs) /\ n1q \in Seq(Msgs) /\ uc \in Seq(Ucs)
  BY SameQueues
<1>2. \A q \in {n2q, appq, n1q} : \A i \in DOMAIN q : q[i] \in Msgs
  BY <1>1, ElementOfSeq, LenProperties
<1>3. \A c \in DOMAIN uc : uc[c] \in [ran : RanIds, sessions : BOOLEAN]
  BY <1>1, ElementOfSeq, LenProperties DEF Ucs
<1>4. Len(uc) <= MaxConns
  BY Sizes
<1> QED
  BY <1>2, <1>3, <1>4 DEF Types, RanTypes, NgapTypes, NasTypes, TypeOK

\* The type invariant of the contexts and of the queues of the three tasks
\* (amf_n1.cpp, amf_n2.cpp, amf_app.cpp), whatever messages cross each other.
THEOREM TypeCorrect == Spec => []TypeOK
<1>1. Types /\ [Next]_vars => Types'
  BY TypesStep
<1> QED
  BY <1>1, InitTypes, TypesHold, PTL DEF Spec

--------------------------------------------------------------------------------
(* The NGAP contexts.                                                       *)
LEMMA QueueFacts ==
  ASSUME Types
  PROVE  /\ \A m \in In(n2q) : /\ m.ran \in RanIds
                               /\ m.type = "initial" => m.ue \in Ues /\ m.kind \in Kinds
                               /\ m.type # "initial" => m.amf \in DOMAIN uc
         /\ \A m \in In(appq) : /\ m.type = "initial" /\ m.ran \in RanIds /\ m.ue \in Ues
                                /\ m.kind \in Kinds
         /\ \A m \in In(n1q) : /\ m.amf \in DOMAIN uc /\ (Staged(m) <=> m.type = "initial")
                               /\ m.type = "initial" =>
                                    m.ran \in RanIds /\ m.ue \in Ues /\ m.kind \in Kinds
  BY DEF Types, QueueTypes, N2Msg, N1Msg, IsInitial, Staged

\* No connection is on its way under the RAN id of one that is set up, or of none.
LEMMA SetUpIsFresh ==
  ASSUME Types, NgapInv, NEW r \in RanIds, gnb[r].amf # 0 \/ gnb[r].ue \notin Ues
  PROVE  Fresh(n2q, r) /\ Fresh(appq, r) /\ Fresh(n1q, r)
<1>1. Fresh(n2q, r)
  BY QueueFacts DEF NgapInv, Stages, Waits, Fresh, Staged
<1>2. Fresh(appq, r)
  BY QueueFacts DEF NgapInv, Stages, Waits, Fresh, Staged
<1>3. Fresh(n1q, r)
  BY QueueFacts DEF NgapInv, Stages, Waits, Fresh, Staged
<1> QED
  BY <1>1, <1>2, <1>3

\* A step that opens, sets up and ends no connection.
Routine ==
  /\ \A r \in RanIds : gnb'[r].ue = gnb[r].ue /\ gnb'[r].amf = gnb[r].amf
  /\ UNCHANGED <<appq, uncs, ran2unc, amf2unc, n2>>
  /\ DOMAIN uc' = DOMAIN uc /\ \A c \in DOMAIN uc : uc'[c].ran = uc[c].ran
  /\ \A m \in In(n2q') : m \in In(n2q) \/ (~Staged(m) /\ m.type # "complete")
  /\ \A m \in In(n1q') : m \in In(n1q) \/ ~Staged(m)
  /\ Apart(n2q') /\ Apart(n1q') /\ Ended(n2q')

LEMMA RoutineKeeps ==
  ASSUME Types, NgapInv, Routine
  PROVE  NgapInv'
<1>1. \A r \in RanIds : /\ Fresh(n2q, r) => Fresh(n2q', r)
                        /\ Fresh(n1q, r) => Fresh(n1q', r)
  BY DEF Routine, Fresh
<1>2. OneStage'
  <2>1. Apart(n2q') /\ Apart(appq') /\ Apart(n1q')
    BY DEF Routine, NgapInv, OneStage
  <2>2. Disjoint(n2q', appq')
    BY DEF Routine, NgapInv, OneStage, Disjoint, Staged
  <2>3. Disjoint(n2q', n1q')
    BY <1>1, QueueFacts DEF Routine, NgapInv, OneStage, Disjoint, Staged
  <2>4. Disjoint(appq', n1q')
    BY <1>1, QueueFacts DEF Routine, NgapInv, OneStage, Disjoint, Staged
  <2> QED
    BY <2>1, <2>2, <2>3, <2>4 DEF OneStage
<1>3. \A r, u : /\ Waits(r, u)' <=> gnb'[r].ue = u /\ gnb'[r].amf = 0
                /\ Known(r, u)' <=> Known(r, u)
                /\ \A c : Bound(r, u, c) => Bound(r, u, c)'
  BY DEF Routine, Waits, Known, Bound
<1>4. Stages'
  <2>1. \A m \in In(n2q') : m.type = "initial" => Waits(m.ran, m.ue)'
    BY <1>3, QueueFacts DEF Routine, NgapInv, Stages, Waits, Staged
  <2>2. \A m \in In(appq') : Waits(m.ran, m.ue)' /\ Known(m.ran, m.ue)'
    BY <1>3, QueueFacts DEF Routine, NgapInv, Stages, Waits
  <2>3. \A m \in In(n1q') : m.type = "initial" => Waits(m.ran, m.ue)' /\ Bound(m.ran, m.ue, m.amf)'
    BY <1>3, QueueFacts DEF Routine, NgapInv, Stages, Waits, Staged
  <2>4. \A m \in In(n2q') : m.type = "setup" =>
          gnb'[m.ran].ue \in Ues /\ gnb'[m.ran].amf = 0 /\ Bound(m.ran, gnb[m.ran].ue, m.amf)'
    BY <1>3, QueueFacts DEF Routine, NgapInv, Stages, Staged
  <2>5. \A r \in RanIds : gnb'[r].amf # 0 =>
          gnb'[r].ue \in Ues /\ Bound(r, gnb[r].ue, gnb[r].amf)'
    BY <1>3 DEF Routine, NgapInv, Stages
  <2> QED
    BY <2>1, <2>2, <2>3, <2>4, <2>5, QueueFacts DEF Routine, Stages
<1>5. Ends'
  <2>1. \A r \in RanIds, c \in DOMAIN uc : Over(c, r) => Over(c, r)'
    BY <1>1 DEF Routine, Over
  <2>2. \A m \in In(n2q') : m.type = "complete" => Over(m.amf, m.ran)'
    BY <2>1, QueueFacts DEF Routine, NgapInv, Ends
  <2>3. n2 # NoWait => n2.amf \in DOMAIN uc /\ n2.ran \in RanIds
    BY DEF Types, QueueTypes, N2Release
  <2>4. n2 # NoWait => /\ Over(n2.amf, n2.ran)'
                       /\ \A m \in In(n2q') : m.type = "setup" => m.ran # n2.ran
    <3>1. n2 # NoWait => Over(n2.amf, n2.ran)
      BY DEF NgapInv, Ends
    <3>2. n2 # NoWait => \A m \in In(n2q') : m.type = "setup" => m.ran # n2.ran
      BY DEF Routine, NgapInv, Ends, Staged
    <3>3. ASSUME n2 # NoWait PROVE Over(n2.amf, n2.ran)'
      BY <2>3, <3>1, <3>3, <1>1 DEF Routine, Over
    <3> QED
      BY <3>2, <3>3
  <2> QED
    BY <2>2, <2>4 DEF Routine, NgapInv, Ends
<1>6. RanNames'
  BY DEF Routine, NgapInv, RanNames
<1> QED
  BY <1>2, <1>4, <1>5, <1>6 DEF NgapInv

\* The order of the queues, when the head is taken ...
LEMMA TookN2 ==
  ASSUME Types, NgapInv, n2q # <<>>
  PROVE  /\ Tail(n2q) \in Seq(Msgs) /\ Head(n2q) \in In(n2q) /\ Head(n2q) \in Msgs
         /\ In(Tail(n2q)) \subseteq In(n2q)
         /\ Apart(Tail(n2q)) /\ Ended(Tail(n2q))
         /\ Staged(Head(n2q)) =>
              /\ Fresh(Tail(n2q), Head(n2q).ran)
              /\ \A x \in In(n2q) : x.type = "complete" => x.ran # Head(n2q).ran
         /\ Head(n2q).type = "complete" => \A x \in In(n2q) : x.type = "setup" => x.ran # Head(n2q).ran
<1>1. Apart(n2q) /\ Ended(n2q) /\ n2q \in Seq(Msgs)
  BY SameQueues DEF NgapInv, OneStage, Ends
<1>2. /\ Apart(Tail(n2q)) /\ Ended(Tail(n2q))
      /\ Staged(Head(n2q)) => Fresh(Tail(n2q), Head(n2q).ran)
  BY <1>1, TookApart
<1>3. /\ Staged(Head(n2q)) => \A x \in In(n2q) : x.type = "complete" => x.ran # Head(n2q).ran
      /\ Head(n2q).type = "complete" => \A x \in In(n2q) : x.type = "setup" => x.ran # Head(n2q).ran
  BY <1>1, TookApart
<1> QED
  BY <1>1, <1>2, <1>3, HeadTypes

LEMMA TookN1 ==
  ASSUME Types, NgapInv, n1q # <<>>
  PROVE  /\ Tail(n1q) \in Seq(Msgs) /\ Head(n1q) \in In(n1q) /\ Head(n1q) \in Msgs
         /\ In(Tail(n1q)) \subseteq In(n1q) /\ Apart(Tail(n1q))
         /\ Head(n1q).type = "initial" => Fresh(Tail(n1q), Head(n1q).ran)
<1>1. Apart(n1q) /\ n1q \in Seq(Msgs)
  BY SameQueues DEF NgapInv, OneStage
<1> QED
  BY <1>1, TookApart, HeadTypes DEF Staged

\* ... and a plain message is put.
LEMMA PlainN2 ==
  ASSUME Types, NgapInv, NEW m \in Msgs, ~Staged(m), m.type # "complete", n2q' = Append(n2q, m)
  PROVE  /\ Apart(n2q') /\ Ended(n2q')
         /\ \A x \in In(n2q') : x \in In(n2q) \/ (~Staged(x) /\ x.type # "complete")
<1>1. Apart(n2q) /\ Ended(n2q) /\ n2q \in Seq(Msgs)
  BY SameQueues DEF NgapInv, OneStage, Ends
<1>2. m.type # "setup"
  BY DEF Staged
<1>3. Apart(n2q') /\ Ended(n2q')
  BY <1>1, <1>2, PutApart
<1> QED
  BY <1>1, <1>3, Put

LEMMA PlainN1 ==
  ASSUME Types, NgapInv, NEW m \in Msgs, ~Staged(m), n1q' = Append(n1q, m)
  PROVE  Apart(n1q') /\ \A x \in In(n1q') : x \in In(n1q) \/ ~Staged(x)
<1>1. Apart(n1q) /\ n1q \in Seq(Msgs)
  BY SameQueues DEF NgapInv, OneStage
<1> QED
  BY <1>1, PutApart, Put

LEMMA SameOrder == NgapInv => Apart(n2q) /\ Ended(n2q) /\ Apart(n1q)
  BY DEF NgapInv, OneStage, Ends

LEMMA ExternalIsRoutine ==
  ASSUME Types, NgapInv
  PROVE  /\ \A r \in RanIds : Inactive(r) => Routine
         /\ \A u \in Ues : Leave(u) => Routine
         /\ \A t \in timers : Fire(t) => Routine
<1>1. ASSUME NEW r \in RanIds, Inactive(r) PROVE Routine
  <2> DEFINE m == Msg("request", gnb[r].amf, r)
  <2>1. gnb[r].amf \in 0 .. MaxConns /\ gnb \in [RanIds -> [ue : Ues \cup {NoUe}, amf : 0 .. Len(uc), asked : BOOLEAN]]
    BY <1>1, Sizes DEF Types, RanTypes, Inactive
  <2>2. m \in Msgs /\ m.type = "request"
    BY <2>1, MsgType
  <2>3. n2q' = Append(n2q, m)
    BY <1>1 DEF Inactive
  <2> HIDE DEF m
  <2>4. \A s \in RanIds : gnb'[s].ue = gnb[s].ue /\ gnb'[s].amf = gnb[s].amf
    BY <1>1, <2>1 DEF Inactive
  <2>5. /\ Apart(n2q') /\ Ended(n2q')
        /\ \A x \in In(n2q') : x \in In(n2q) \/ (~Staged(x) /\ x.type # "complete")
    BY <2>2, <2>3, PlainN2 DEF Staged
  <2> QED
    BY <1>1, <2>4, <2>5, SameOrder DEF Inactive, Routine, ngap
<1>2. ASSUME NEW u \in Ues, Leave(u) PROVE Routine
  <2> DEFINE m == Msg("uplink", gnb[link[u]].amf, link[u])
  <2>1. link[u] \in RanIds /\ gnb[link[u]].amf \in 0 .. MaxConns
    BY <1>2, Sizes DEF Types, RanTypes, Leave
  <2>2. m \in Msgs /\ m.type = "uplink"
    BY <2>1, MsgType
  <2>3. n2q' = Append(n2q, m)
    BY <1>2 DEF Leave
  <2> HIDE DEF m
  <2>4. /\ Apart(n2q') /\ Ended(n2q')
        /\ \A x \in In(n2q') : x \in In(n2q) \/ (~Staged(x) /\ x.type # "complete")
    BY <2>2, <2>3, PlainN2 DEF Staged
  <2> QED
    BY <1>2, <2>4, SameOrder DEF Leave, Routine, ngap
<1>3. ASSUME NEW t \in timers, Fire(t) PROVE Routine
  <2> DEFINE m == Msg(t.kind, t.amf, 0)
  <2>1. t.kind \in {"mobile", "implicit"} /\ t.amf \in 0 .. MaxConns
    BY Sizes DEF Types, NasTypes
  <2>2. m \in Msgs /\ m.type = t.kind
    BY <2>1, MsgType
  <2>3. n1q' = Append(n1q, m)
    BY <1>3 DEF Fire
  <2> HIDE DEF m
  <2>4. Apart(n1q') /\ \A x \in In(n1q') : x \in In(n1q) \/ ~Staged(x)
    BY <2>1, <2>2, <2>3, PlainN1 DEF Staged
  <2> QED
    BY <1>3, <2>4, SameOrder DEF Fire, Routine, ran, ngap
<1> QED
  BY <1>1, <1>2, <1>3

LEMMA N2Routine ==
  ASSUME Types, NgapInv
  PROVE  /\ ReceiveUplink => Routine
         /\ \A i \in DOMAIN n2q : CompleteUnknown(n2q[i]) => Routine
         /\ n2q # <<>> /\ n2q' = Tail(n2q) /\ UNCHANGED <<ran, appq, n1q, n2, ngap, uc>> => Routine
<1>1. ASSUME n2q # <<>>, n2q' = Tail(n2q), UNCHANGED <<ran, appq, n1q, n2, ngap, uc>> PROVE Routine
  BY <1>1, TookN2, SameOrder DEF Routine, ran, ngap
<1>2. ASSUME ReceiveUplink PROVE Routine
  <2>1. n2q # <<>> /\ n2q' = Tail(n2q) /\ Head(n2q).type = "uplink"
        /\ (n1q' = n1q \/ n1q' = Append(n1q, Head(n2q)))
    BY <1>2 DEF ReceiveUplink, N2Takes
  <2>2. Apart(n1q') /\ \A x \in In(n1q') : x \in In(n1q) \/ ~Staged(x)
    BY <2>1, TookN2, PlainN1, SameOrder DEF Staged
  <2> QED
    BY <1>2, <2>1, <2>2, TookN2 DEF ReceiveUplink, Routine, ran, ngap
<1>3. ASSUME NEW i \in DOMAIN n2q, CompleteUnknown(n2q[i]) PROVE Routine
  BY <1>1, <1>3 DEF CompleteUnknown, Completes, N2Takes
<1> QED
  BY <1>1, <1>2, <1>3

LEMMA N1Routine ==
  ASSUME Types, NgapInv, HandleInitialDeregistration \/ HandleDeregistration
                         \/ HandleMobileTimeout \/ HandleImplicitTimeout
  PROVE  Routine
<1>1. n1q # <<>> /\ n1q' = Tail(n1q) /\ UNCHANGED <<ran, appq, n2, ngap>>
  BY DEF HandleInitialDeregistration, HandleDeregistration, HandleMobileTimeout,
         HandleImplicitTimeout, N1Takes
<1>2. Apart(n1q') /\ \A x \in In(n1q') : x \in In(n1q)
  BY <1>1, TookN1
<1> DEFINE m == Head(n1q)
           u == amf2nc[m.amf]
<1>3. m.amf \in DOMAIN uc /\ m.amf \in Conns
  BY <1>1, N1Tail
<1>4. DOMAIN uc' = DOMAIN uc /\ \A c \in DOMAIN uc : uc'[c].ran = uc[c].ran
  <2>1. uc' = uc \/ (u # NoUe /\ uc' = [uc EXCEPT ![nc[u].amf].sessions = FALSE])
    BY DEF HandleInitialDeregistration, HandleDeregistration, HandleMobileTimeout,
           HandleImplicitTimeout
  <2>2. CASE u # NoUe /\ uc' = [uc EXCEPT ![nc[u].amf].sessions = FALSE]
    <3>1. nc[u].amf \in DOMAIN uc
      BY <1>3, <2>2 DEF Types, NasTypes
    <3> QED
      BY <2>2, <3>1, SessionsLast
  <2> QED
    BY <2>1, <2>2
<1>5. /\ Apart(n2q') /\ Ended(n2q')
      /\ \A x \in In(n2q') : x \in In(n2q) \/ (~Staged(x) /\ x.type # "complete")
  <2>1. CASE n2q' = n2q
    BY <2>1, SameOrder
  <2>2. ASSUME NEW c \in DOMAIN uc, NEW r \in RanIds, n2q' = Append(n2q, Msg("command", c, r))
        PROVE  /\ Apart(n2q') /\ Ended(n2q')
               /\ \A x \in In(n2q') : x \in In(n2q) \/ (~Staged(x) /\ x.type # "complete")
    <3> DEFINE o == Msg("command", c, r)
    <3>1. o \in Msgs /\ o.type = "command"
      BY <2>2, MsgType, Sizes
    <3>2. n2q' = Append(n2q, o)
      BY <2>2
    <3> HIDE DEF o
    <3> QED
      BY <3>1, <3>2, PlainN2 DEF Staged
  <2>3. CASE HandleDeregistration /\ n2q' # n2q
    <3>1. n2q' = Append(n2q, Msg("command", m.amf, m.ran)) /\ m.type = "uplink"
      BY <2>3 DEF HandleDeregistration, N1Takes
    <3>2. m.ran \in RanIds
      BY <1>1, <3>1, N1Tail
    <3> QED
      BY <1>3, <2>2, <3>1, <3>2
  <2>4. CASE HandleImplicitTimeout /\ n2q' # n2q
    <3>1. n2q' = Append(n2q, Msg("command", nc[u].amf, nc[u].ran)) /\ u # NoUe
      BY <2>4 DEF HandleImplicitTimeout
    <3>2. nc[u].amf \in DOMAIN uc /\ nc[u].ran \in RanIds
      BY <1>3, <3>1 DEF Types, NasTypes
    <3> QED
      BY <2>2, <3>1, <3>2
  <2> QED
    BY <2>1, <2>3, <2>4 DEF HandleInitialDeregistration, HandleMobileTimeout
<1> QED
  BY <1>1, <1>2, <1>4, <1>5 DEF Routine, ran, ngap

LEMMA AttachNgap ==
  ASSUME Types, NgapInv, NEW u \in Ues, NEW r \in RanIds, NEW k \in Kinds, Attach(u, r, k)
  PROVE  NgapInv'
<1> DEFINE m == Initial(u, r, 0, k)
<1>1. m \in Msgs /\ m.type = "initial" /\ m.ran = r /\ m.ue = u
  BY InitialType, Sizes
<1>2. n2q' = Append(n2q, m) /\ gnb[r] = Free
      /\ gnb' = [gnb EXCEPT ![r] = [ue |-> u, amf |-> 0, asked |-> FALSE]]
      /\ UNCHANGED <<appq, n1q, n2, uncs, ran2unc, amf2unc, uc>>
  BY DEF Attach, Used, ngap
<1> HIDE DEF m
<1>3. gnb[r].ue \notin Ues
  BY <1>2, Sizes DEF Free
<1>4. Fresh(n2q, r) /\ Fresh(appq, r) /\ Fresh(n1q, r)
  BY <1>3, SetUpIsFresh
<1>5. n2q' \in Seq(Msgs) /\ In(n2q') = In(n2q) \cup {m} /\ Apart(n2q') /\ Ended(n2q')
  BY <1>1, <1>2, <1>4, SameOrder, SameQueues, Put, PutApart
<1>6. gnb'[r].ue = u /\ gnb'[r].amf = 0 /\ \A s \in RanIds \ {r} : gnb'[s] = gnb[s]
  BY <1>2 DEF Types, RanTypes
<1>7. OneStage'
  BY <1>1, <1>2, <1>4, <1>5, SameOrder DEF NgapInv, OneStage, Disjoint
<1>8. \A s, v : (Known(s, v)' <=> Known(s, v)) /\ \A c : Bound(s, v, c)' <=> Bound(s, v, c)
  BY <1>2 DEF Known, Bound
<1>9. Stages'
  <2>1. \A x \in In(n2q') : x.type = "initial" => Waits(x.ran, x.ue)'
    BY <1>1, <1>4, <1>5, <1>6, QueueFacts DEF NgapInv, Stages, Waits, Fresh, Staged
  <2>2. \A x \in In(appq') : Waits(x.ran, x.ue)' /\ Known(x.ran, x.ue)'
    BY <1>2, <1>4, <1>6, <1>8, QueueFacts DEF NgapInv, Stages, Waits, Fresh, Staged
  <2>3. \A x \in In(n1q') : x.type = "initial" => Waits(x.ran, x.ue)' /\ Bound(x.ran, x.ue, x.amf)'
    BY <1>2, <1>4, <1>6, <1>8, QueueFacts DEF NgapInv, Stages, Waits, Fresh, Staged
  <2>4. \A x \in In(n2q') : x.type = "setup" =>
          gnb'[x.ran].ue \in Ues /\ gnb'[x.ran].amf = 0 /\ Bound(x.ran, gnb[x.ran].ue, x.amf)'
    <3>1. \A x \in In(n2q') : x.type = "setup" => x \in In(n2q) /\ x.ran # r
      BY <1>1, <1>4, <1>5 DEF Fresh, Staged
    <3>2. \A x \in In(n2q) : x.type = "setup" =>
            gnb[x.ran].ue \in Ues /\ gnb[x.ran].amf = 0 /\ Bound(x.ran, gnb[x.ran].ue, x.amf)
      BY DEF NgapInv, Stages
    <3> QED
      BY <1>6, <1>8, <3>1, <3>2, QueueFacts
  <2>5. \A s \in RanIds : gnb'[s].amf # 0 =>
          gnb'[s].ue \in Ues /\ Bound(s, gnb[s].ue, gnb[s].amf)'
    BY <1>6, <1>8 DEF NgapInv, Stages
  <2> QED
    BY <2>1, <2>2, <2>3, <2>4, <2>5 DEF Stages
<1>10. Ends'
  <2>1. \A s \in RanIds, c \in DOMAIN uc : Over(c, s) => Over(c, s)'
    BY <1>2, <1>6 DEF Over
  <2>2. \A x \in In(n2q') : x.type = "complete" => Over(x.amf, x.ran)'
    BY <1>1, <1>5, <2>1, QueueFacts DEF NgapInv, Ends
  <2>3. n2 # NoWait => n2.amf \in DOMAIN uc /\ n2.ran \in RanIds /\ Over(n2.amf, n2.ran)
    BY DEF Types, QueueTypes, NgapInv, Ends, N2Release
  <2>4. n2 # NoWait => \A x \in In(n2q') : x.type = "setup" => x.ran # n2.ran
    BY <1>1, <1>5 DEF NgapInv, Ends
  <2> QED
    BY <1>2, <1>5, <2>1, <2>2, <2>3, <2>4 DEF Ends
<1>11. RanNames'
  BY <1>2 DEF NgapInv, RanNames
<1> QED
  BY <1>7, <1>9, <1>10, <1>11 DEF NgapInv

\* A release command ends the connection under the id.
LEMMA CommandNgap ==
  ASSUME Types, NgapInv, n2q # <<>>, n2 = NoWait, NEW c \in DOMAIN uc, NEW r \in RanIds,
         Command(Tail(n2q), c, r), UNCHANGED <<appq, n1q, n2, ngap, uc>>
  PROVE  NgapInv'
<1>1. CASE ~(c # 0 /\ gnb[r].amf = c)
  BY <1>1, N2Routine, RoutineKeeps DEF Command
<1>2. CASE c # 0 /\ gnb[r].amf = c
  <2> DEFINE m == Msg("complete", c, r)
             q == Tail(n2q)
  <2>1. m \in Msgs /\ m.type = "complete" /\ m.ran = r /\ m.amf = c
    BY MsgType, Sizes
  <2>2. n2q' = Append(q, m) /\ gnb' = [gnb EXCEPT ![r] = Free]
        /\ UNCHANGED <<appq, n1q, n2, uncs, ran2unc, amf2unc, uc>>
    BY <1>2 DEF Command, ngap
  <2> HIDE DEF m
  <2>3. Fresh(n2q, r) /\ Fresh(appq, r) /\ Fresh(n1q, r) /\ Bound(r, gnb[r].ue, c)
    BY <1>2, SetUpIsFresh DEF NgapInv, Stages
  <2>4. q \in Seq(Msgs) /\ In(q) \subseteq In(n2q) /\ Apart(q) /\ Ended(q)
    BY TookN2
  <2>5. Fresh(q, r)
    BY <2>3, <2>4 DEF Fresh
  <2> HIDE DEF q
  <2>6. Ended(n2q') /\ Apart(n2q') /\ In(n2q') = In(q) \cup {m}
    BY <2>1, <2>2, <2>4, <2>5, Put, PutApart DEF Staged
  <2>7. gnb'[r].amf = 0 /\ \A s \in RanIds \ {r} : gnb'[s] = gnb[s]
    BY <2>2 DEF Types, RanTypes, Free
  <2>8. \A x \in In(n2q') : (x \in In(n2q) /\ (Staged(x) => x.ran # r)) \/ (x = m /\ ~Staged(x))
    BY <2>1, <2>3, <2>4, <2>6 DEF Fresh, Staged
  <2>9. OneStage'
    <3>1. Disjoint(n2q', appq') /\ Disjoint(n2q', n1q')
      BY <2>2, <2>8 DEF NgapInv, OneStage, Disjoint
    <3> QED
      BY <2>2, <2>6, <3>1 DEF NgapInv, OneStage, Disjoint
  <2>10. \A s, v : (Known(s, v)' <=> Known(s, v)) /\ \A d : Bound(s, v, d)' <=> Bound(s, v, d)
    BY <2>2 DEF Known, Bound
  <2>11. Stages'
    <3>1. \A x \in In(n2q') : x.type = "initial" => Waits(x.ran, x.ue)'
      BY <2>7, <2>8, QueueFacts DEF NgapInv, Stages, Waits, Staged
    <3>2. \A x \in In(appq') : Waits(x.ran, x.ue)' /\ Known(x.ran, x.ue)'
      BY <2>2, <2>3, <2>7, <2>10, QueueFacts DEF NgapInv, Stages, Waits, Fresh, Staged
    <3>3. \A x \in In(n1q') : x.type = "initial" => Waits(x.ran, x.ue)' /\ Bound(x.ran, x.ue, x.amf)'
      BY <2>2, <2>3, <2>7, <2>10, QueueFacts DEF NgapInv, Stages, Waits, Fresh, Staged
    <3>4. \A x \in In(n2q') : x.type = "setup" =>
            gnb'[x.ran].ue \in Ues /\ gnb'[x.ran].amf = 0 /\ Bound(x.ran, gnb[x.ran].ue, x.amf)'
      <4>1. \A x \in In(n2q') : x.type = "setup" => x \in In(n2q) /\ x.ran # r
        BY <2>8 DEF Staged
      <4>2. \A x \in In(n2q) : x.type = "setup" =>
              gnb[x.ran].ue \in Ues /\ gnb[x.ran].amf = 0 /\ Bound(x.ran, gnb[x.ran].ue, x.amf)
        BY DEF NgapInv, Stages
      <4> QED
        BY <2>7, <2>10, <4>1, <4>2, QueueFacts
    <3>5. \A s \in RanIds : gnb'[s].amf # 0 =>
            gnb'[s].ue \in Ues /\ Bound(s, gnb[s].ue, gnb[s].amf)'
      BY <2>7, <2>10 DEF NgapInv, Stages
    <3> QED
      BY <3>1, <3>2, <3>3, <3>4, <3>5 DEF Stages
  <2>12. Ends'
    <3>1. \A s \in RanIds, d \in DOMAIN uc : Over(d, s) => Over(d, s)'
      BY <2>2, <2>7 DEF Over
    <3>2. Over(c, r)'
      BY <2>2, <2>3, <2>7 DEF Over, Bound
    <3>3. \A x \in In(n2q') : x.type = "complete" => Over(x.amf, x.ran)'
      BY <2>1, <2>8, <3>1, <3>2, QueueFacts DEF NgapInv, Ends
    <3> QED
      BY <2>2, <2>6, <3>3 DEF Ends
  <2>13. RanNames'
    BY <2>2 DEF NgapInv, RanNames
  <2> QED
    BY <2>9, <2>11, <2>12, <2>13 DEF NgapInv
<1> QED
  BY <1>1, <1>2

LEMMA ReleaseNgap ==
  ASSUME Types, NgapInv, ReceiveReleaseRequest \/ SendReleaseCommand
  PROVE  NgapInv'
<1> DEFINE m == Head(n2q)
<1>1. /\ n2q # <<>> /\ n2 = NoWait /\ m.type # "initial"
      /\ UNCHANGED <<appq, n1q, n2, ngap, uc>>
      /\ Command(Tail(n2q), m.amf, m.ran) \/ (n2q' = Tail(n2q) /\ UNCHANGED ran)
  BY DEF ReceiveReleaseRequest, SendReleaseCommand, N2Takes
<1>2. m.amf \in DOMAIN uc /\ m.ran \in RanIds
  BY <1>1, HeadTypes, QueueFacts
<1> HIDE DEF m
<1>3. CASE n2q' = Tail(n2q) /\ UNCHANGED ran
  BY <1>1, <1>3, N2Routine, RoutineKeeps
<1> QED
  BY <1>1, <1>2, <1>3, CommandNgap

LEMMA ReceiveInitialNgap ==
  ASSUME Types, NgapInv, ReceiveInitial
  PROVE  NgapInv'
<1> DEFINE m == Head(n2q)
           r == m.ran
           new == ran2unc[r] = 0
           i == IF new THEN Len(uncs) + 1 ELSE ran2unc[r]
           d == [ran |-> r, amf |-> 0, tmsi |-> m.ue]
<1>1. /\ n2q # <<>> /\ m.type = "initial" /\ n2 = NoWait
      /\ n2q' = Tail(n2q) /\ appq' = Append(appq, m)
      /\ uncs' = IF new THEN Append(uncs, d) ELSE [uncs EXCEPT ![i].ran = r, ![i].tmsi = m.ue]
      /\ ran2unc' = [ran2unc EXCEPT ![r] = i]
      /\ UNCHANGED <<gnb, n1q, n2, amf2unc, uc>>
  BY DEF ReceiveInitial, N2Takes, ran
<1>2. m \in Msgs /\ m \in In(n2q) /\ r \in RanIds /\ m.ue \in Ues /\ Staged(m)
  BY <1>1, HeadTypes, QueueFacts DEF Staged
<1>3. /\ In(n2q') \subseteq In(n2q) /\ Apart(n2q') /\ Ended(n2q') /\ Fresh(n2q', r)
      /\ \A x \in In(n2q) : x.type = "complete" => x.ran # r
  BY <1>1, <1>2, TookN2
<1>4. Fresh(appq, r) /\ Fresh(n1q, r) /\ Apart(appq) /\ Waits(r, m.ue)
  BY <1>1, <1>2 DEF NgapInv, OneStage, Disjoint, Stages
<1>5. /\ uncs \in Seq(Uncs) /\ Len(uncs) \in Nat /\ DOMAIN uncs = 1 .. Len(uncs)
      /\ ran2unc \in [RanIds -> 0 .. Len(uncs)]
  BY Sizes DEF Types, NgapTypes
<1>6. i # 0 /\ \A s \in RanIds \ {r} : ran2unc[s] # 0 => ran2unc[s] # i
  <2>1. CASE new
    BY <1>2, <1>5, <2>1
  <2>2. CASE ~new
    <3>1. uncs[i].ran = r
      BY <1>2, <2>2 DEF NgapInv, RanNames
    <3> QED
      BY <1>2, <2>2, <3>1 DEF NgapInv, RanNames
  <2> QED
    BY <2>1, <2>2
<1>7. uncs'[i].ran = r /\ uncs'[i].tmsi = m.ue
      /\ \A j \in 1 .. Len(uncs) : j # i => uncs'[j] = uncs[j]
  <2>1. CASE new
    BY <1>1, <1>5, <2>1, AppendProperties DEF Uncs
  <2>2. CASE ~new
    <3> DEFINE e == [uncs[i] EXCEPT !.ran = r, !.tmsi = m.ue]
    <3>1. i \in 1 .. Len(uncs)
      BY <1>2, <1>5, <2>2
    <3>2. uncs[i] \in Uncs
      BY <1>5, <3>1, ElementOfSeq
    <3>3. e.ran = r /\ e.tmsi = m.ue
      BY <3>2 DEF Uncs
    <3>4. uncs' = [uncs EXCEPT ![i] = e]
      BY <1>1, <2>2
    <3> HIDE DEF e, i
    <3> QED
      BY <1>5, <3>1, <3>3, <3>4
  <2> QED
    BY <2>1, <2>2
<1>8. In(appq') = In(appq) \cup {m} /\ Apart(appq')
  BY <1>1, <1>2, <1>4, SameQueues, Put, PutApart
<1> HIDE DEF m, new, i
<1>9. ran2unc'[r] = i /\ \A s \in RanIds \ {r} : ran2unc'[s] = ran2unc[s]
  BY <1>1, <1>2, <1>5
<1> HIDE DEF r
<1>10. \A s \in RanIds \ {r} : \A v :
         /\ Known(s, v) => Known(s, v)'
         /\ \A c : Bound(s, v, c) => Bound(s, v, c)'
  BY <1>1, <1>5, <1>6, <1>7, <1>9 DEF Known, Bound
<1>11. OneStage'
  <2>1. Disjoint(n2q', appq')
    BY <1>3, <1>8 DEF NgapInv, OneStage, Disjoint, Fresh, r
  <2>2. Disjoint(appq', n1q')
    BY <1>1, <1>4, <1>8 DEF NgapInv, OneStage, Disjoint, r
  <2> QED
    BY <1>1, <1>3, <1>8, <2>1, <2>2 DEF NgapInv, OneStage, Disjoint
<1>12. Stages'
  <2>1. \A x \in In(n2q') : x.type = "initial" => Waits(x.ran, x.ue)'
    BY <1>1, <1>3 DEF NgapInv, Stages, Waits
  <2>2. \A x \in In(appq') : Waits(x.ran, x.ue)' /\ Known(x.ran, x.ue)'
    <3>1. \A x \in In(appq) : Waits(x.ran, x.ue)' /\ Known(x.ran, x.ue)'
      BY <1>1, <1>4, <1>10, QueueFacts DEF NgapInv, Stages, Waits, Fresh, Staged
    <3>2. Waits(r, m.ue) /\ m.ran = r
      BY <1>4 DEF r
    <3>3. gnb'[r].ue = m.ue /\ gnb'[r].amf = 0
      BY <1>1, <3>2 DEF Waits
    <3>4. ran2unc'[r] # 0 /\ uncs'[ran2unc'[r]].ran = r /\ uncs'[ran2unc'[r]].tmsi = m.ue
      BY <1>6, <1>7, <1>9
    <3>5. \A x : x = m => Waits(x.ran, x.ue)' /\ Known(x.ran, x.ue)'
      BY <3>2, <3>3, <3>4 DEF Waits, Known
    <3> QED
      BY <1>8, <3>1, <3>5
  <2>3. \A x \in In(n1q') : x.type = "initial" => Waits(x.ran, x.ue)' /\ Bound(x.ran, x.ue, x.amf)'
    BY <1>1, <1>4, <1>10, QueueFacts DEF NgapInv, Stages, Waits, Fresh, Staged
  <2>4. \A x \in In(n2q') : x.type = "setup" =>
          gnb'[x.ran].ue \in Ues /\ gnb'[x.ran].amf = 0 /\ Bound(x.ran, gnb[x.ran].ue, x.amf)'
    <3>1. \A x \in In(n2q') : x.type = "setup" => x \in In(n2q) /\ x.ran # r
      BY <1>3 DEF Fresh, Staged
    <3>2. \A x \in In(n2q) : x.type = "setup" =>
            gnb[x.ran].ue \in Ues /\ gnb[x.ran].amf = 0 /\ Bound(x.ran, gnb[x.ran].ue, x.amf)
      BY DEF NgapInv, Stages
    <3> QED
      BY <1>1, <1>10, <3>1, <3>2, QueueFacts
  <2>5. \A s \in RanIds : gnb'[s].amf # 0 =>
          gnb'[s].ue \in Ues /\ Bound(s, gnb[s].ue, gnb[s].amf)'
    BY <1>1, <1>4, <1>10 DEF NgapInv, Stages, Waits
  <2> QED
    BY <2>1, <2>2, <2>3, <2>4, <2>5 DEF Stages
<1>13. Ends'
  <2>1. \A s \in RanIds, c \in DOMAIN uc : s # r /\ Over(c, s) => Over(c, s)'
    BY <1>1, <1>8 DEF Over, Fresh, r
  <2>2. \A x \in In(n2q') : x.type = "complete" => Over(x.amf, x.ran)'
    BY <1>3, <2>1, QueueFacts DEF NgapInv, Ends
  <2> QED
    BY <1>1, <1>3, <2>2 DEF Ends
<1>14. RanNames'
  BY <1>5, <1>6, <1>7, <1>9 DEF NgapInv, RanNames
<1> QED
  BY <1>11, <1>12, <1>13, <1>14 DEF NgapInv

\* The gNB learns the AMF UE NGAP ID.
LEMMA SetupContextNgap ==
  ASSUME Types, NgapInv, SetupContext
  PROVE  NgapInv'
<1> DEFINE m == Head(n2q)
<1>1. /\ n2q # <<>> /\ m.type = "setup" /\ n2 = NoWait /\ n2q' = Tail(n2q)
      /\ gnb' = [gnb EXCEPT ![m.ran].amf = m.amf] \/ gnb' = gnb
      /\ UNCHANGED <<link, gone, appq, n1q, n2, ngap, uc>>
  BY DEF SetupContext, N2Takes
<1>2. m \in In(n2q) /\ m.ran \in RanIds /\ m.amf \in DOMAIN uc /\ Staged(m)
  BY <1>1, HeadTypes, QueueFacts DEF Staged
<1>3. /\ In(n2q') \subseteq In(n2q) /\ Apart(n2q') /\ Ended(n2q') /\ Fresh(n2q', m.ran)
      /\ \A x \in In(n2q) : x.type = "complete" => x.ran # m.ran
  BY <1>1, <1>2, TookN2
<1>4. Fresh(appq, m.ran) /\ Fresh(n1q, m.ran)
  BY <1>2 DEF NgapInv, OneStage, Disjoint
<1>5. gnb[m.ran].ue \in Ues /\ Bound(m.ran, gnb[m.ran].ue, m.amf)
  BY <1>1, <1>2 DEF NgapInv, Stages
<1> HIDE DEF m
<1>6. CASE gnb' = gnb
  BY <1>1, <1>6, N2Routine, RoutineKeeps DEF ran, m
<1>7. CASE gnb' = [gnb EXCEPT ![m.ran].amf = m.amf]
  <2>1. gnb'[m.ran].amf = m.amf /\ gnb'[m.ran].ue = gnb[m.ran].ue
        /\ \A s \in RanIds \ {m.ran} : gnb'[s] = gnb[s]
    BY <1>2, <1>7 DEF Types, RanTypes
  <2>2. OneStage'
    BY <1>1, <1>3 DEF NgapInv, OneStage, Disjoint
  <2>3. \A s, v : (Known(s, v)' <=> Known(s, v)) /\ \A d : Bound(s, v, d)' <=> Bound(s, v, d)
    BY <1>1 DEF Known, Bound, ngap
  <2>4. Stages'
    <3>1. \A x \in In(n2q') : x.type = "initial" => Waits(x.ran, x.ue)'
      BY <1>3, <2>1, QueueFacts DEF NgapInv, Stages, Waits, Fresh, Staged
    <3>2. \A x \in In(appq') : Waits(x.ran, x.ue)' /\ Known(x.ran, x.ue)'
      BY <1>1, <1>4, <2>1, <2>3, QueueFacts DEF NgapInv, Stages, Waits, Fresh, Staged
    <3>3. \A x \in In(n1q') : x.type = "initial" => Waits(x.ran, x.ue)' /\ Bound(x.ran, x.ue, x.amf)'
      BY <1>1, <1>4, <2>1, <2>3, QueueFacts DEF NgapInv, Stages, Waits, Fresh, Staged
    <3>4. \A x \in In(n2q') : x.type = "setup" =>
            gnb'[x.ran].ue \in Ues /\ gnb'[x.ran].amf = 0 /\ Bound(x.ran, gnb[x.ran].ue, x.amf)'
      <4>1. \A x \in In(n2q') : x.type = "setup" => x \in In(n2q) /\ x.ran # m.ran
        BY <1>3 DEF Fresh, Staged
      <4>2. \A x \in In(n2q) : x.type = "setup" =>
              gnb[x.ran].ue \in Ues /\ gnb[x.ran].amf = 0 /\ Bound(x.ran, gnb[x.ran].ue, x.amf)
        BY DEF NgapInv, Stages
      <4> QED
        BY <2>1, <2>3, <4>1, <4>2, QueueFacts
    <3>5. \A s \in RanIds : gnb'[s].amf # 0 =>
            gnb'[s].ue \in Ues /\ \A a : a = gnb'[s].amf => Bound(s, gnb[s].ue, a)
      BY <1>5, <2>1 DEF NgapInv, Stages
    <3>6. \A s \in RanIds : gnb'[s].amf # 0 =>
            gnb'[s].ue \in Ues /\ Bound(s, gnb[s].ue, gnb[s].amf)'
      BY <2>1, <2>3, <3>5
    <3> QED
      BY <3>1, <3>2, <3>3, <3>4, <3>6 DEF Stages
  <2>5. Ends'
    <3>1. \A s \in RanIds, d \in DOMAIN uc : s # m.ran /\ Over(d, s) => Over(d, s)'
      BY <1>1, <2>1 DEF Over
    <3>2. \A x \in In(n2q') : x.type = "complete" => Over(x.amf, x.ran)'
      BY <1>3, <3>1, QueueFacts DEF NgapInv, Ends
    <3> QED
      BY <1>1, <1>3, <3>2 DEF Ends
  <2>6. RanNames'
    BY <1>1 DEF NgapInv, RanNames, ngap
  <2> QED
    BY <2>2, <2>4, <2>5, <2>6 DEF NgapInv
<1> QED
  BY <1>1, <1>6, <1>7

\* The NGAP context of an ended connection is removed: it is nobody else's.
LEMMA RemovedNgap ==
  ASSUME Types, NgapInv, NEW c \in DOMAIN uc, NEW r \in RanIds, RemovedUnc(c, r), Over(c, r),
         \A x \in In(n2q) : x.type = "setup" => x.ran # r,
         UNCHANGED <<gnb, appq, n1q, uc>>,
         In(n2q') \subseteq In(n2q), Apart(n2q'), Ended(n2q'), n2' = NoWait
  PROVE  NgapInv'
<1>1. /\ amf2unc' = [amf2unc EXCEPT ![c] = 0] /\ ran2unc' = [ran2unc EXCEPT ![r] = 0]
      /\ uncs' = uncs
  BY DEF RemovedUnc
<1>2. uc[c].ran = r /\ gnb[r].amf = 0 /\ Fresh(appq, r) /\ Fresh(n1q, r)
  BY DEF Over
<1>3. ran2unc \in [RanIds -> 0 .. Len(uncs)] /\ amf2unc \in [Conns -> 0 .. Len(uncs)]
      /\ DOMAIN uc \subseteq Conns
  BY Sizes DEF Types, NgapTypes
<1>4. ran2unc'[r] = 0 /\ \A s \in RanIds \ {r} : ran2unc'[s] = ran2unc[s]
  BY <1>1, <1>3
<1>5. \A d \in DOMAIN uc \ {c} : amf2unc'[d] = amf2unc[d]
  BY <1>1, <1>3
<1>6. \A s \in RanIds \ {r} : \A v : /\ Known(s, v) => Known(s, v)'
                                /\ \A d : Bound(s, v, d) => Bound(s, v, d)'
  BY <1>1, <1>2, <1>4, <1>5 DEF Known, Bound
<1>7. OneStage'
  BY DEF NgapInv, OneStage, Disjoint
<1>8. Stages'
  <2>1. \A x \in In(n2q') : x.type = "initial" => Waits(x.ran, x.ue)'
    BY DEF NgapInv, Stages, Waits
  <2>2. \A x \in In(appq') : Waits(x.ran, x.ue)' /\ Known(x.ran, x.ue)'
    BY <1>2, <1>6, QueueFacts DEF NgapInv, Stages, Waits, Fresh, Staged
  <2>3. \A x \in In(n1q') : x.type = "initial" => Waits(x.ran, x.ue)' /\ Bound(x.ran, x.ue, x.amf)'
    BY <1>2, <1>6, QueueFacts DEF NgapInv, Stages, Waits, Fresh, Staged
  <2>4. \A x \in In(n2q') : x.type = "setup" =>
          gnb'[x.ran].ue \in Ues /\ gnb'[x.ran].amf = 0 /\ Bound(x.ran, gnb[x.ran].ue, x.amf)'
    <3>1. \A x \in In(n2q) : x.type = "setup" =>
            gnb[x.ran].ue \in Ues /\ gnb[x.ran].amf = 0 /\ Bound(x.ran, gnb[x.ran].ue, x.amf)
      BY DEF NgapInv, Stages
    <3> QED
      BY <1>6, <3>1, QueueFacts
  <2>5. \A s \in RanIds : gnb'[s].amf # 0 =>
          gnb'[s].ue \in Ues /\ Bound(s, gnb[s].ue, gnb[s].amf)'
    BY <1>2, <1>6 DEF NgapInv, Stages
  <2> QED
    BY <2>1, <2>2, <2>3, <2>4, <2>5 DEF Stages
<1>9. Ends'
  <2>1. \A x \in In(n2q') : x.type = "complete" => Over(x.amf, x.ran)'
    BY DEF NgapInv, Ends, Over
  <2> QED
    BY <2>1 DEF Ends
<1>10. RanNames'
  BY <1>1, <1>4 DEF NgapInv, RanNames
<1> QED
  BY <1>7, <1>8, <1>9, <1>10 DEF NgapInv

LEMMA CompleteNgap ==
  ASSUME Types, NgapInv, NEW i \in DOMAIN n2q, CompleteOld(n2q[i]) \/ CompleteCurrent(n2q[i])
  PROVE  NgapInv'
<1> DEFINE m == Head(n2q)
<1>1. n2q # <<>> /\ m = n2q[i] /\ m.type = "complete" /\ n2q' = Tail(n2q) /\ n2 = NoWait
  BY DEF CompleteOld, CompleteCurrent, Completes, N2Takes
<1>2. m \in In(n2q) /\ m.amf \in DOMAIN uc /\ m.ran \in RanIds
  BY <1>1, HeadTypes, QueueFacts
<1>3. Over(m.amf, m.ran)
  BY <1>1, <1>2 DEF NgapInv, Ends
<1>4. /\ In(n2q') \subseteq In(n2q) /\ Apart(n2q') /\ Ended(n2q')
      /\ \A x \in In(n2q) : x.type = "setup" => x.ran # m.ran
  BY <1>1, TookN2
<1> HIDE DEF m
<1>5. CASE CompleteOld(n2q[i])
  BY <1>1, <1>2, <1>3, <1>4, <1>5, RemovedNgap DEF CompleteOld, ran
<1>6. CASE CompleteCurrent(n2q[i])
  <2>1. /\ n2' = [amf |-> m.amf, ran |-> m.ran, ue |-> amf2nc[m.amf]]
        /\ UNCHANGED <<gnb, appq, n1q, uncs, ran2unc, amf2unc, uc>>
    BY <1>1, <1>6 DEF CompleteCurrent, ran, ngap
  <2>2. OneStage'
    BY <1>4, <2>1 DEF NgapInv, OneStage, Disjoint
  <2>3. Stages'
    BY <1>4, <2>1 DEF NgapInv, Stages, Waits, Known, Bound
  <2>4. Ends'
    <3>1. \A d, s : Over(d, s)' <=> Over(d, s)
      BY <2>1 DEF Over
    <3>2. n2'.amf = m.amf /\ n2'.ran = m.ran
      BY <2>1
    <3>3. Over(n2.amf, n2.ran)'
      BY <1>3, <2>1, <3>2 DEF Over
    <3> QED
      BY <1>4, <3>1, <3>2, <3>3 DEF NgapInv, Ends
  <2>5. RanNames'
    BY <2>1 DEF NgapInv, RanNames
  <2> QED
    BY <2>2, <2>3, <2>4, <2>5 DEF NgapInv
<1> QED
  BY <1>5, <1>6

LEMMA CompleteGoesIdleNgap ==
  ASSUME Types, NgapInv, CompleteGoesIdle
  PROVE  NgapInv'
<1>1. n2 \in N2Release /\ n2 # NoWait
  BY DEF CompleteGoesIdle, Types, QueueTypes, NoWait
<1>2. /\ n2' = [n2 EXCEPT !.ue = NoUe]
      /\ UNCHANGED <<gnb, n2q, appq, n1q, uncs, ran2unc, amf2unc, uc>>
  BY DEF CompleteGoesIdle, ran, ngap
<1>3. n2'.amf = n2.amf /\ n2'.ran = n2.ran
  BY <1>1, <1>2 DEF N2Release
<1>4. OneStage'
  BY <1>2 DEF NgapInv, OneStage, Disjoint
<1>5. Stages'
  BY <1>2 DEF NgapInv, Stages, Waits, Known, Bound
<1>6. Ends'
  <2>1. Over(n2.amf, n2.ran)'
    BY <1>1, <1>2, <1>3 DEF NgapInv, Ends, Over
  <2>2. \A x \in In(n2q') : x.type = "setup" => x.ran # n2'.ran
    BY <1>1, <1>2, <1>3 DEF NgapInv, Ends
  <2>3. Ended(n2q') /\ \A x \in In(n2q') : x.type = "complete" => Over(x.amf, x.ran)'
    BY <1>2 DEF NgapInv, Ends, Over
  <2> QED
    BY <2>1, <2>2, <2>3 DEF Ends
<1>7. RanNames'
  BY <1>2 DEF NgapInv, RanNames
<1> QED
  BY <1>4, <1>5, <1>6, <1>7 DEF NgapInv

LEMMA CompleteRemovesNgap ==
  ASSUME Types, NgapInv, CompleteRemoves
  PROVE  NgapInv'
<1>1. n2 \in N2Release /\ n2 # NoWait
  BY DEF CompleteRemoves, Types, QueueTypes
<1>2. n2.amf \in DOMAIN uc /\ n2.ran \in RanIds
  BY <1>1 DEF N2Release
<1>3. Over(n2.amf, n2.ran) /\ \A x \in In(n2q) : x.type = "setup" => x.ran # n2.ran
  BY <1>1 DEF NgapInv, Ends
<1> QED
  BY <1>2, <1>3, SameOrder, RemovedNgap DEF CompleteRemoves, ran

\* A connection gets its AMF UE NGAP ID.
LEMMA EstablishNgap ==
  ASSUME Types, NgapInv, Establish
  PROVE  NgapInv'
<1> DEFINE m == Head(appq)
           c == Len(uc) + 1
           r == m.ran
           i == ran2unc[r]
           z == [m EXCEPT !.amf = c]
           d == [ran |-> r, sessions |-> FALSE]
<1>1. /\ appq # <<>> /\ appq' = Tail(appq) /\ uc' = Append(uc, d)
      /\ uncs' = IF i = 0 THEN uncs ELSE [uncs EXCEPT ![i].amf = c]
      /\ amf2unc' = IF i = 0 THEN amf2unc ELSE [amf2unc EXCEPT ![c] = i]
      /\ n1q' = Append(n1q, z)
      /\ UNCHANGED <<gnb, n2q, n2, ran2unc>>
  BY DEF Establish, ran
<1>2. m \in Msgs /\ m \in In(appq) /\ r \in RanIds /\ m.ue \in Ues /\ m.type = "initial" /\ Staged(m)
  BY <1>1, HeadTypes, QueueFacts DEF Staged
<1>3. /\ Waits(r, m.ue) /\ Known(r, m.ue) /\ Fresh(n1q, r) /\ Apart(n1q)
      /\ \A x \in In(n2q) : Staged(x) => x.ran # r
  BY <1>2 DEF NgapInv, OneStage, Disjoint, Stages, Fresh
<1>4. In(appq') \subseteq In(appq) /\ Apart(appq') /\ Fresh(appq', r)
  BY <1>1, <1>2, SameQueues, Took, TookApart DEF NgapInv, OneStage
<1>5. c \in Conns /\ c \notin DOMAIN uc /\ c \in 0 .. MaxConns
  <2>1. Len(appq) > 0
    BY <1>1, SameQueues, Took
  <2> QED
    BY <2>1, Sizes DEF Conns
<1>6. z \in Msgs /\ z.type = "initial" /\ z.amf = c /\ z.ran = r /\ z.ue = m.ue
  <2> HIDE DEF c, m
  <2> QED
    BY <1>2, <1>5 DEF Msgs, r
<1>7. /\ DOMAIN uc' = 1 .. c /\ DOMAIN uc = 1 .. Len(uc) /\ uc'[c].ran = r
      /\ \A e \in DOMAIN uc : e \in DOMAIN uc' /\ uc'[e] = uc[e]
  <2>1. uc \in Seq(Ucs) /\ d \in Ucs
    BY <1>2, SameQueues DEF Ucs
  <2> HIDE DEF d
  <2>2. /\ DOMAIN uc' = 1 .. Len(uc) + 1 /\ uc'[Len(uc) + 1] = d
        /\ \A e \in 1 .. Len(uc) : uc'[e] = uc[e]
    BY <1>1, <2>1, AppendProperties, LenProperties
  <2> QED
    BY <2>2, Sizes DEF d
<1>8. /\ uncs \in Seq(Uncs) /\ DOMAIN uncs = 1 .. Len(uncs)
      /\ ran2unc \in [RanIds -> 0 .. Len(uncs)] /\ amf2unc \in [Conns -> 0 .. Len(uncs)]
  BY Sizes DEF Types, NgapTypes
<1>9. i # 0 /\ i \in 1 .. Len(uncs) /\ uncs[i].ran = r /\ uncs[i].tmsi = m.ue
  BY <1>2, <1>3, <1>8, Sizes DEF Known
<1>10. /\ uncs'[i] = [ran |-> r, amf |-> c, tmsi |-> m.ue]
       /\ \A j \in 1 .. Len(uncs) : j # i => uncs'[j] = uncs[j]
       /\ amf2unc'[c] = i /\ \A e \in DOMAIN uc : amf2unc'[e] = amf2unc[e]
  <2> DEFINE e == [uncs[i] EXCEPT !.amf = c]
  <2>1. uncs[i] \in Uncs
    BY <1>8, <1>9, ElementOfSeq
  <2>2. e = [ran |-> r, amf |-> c, tmsi |-> m.ue]
    BY <1>9, <2>1 DEF Uncs
  <2>3. uncs' = [uncs EXCEPT ![i] = e]
    BY <1>1, <1>9
  <2>4. amf2unc' = [amf2unc EXCEPT ![c] = i]
    BY <1>1, <1>9
  <2>5. DOMAIN uc \subseteq Conns
    BY Sizes
  <2> HIDE DEF e, c, i
  <2> QED
    BY <1>5, <1>8, <1>9, <2>2, <2>3, <2>4, <2>5
<1> HIDE DEF z
<1>11. In(n1q') = In(n1q) \cup {z} /\ Apart(n1q')
  BY <1>1, <1>3, <1>6, SameQueues, Put, PutApart
<1> HIDE DEF m, c, r, i, d
<1>12. \A s \in RanIds \ {r} : ran2unc[s] # 0 => ran2unc[s] # i /\ ran2unc[s] \in 1 .. Len(uncs)
  BY <1>8, <1>9, Sizes DEF NgapInv, RanNames
<1>13. \A s \in RanIds \ {r} : \A v :
         /\ Known(s, v) => Known(s, v)'
         /\ \A e : Bound(s, v, e) => Bound(s, v, e)'
  BY <1>1, <1>7, <1>10, <1>12 DEF Known, Bound
<1>14. \A x : x = z => Waits(x.ran, x.ue)' /\ Bound(x.ran, x.ue, x.amf)'
  <2>1. c \in DOMAIN uc'
    BY <1>5, <1>7 DEF Conns
  <2>2. ran2unc'[r] = i
    BY <1>1 DEF i
  <2>3. gnb'[r].ue = m.ue /\ gnb'[r].amf = 0
    BY <1>1, <1>3 DEF Waits
  <2> QED
    BY <1>6, <1>7, <1>9, <1>10, <2>1, <2>2, <2>3 DEF Waits, Bound
<1>15. OneStage'
  <2>1. Disjoint(n2q', appq')
    BY <1>1, <1>4 DEF NgapInv, OneStage, Disjoint, Fresh
  <2>2. Disjoint(n2q', n1q')
    BY <1>1, <1>3, <1>6, <1>11 DEF NgapInv, OneStage, Disjoint, Fresh
  <2>3. Disjoint(appq', n1q')
    BY <1>1, <1>4, <1>6, <1>11 DEF NgapInv, OneStage, Disjoint, Fresh
  <2> QED
    BY <1>1, <1>4, <1>11, <2>1, <2>2, <2>3 DEF NgapInv, OneStage
<1>16. Stages'
  <2>1. \A x \in In(n2q') : x.type = "initial" => Waits(x.ran, x.ue)'
    BY <1>1 DEF NgapInv, Stages, Waits
  <2>2. \A x \in In(appq') : Waits(x.ran, x.ue)' /\ Known(x.ran, x.ue)'
    BY <1>1, <1>4, <1>13, QueueFacts DEF NgapInv, Stages, Waits, Fresh, Staged
  <2>3. \A x \in In(n1q') : x.type = "initial" => Waits(x.ran, x.ue)' /\ Bound(x.ran, x.ue, x.amf)'
    BY <1>1, <1>3, <1>11, <1>13, <1>14, QueueFacts DEF NgapInv, Stages, Waits, Fresh, Staged
  <2>4. \A x \in In(n2q') : x.type = "setup" =>
          gnb'[x.ran].ue \in Ues /\ gnb'[x.ran].amf = 0 /\ Bound(x.ran, gnb[x.ran].ue, x.amf)'
    <3>1. \A x \in In(n2q') : x.type = "setup" => x \in In(n2q) /\ x.ran # r
      BY <1>1, <1>3 DEF Staged
    <3>2. \A x \in In(n2q) : x.type = "setup" =>
            gnb[x.ran].ue \in Ues /\ gnb[x.ran].amf = 0 /\ Bound(x.ran, gnb[x.ran].ue, x.amf)
      BY DEF NgapInv, Stages
    <3> QED
      BY <1>1, <1>13, <3>1, <3>2, QueueFacts
  <2>5. \A s \in RanIds : gnb'[s].amf # 0 =>
          gnb'[s].ue \in Ues /\ Bound(s, gnb[s].ue, gnb[s].amf)'
    BY <1>1, <1>3, <1>13 DEF NgapInv, Stages, Waits
  <2> QED
    BY <2>1, <2>2, <2>3, <2>4, <2>5 DEF Stages
<1>17. Ends'
  <2>1. \A s \in RanIds, e \in DOMAIN uc : Over(e, s) => Over(e, s)'
    <3>1. \A s : Fresh(appq, s) => s # r
      BY <1>2 DEF Fresh, r
    <3> QED
      BY <1>1, <1>4, <1>6, <1>7, <1>11, <3>1 DEF Over, Fresh
  <2>2. \A x \in In(n2q') : x.type = "complete" => Over(x.amf, x.ran)'
    BY <1>1, <2>1, QueueFacts DEF NgapInv, Ends
  <2>3. n2 # NoWait => n2.amf \in DOMAIN uc /\ n2.ran \in RanIds /\ Over(n2.amf, n2.ran)
    BY DEF Types, QueueTypes, NgapInv, Ends, N2Release
  <2>4. n2 # NoWait => Over(n2.amf, n2.ran)'
    BY <1>1, <2>1, <2>3
  <2> QED
    BY <1>1, <2>2, <2>4 DEF NgapInv, Ends
<1>18. RanNames'
  BY <1>1, <1>9, <1>10, <1>12 DEF NgapInv, RanNames, i
<1> QED
  BY <1>15, <1>16, <1>17, <1>18 DEF NgapInv

\* A Service Request leads to the set-up of its connection.
LEMMA HandleServiceNgap ==
  ASSUME Types, NgapInv, HandleService
  PROVE  NgapInv'
<1> DEFINE m == Head(n1q)
           s == Msg("setup", m.amf, m.ran)
           o == Msg("command", nc[m.ue].amf, nc[m.ue].ran)
           p == Append(n2q, o)
           r == m.ran
<1>1. /\ n1q # <<>> /\ m \in In(n1q) /\ m.type = "initial" /\ n1q' = Tail(n1q)
      /\ m.amf \in DOMAIN uc /\ m.ue \in Ues /\ r \in RanIds
      /\ s \in Msgs /\ s.type = "setup" /\ s.amf = m.amf /\ s.ran = r
      /\ o \in Msgs /\ o.type = "command"
      /\ p \in Seq(Msgs) /\ In(p) = In(n2q) \cup {o}
      /\ n2q' = Append(n2q, s) \/ n2q' = Append(p, s)
      /\ DOMAIN uc' = DOMAIN uc /\ \A d \in DOMAIN uc : uc'[d].ran = uc[d].ran
      /\ UNCHANGED <<ran, appq, n2, ngap>>
  <2>1. /\ m = Head(n1q) /\ s = Msg("setup", m.amf, m.ran)
        /\ o = Msg("command", nc[m.ue].amf, nc[m.ue].ran)
    OBVIOUS
  <2> HIDE DEF m, s, o
  <2>2. /\ n1q # <<>> /\ m \in In(n1q) /\ m.type = "initial" /\ n1q' = Tail(n1q)
        /\ m.amf \in DOMAIN uc /\ m.ue \in Ues /\ r \in RanIds
        /\ s \in Msgs /\ s.type = "setup" /\ s.amf = m.amf /\ s.ran = r
        /\ o \in Msgs /\ o.type = "command"
    BY <2>1, ServiceSends
  <2>3. p \in Seq(Msgs) /\ In(p) = In(n2q) \cup {o}
    BY <2>1, ServiceSends
  <2>4. n2q' = Append(n2q, s) \/ n2q' = Append(p, s)
    BY <2>1, ServiceSends
  <2>5. DOMAIN uc' = DOMAIN uc /\ \A d \in DOMAIN uc : uc'[d].ran = uc[d].ran
    BY <2>1, ServiceSends
  <2>6. UNCHANGED <<ran, appq, n2, ngap>>
    BY <2>1, ServiceSends
  <2> QED
    BY <2>2, <2>3, <2>4, <2>5, <2>6
<1> HIDE DEF m, s, o, r
<1>2. Fresh(n2q, r) /\ Fresh(appq, r) /\ Waits(r, m.ue) /\ Bound(r, m.ue, m.amf)
  BY <1>1 DEF NgapInv, OneStage, Disjoint, Stages, Fresh, Staged, r
<1>3. In(n1q') \subseteq In(n1q) /\ Apart(n1q') /\ Fresh(n1q', r)
  BY <1>1, TookN1 DEF m, r
<1>4. \A x \in In(n2q) : x.type = "complete" => x.ran # r
  BY <1>1 DEF NgapInv, Ends, Over, Fresh, Staged, r
<1>5. Apart(p) /\ Ended(p) /\ Fresh(p, r) /\ \A x \in In(p) : x.type = "complete" => x.ran # r
  <2>1. Apart(p) /\ Ended(p)
    BY <1>1, SameQueues, SameOrder, PutApart DEF Staged
  <2> HIDE DEF p
  <2> QED
    BY <1>1, <1>2, <1>4, <2>1 DEF Fresh, Staged
<1> HIDE DEF p
<1>6. /\ Apart(n2q') /\ Ended(n2q')
      /\ In(n2q') = In(n2q) \cup {s} \/ In(n2q') = In(n2q) \cup {o, s}
  <2>1. CASE n2q' = Append(n2q, s)
    <3>1. Apart(n2q') /\ Ended(n2q')
      BY <1>1, <1>2, <1>4, <2>1, SameQueues, SameOrder, PutApart DEF Staged
    <3>2. In(n2q') = In(n2q) \cup {s}
      BY <1>1, <2>1, SameQueues, Put
    <3> QED
      BY <3>1, <3>2
  <2>2. CASE n2q' = Append(p, s)
    <3>1. Apart(n2q') /\ Ended(n2q')
      BY <1>1, <1>5, <2>2, PutApart DEF Staged
    <3>2. In(n2q') = In(p) \cup {s}
      BY <1>1, <2>2, Put
    <3> QED
      BY <1>1, <3>1, <3>2
  <2> QED
    BY <1>1, <2>1, <2>2
<1>7. OneStage'
  <2>1. Disjoint(n2q', appq')
    BY <1>1, <1>2, <1>6 DEF NgapInv, OneStage, Disjoint, Staged
  <2>2. Disjoint(n2q', n1q')
    BY <1>1, <1>3, <1>6 DEF NgapInv, OneStage, Disjoint, Fresh, Staged
  <2>3. Disjoint(appq', n1q')
    BY <1>1, <1>3 DEF NgapInv, OneStage, Disjoint, Fresh
  <2> QED
    BY <1>1, <1>3, <1>6, <2>1, <2>2, <2>3 DEF NgapInv, OneStage
<1>8. \A t, v : /\ Waits(t, v)' <=> Waits(t, v)
                /\ Known(t, v)' <=> Known(t, v)
                /\ \A c : Bound(t, v, c) => Bound(t, v, c)'
  BY <1>1 DEF Waits, Known, Bound, ran, ngap
<1>9. Stages'
  <2>1. \A x \in In(n2q') : x.type = "initial" => Waits(x.ran, x.ue)'
    BY <1>1, <1>6, <1>8 DEF NgapInv, Stages
  <2>2. \A x \in In(appq') : Waits(x.ran, x.ue)' /\ Known(x.ran, x.ue)'
    BY <1>1, <1>8 DEF NgapInv, Stages
  <2>3. \A x \in In(n1q') : x.type = "initial" => Waits(x.ran, x.ue)' /\ Bound(x.ran, x.ue, x.amf)'
    BY <1>3, <1>8 DEF NgapInv, Stages
  <2>4. \A x \in In(n2q') : x.type = "setup" =>
          gnb[x.ran].ue \in Ues /\ gnb[x.ran].amf = 0 /\ Bound(x.ran, gnb[x.ran].ue, x.amf)
    BY <1>1, <1>2, <1>6 DEF NgapInv, Stages, Waits
  <2>5. \A t \in RanIds : gnb[t].amf # 0 =>
          gnb[t].ue \in Ues /\ Bound(t, gnb[t].ue, gnb[t].amf)
    BY DEF NgapInv, Stages
  <2>6. gnb' = gnb
    BY <1>1 DEF ran
  <2>7. \A x \in In(n2q') : x.type = "setup" =>
          gnb'[x.ran].ue \in Ues /\ gnb'[x.ran].amf = 0 /\ Bound(x.ran, gnb[x.ran].ue, x.amf)'
    BY <1>8, <2>4, <2>6
  <2>8. \A t \in RanIds : gnb'[t].amf # 0 =>
          gnb'[t].ue \in Ues /\ Bound(t, gnb[t].ue, gnb[t].amf)'
    BY <1>8, <2>5, <2>6
  <2> QED
    BY <2>1, <2>2, <2>3, <2>7, <2>8 DEF Stages
<1>10. Ends'
  <2>1. \A t \in RanIds, c \in DOMAIN uc : Over(c, t) => Over(c, t)'
    BY <1>1, <1>3 DEF Over, Fresh, ran
  <2>2. \A x \in In(n2q') : x.type = "complete" => Over(x.amf, x.ran)'
    BY <1>1, <1>6, <2>1, QueueFacts DEF NgapInv, Ends
  <2>3. n2 # NoWait => n2.amf \in DOMAIN uc /\ n2.ran \in RanIds /\ Over(n2.amf, n2.ran)
    BY DEF Types, QueueTypes, NgapInv, Ends, N2Release
  <2>4. n2 # NoWait => n2.ran # r
    BY <1>1, <2>3 DEF Over, Fresh, Staged, r
  <2>5. n2 # NoWait => \A x \in In(n2q') : x.type = "setup" => x.ran # n2.ran
    BY <1>1, <1>6, <2>4 DEF NgapInv, Ends
  <2> QED
    BY <1>1, <1>6, <2>1, <2>2, <2>3, <2>5 DEF Ends
<1>11. RanNames'
  BY <1>1 DEF NgapInv, RanNames, ngap
<1> QED
  BY <1>7, <1>9, <1>10, <1>11 DEF NgapInv

LEMMA InitNgap == Init => NgapInv
<1> SUFFICES ASSUME Init PROVE NgapInv
  OBVIOUS
<1> DEFINE First == 1 .. Cardinality(Ues)
<1>1. /\ gnb = [r \in RanIds |-> IF r \in First THEN [ue |-> UeAt(r), amf |-> r, asked |-> FALSE]
                                               ELSE Free]
      /\ n2q = <<>> /\ appq = <<>> /\ n1q = <<>> /\ n2 = NoWait
      /\ uncs = [c \in First |-> [ran |-> c, amf |-> c, tmsi |-> UeAt(c)]]
      /\ ran2unc = [r \in RanIds |-> IF r \in First THEN r ELSE 0]
      /\ amf2unc = [c \in Conns |-> IF c \in First THEN c ELSE 0]
      /\ uc = [c \in First |-> [ran |-> c, sessions |-> TRUE]]
  BY DEF Init
<1>2. /\ First \subseteq RanIds /\ First \subseteq Conns /\ 0 \notin First
      /\ \A c \in First : UeAt(c) \in Ues
  BY FirstUes, InitRanAssumption DEF Conns
<1> HIDE DEF First
<1>3. In(n2q) = {} /\ In(appq) = {} /\ In(n1q) = {}
      /\ (\A i \in DOMAIN n2q : FALSE) /\ (\A i \in DOMAIN appq : FALSE) /\ (\A i \in DOMAIN n1q : FALSE)
  BY <1>1, Nothing
<1>4. OneStage
  BY <1>3 DEF OneStage, Apart, Disjoint
<1>5. \A r \in RanIds : gnb[r].amf # 0 =>
        gnb[r].ue \in Ues /\ Bound(r, gnb[r].ue, gnb[r].amf)
  <2> SUFFICES ASSUME NEW r \in RanIds, gnb[r].amf # 0
               PROVE  gnb[r].ue \in Ues /\ Bound(r, gnb[r].ue, gnb[r].amf)
    OBVIOUS
  <2>1. r \in First
    BY <1>1 DEF Free
  <2>2. gnb[r].ue = UeAt(r) /\ gnb[r].amf = r /\ r # 0
    BY <1>1, <1>2, <2>1
  <2> QED
    BY <1>1, <1>2, <2>1, <2>2 DEF Bound
<1>6. Stages
  BY <1>3, <1>5 DEF Stages
<1>7. Ends
  BY <1>1, <1>3 DEF Ends, Ended
<1>8. RanNames
  BY <1>1 DEF RanNames
<1> QED
  BY <1>4, <1>6, <1>7, <1>8 DEF NgapInv

LEMMA NgapStep ==
  ASSUME Types, NgapInv, [Next]_vars
  PROVE  NgapInv'
<1>1. CASE UNCHANGED vars
  BY <1>1, SameOrder, RoutineKeeps DEF vars, ran, ngap, Routine
<1>2. ASSUME NEW u \in Ues, NEW r \in RanIds, NEW k \in Kinds, Attach(u, r, k) PROVE NgapInv'
  BY <1>2, AttachNgap
<1>3. CASE \/ \E r \in RanIds : Inactive(r)
           \/ \E u \in Ues : Leave(u)
           \/ \E t \in timers : Fire(t)
  BY <1>3, ExternalIsRoutine, RoutineKeeps
<1>4. CASE ReceiveInitial
  BY <1>4, ReceiveInitialNgap
<1>5. CASE ReceiveUplink \/ \E i \in DOMAIN n2q : CompleteUnknown(n2q[i])
  BY <1>5, N2Routine, RoutineKeeps
<1>6. CASE ReceiveReleaseRequest \/ SendReleaseCommand
  BY <1>6, ReleaseNgap
<1>7. CASE SetupContext
  BY <1>7, SetupContextNgap
<1>8. ASSUME NEW i \in DOMAIN n2q, CompleteOld(n2q[i]) \/ CompleteCurrent(n2q[i]) PROVE NgapInv'
  BY <1>8, CompleteNgap
<1>9. CASE CompleteGoesIdle \/ CompleteRemoves
  BY <1>9, CompleteGoesIdleNgap, CompleteRemovesNgap
<1>10. CASE Establish
  BY <1>10, EstablishNgap
<1>11. CASE HandleService
  BY <1>11, HandleServiceNgap
<1>12. CASE HandleInitialDeregistration \/ HandleDeregistration
            \/ HandleMobileTimeout \/ HandleImplicitTimeout
  BY <1>12, N1Routine, RoutineKeeps
<1> QED
  BY <1>1, <1>2, <1>3, <1>4, <1>5, <1>6, <1>7, <1>8, <1>9, <1>10, <1>11, <1>12
     DEF Next, N2Task, N1Task

\* A context the gNB uses is found by both of its ids (amf_n2.cpp), whatever
\* connections the tasks still end or open.
THEOREM NamesAgree == Spec => []NgapMapsAgree
<1>1. Types /\ NgapInv /\ [Next]_vars => Types' /\ NgapInv'
  BY TypesStep, NgapStep
<1>2. NgapInv => NgapMapsAgree
  BY DEF NgapInv, Stages, Bound, NgapMapsAgree
<1> QED
  BY <1>1, <1>2, InitTypes, InitNgap, PTL DEF Spec
================================================================================
