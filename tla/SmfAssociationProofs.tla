------------------------- MODULE SmfAssociationProofs --------------------------
(***************************************************************************)
(* What the PFCP associations of the SMF keep, for any number of UPFs, any *)
(* number of setups and responses and any number of retries.               *)
(*                                                                         *)
(* The invariants are proved in layers.  Every one of them needs to know   *)
(* which association a thread works on and that the graph leads from a UPF *)
(* to an association of that UPF (RefInv).                                 *)
(***************************************************************************)
EXTENDS SmfAssociation, TLAPS, SequenceTheorems, FiniteSetTheorems

\* A thread that is between two accesses holds an association.
Handles ==
  /\ n4.at # "idle" => n4.obj \in DOMAIN objs
  /\ udp.at # "idle" => udp.obj \in DOMAIN objs

\* associations_graph: an association is found under its own UPF.
GraphNames == \A u \in Associated : objs[graph[u]].upf = u

RefInv == TypeOK /\ Handles /\ GraphNames

--------------------------------------------------------------------------------
(* An association that is rewritten for the same UPF stays what it was for  *)
(* the threads and the graph.                                               *)
LEMMA ObjsType ==
  ASSUME TypeOK
  PROVE  /\ Len(objs) \in Nat /\ DOMAIN objs = 1 .. Len(objs)
         /\ \A i \in DOMAIN objs : objs[i] \in Assocs
  BY LenProperties, ElementOfSeq DEF TypeOK

LEMMA ObjsUpdate ==
  ASSUME TypeOK, NEW i \in DOMAIN objs, NEW a \in Assocs,
         objs' = [objs EXCEPT ![i] = a]
  PROVE  /\ objs' \in Seq(Assocs) /\ Len(objs') = Len(objs)
         /\ DOMAIN objs' = DOMAIN objs
         /\ objs'[i] = a
         /\ \A j \in DOMAIN objs \ {i} : objs'[j] = objs[j]
<1>1. i \in 1 .. Len(objs) /\ objs \in Seq(Assocs)
  BY ObjsType DEF TypeOK
<1>2. objs' \in Seq(Assocs) /\ Len(objs') = Len(objs)
  BY <1>1, ExceptSeq
<1> QED
  BY <1>1, <1>2, LenProperties

LEMMA ObjsAppend ==
  ASSUME TypeOK, NEW a \in Assocs, objs' = Append(objs, a)
  PROVE  /\ objs' \in Seq(Assocs) /\ Len(objs') = Len(objs) + 1
         /\ DOMAIN objs' = 1 .. Len(objs) + 1
         /\ objs'[Len(objs) + 1] = a
         /\ \A j \in DOMAIN objs : objs'[j] = objs[j]
<1>1. objs \in Seq(Assocs)
  BY DEF TypeOK
<1>2. objs' \in Seq(Assocs) /\ Len(objs') = Len(objs) + 1
  BY <1>1, AppendProperties
<1>3. objs'[Len(objs) + 1] = a /\ \A j \in DOMAIN objs : objs'[j] = objs[j]
  BY <1>1, AppendProperties, ObjsType
<1> QED
  BY <1>2, <1>3, LenProperties

\* The next TIME_OUT, and the rest of the queue.
LEMMA QueueHead ==
  ASSUME TypeOK, queue # <<>>
  PROVE  /\ Head(queue) \in Timers /\ Tail(queue) \in Seq(Timers)
         /\ Head(queue) = queue[1] /\ 1 \in DOMAIN queue
         /\ \A k \in DOMAIN queue : k # 1 =>
              k - 1 \in DOMAIN Tail(queue) /\ Tail(queue)[k - 1] = queue[k]
<1>1. queue \in Seq(Timers) /\ Len(queue) \in Nat /\ DOMAIN queue = 1 .. Len(queue)
  BY LenProperties DEF TypeOK
<1>2. /\ Head(queue) \in Timers /\ Tail(queue) \in Seq(Timers)
      /\ Len(Tail(queue)) = Len(queue) - 1
      /\ \A k \in 1 .. Len(Tail(queue)) : Tail(queue)[k] = queue[k + 1]
  BY <1>1, HeadTailProperties
<1>3. Len(queue) # 0
  BY <1>1, EmptySeq
<1>4. DOMAIN Tail(queue) = 1 .. Len(Tail(queue))
  BY <1>2, LenProperties
<1>5. Head(queue) = queue[1]
  BY <1>1
<1>6. ASSUME NEW k \in DOMAIN queue, k # 1
      PROVE  k - 1 \in DOMAIN Tail(queue) /\ Tail(queue)[k - 1] = queue[k]
  <2>1. k - 1 \in 1 .. Len(Tail(queue)) /\ (k - 1) + 1 = k
    BY <1>1, <1>2, <1>6
  <2> QED
    BY <1>2, <1>4, <2>1
<1> QED
  BY <1>1, <1>2, <1>3, <1>5, <1>6

--------------------------------------------------------------------------------
(* Types, handles and names are kept by each step.                          *)
LEMMA RefInit == Init => RefInv
  BY AssociationAssumption, EmptySeq
  DEF Init, RefInv, TypeOK, Handles, GraphNames, Associated, Idle, Threads

\* timer_setup for an association: its new id, under the hash of its UPF.
LEMMA ArmKeepsRefs ==
  ASSUME RefInv, NEW i \in DOMAIN objs, NEW arg \in TimerArgs, Arm(i, arg)
  PROVE  /\ objs' \in Seq(Assocs) /\ Len(objs') = Len(objs) /\ DOMAIN objs' = DOMAIN objs
         /\ \A j \in DOMAIN objs : objs'[j].upf = objs[j].upf /\ objs'[j].retries = objs[j].retries
         /\ \A j \in DOMAIN objs : objs'[j].timer = IF j = i THEN lastTimer + 1 ELSE objs[j].timer
         /\ timers' \subseteq Timers /\ lastTimer' \in Nat
<1> DEFINE a == [objs[i] EXCEPT !.timer = lastTimer + 1]
<1>1. objs[i] \in Assocs /\ lastTimer \in Nat
  BY ObjsType DEF RefInv, TypeOK
<1>2. /\ a \in Assocs
      /\ a.upf = objs[i].upf /\ a.retries = objs[i].retries /\ a.timer = lastTimer + 1
  BY <1>1 DEF Assocs
<1>3. objs' = [objs EXCEPT ![i] = a]
  BY DEF Arm
<1> HIDE DEF a
<1>4. /\ objs' \in Seq(Assocs) /\ Len(objs') = Len(objs) /\ DOMAIN objs' = DOMAIN objs
      /\ objs'[i] = a /\ \A j \in DOMAIN objs \ {i} : objs'[j] = objs[j]
  BY <1>2, <1>3, ObjsUpdate DEF RefInv
<1>5. Hash[objs[i].upf] \in 0 .. SizeMod - 1
  BY <1>1, AssociationAssumption DEF Assocs
<1>6. timers' \subseteq Timers /\ lastTimer' \in Nat
  BY <1>1, <1>5 DEF Arm, Timers, RefInv, TypeOK
<1> QED
  BY <1>2, <1>4, <1>6

\* An update of an association that leaves its UPF and its timer alone.
LEMMA UpdateKeepsRefs ==
  ASSUME RefInv, NEW i \in DOMAIN objs, NEW a \in Assocs,
         a.upf = objs[i].upf, a.timer = objs[i].timer, objs' = [objs EXCEPT ![i] = a]
  PROVE  /\ objs' \in Seq(Assocs) /\ Len(objs') = Len(objs) /\ DOMAIN objs' = DOMAIN objs
         /\ \A j \in DOMAIN objs : objs'[j].upf = objs[j].upf /\ objs'[j].timer = objs[j].timer
         /\ \A j \in DOMAIN objs : objs'[j].retries = IF j = i THEN a.retries ELSE objs[j].retries
  BY ObjsUpdate DEF RefInv

\* A TIME_OUT that finds an association by its hash.
LEMMA FoundUpf ==
  ASSUME RefInv, NEW h, NEW u \in Found(h)
  PROVE  /\ u \in Upfs /\ u \in Associated /\ Hash[u] = h
         /\ graph[u] \in DOMAIN objs /\ objs[graph[u]] \in Assocs /\ objs[graph[u]].upf = u
<1>1. u \in Upfs /\ u \in Associated /\ Hash[u] = h /\ graph[u] # 0
  BY DEF Found, Associated
<1>2. graph[u] \in 0 .. Len(objs)
  BY <1>1 DEF RefInv, TypeOK
<1> QED
  BY <1>1, <1>2, ObjsType DEF RefInv, GraphNames

\* initiate_heartbeat_request and timeout_heartbeat_request: the association
\* that is found is given another number of retries.
LEMMA RetriesSet ==
  ASSUME RefInv, NEW u \in Found(Head(queue).hash), NEW r \in 0 .. MaxRetries,
         objs' = [objs EXCEPT ![graph[u]].retries = r]
  PROVE  /\ objs' \in Seq(Assocs) /\ Len(objs') = Len(objs) /\ DOMAIN objs' = DOMAIN objs
         /\ \A j \in DOMAIN objs : objs'[j].upf = objs[j].upf /\ objs'[j].timer = objs[j].timer
         /\ \A j \in DOMAIN objs : objs'[j].retries = IF j = graph[u] THEN r ELSE objs[j].retries
<1> DEFINE i == graph[u]
           a == [objs[i] EXCEPT !.retries = r]
<1>1. i \in DOMAIN objs /\ objs[i] \in Assocs
  BY FoundUpf
<1>2. a \in Assocs /\ a.upf = objs[i].upf /\ a.timer = objs[i].timer /\ a.retries = r
  BY <1>1 DEF Assocs
<1>3. objs' = [objs EXCEPT ![i] = a]
  OBVIOUS
<1> HIDE DEF a, i
<1>4. /\ objs' \in Seq(Assocs) /\ Len(objs') = Len(objs) /\ DOMAIN objs' = DOMAIN objs
      /\ \A j \in DOMAIN objs : objs'[j].upf = objs[j].upf /\ objs'[j].timer = objs[j].timer
      /\ \A j \in DOMAIN objs : objs'[j].retries = IF j = i THEN r ELSE objs[j].retries
  BY <1>1, <1>2, <1>3, UpdateKeepsRefs
<1> QED
  BY <1>4 DEF i

\* What a step that adds no association needs to show.
LEMMA SameObjectsKeepRefs ==
  ASSUME RefInv, TypeOK', Handles', DOMAIN objs' = DOMAIN objs,
         \A j \in DOMAIN objs : objs'[j].upf = objs[j].upf,
         \A u \in Upfs : graph'[u] \in {0, graph[u]}
  PROVE  RefInv'
<1>1. \A u \in Associated' : u \in Associated /\ graph'[u] = graph[u] /\ graph[u] \in DOMAIN objs
  BY ObjsType DEF Associated, RefInv, TypeOK
<1>2. GraphNames'
  BY <1>1 DEF GraphNames, RefInv
<1> QED
  BY <1>2 DEF RefInv

LEMMA RefStep == RefInv /\ [Next]_vars => RefInv'
<1> SUFFICES ASSUME RefInv, [Next]_vars
             PROVE  RefInv'
  OBVIOUS
<1> USE AssociationAssumption
<1>0. TypeOK /\ Handles /\ GraphNames
  BY DEF RefInv
<1>a. /\ Len(objs) \in Nat /\ DOMAIN objs = 1 .. Len(objs)
      /\ \A i \in DOMAIN objs : objs[i] \in Assocs
  BY <1>0, ObjsType
<1>1. ASSUME NEW t \in timers, Fire(t)
      PROVE  RefInv'
  <2>1. queue' \in Seq(Timers)
    BY <1>0, <1>1, AppendProperties DEF TypeOK, Fire
  <2>2. TypeOK' /\ Handles'
    BY <1>0, <1>1, <2>1 DEF TypeOK, Handles, Fire, budget, ghosts
  <2> QED
    BY <1>1, <2>2, SameObjectsKeepRefs DEF Fire
<1>2. ASSUME NEW arg \in TimerArgs, Dropped(arg)
      PROVE  RefInv'
  <2>1. queue' \in Seq(Timers)
    BY <1>0, <1>2, QueueHead DEF Dropped, Take
  <2>2. TypeOK' /\ Handles'
    BY <1>0, <1>2, <2>1 DEF TypeOK, Handles, Dropped, budget, ghosts
  <2> QED
    BY <1>2, <2>2, SameObjectsKeepRefs DEF Dropped
<1>3. CASE InitiateHeartbeat
  <2>1. PICK u \in Found(Head(queue).hash) :
          /\ objs' = [objs EXCEPT ![graph[u]].retries = 0]
          /\ n4' = [at |-> "arm", obj |-> graph[u]]
    BY <1>3 DEF InitiateHeartbeat
  <2>2. queue' \in Seq(Timers) /\ UNCHANGED <<graph, timers, lastTimer, lastTrxn, unanswered, udp, budget, ghosts>>
    BY <1>0, <1>3, QueueHead DEF InitiateHeartbeat, Take
  <2>3. /\ objs' \in Seq(Assocs) /\ Len(objs') = Len(objs) /\ DOMAIN objs' = DOMAIN objs
        /\ \A j \in DOMAIN objs : objs'[j].upf = objs[j].upf
    <3>1. 0 \in 0 .. MaxRetries
      OBVIOUS
    <3> QED
      BY <2>1, <3>1, RetriesSet
  <2>4. /\ n4' \in Threads /\ n4'.at = "arm" /\ n4'.obj \in DOMAIN objs'
        /\ n4'.obj <= Len(objs')
    BY <1>a, <2>1, <2>3, FoundUpf DEF Threads
  <2>5. TypeOK' /\ Handles'
    BY <1>0, <2>2, <2>3, <2>4 DEF TypeOK, Handles, budget, ghosts
  <2> QED
    BY <2>2, <2>3, <2>5, SameObjectsKeepRefs
<1>4. CASE RetryHeartbeat
  <2>1. PICK u \in Found(Head(queue).hash) :
          /\ RetriesLeft(graph[u])
          /\ objs' = [objs EXCEPT ![graph[u]].retries = @ + 1]
          /\ n4' = [at |-> "arm", obj |-> graph[u]]
    BY <1>4 DEF RetryHeartbeat
  <2>2. queue' \in Seq(Timers) /\ UNCHANGED <<graph, timers, lastTimer, lastTrxn, unanswered, udp, budget, ghosts>>
    BY <1>0, <1>4, QueueHead DEF RetryHeartbeat, Take
  <2>3. graph[u] \in DOMAIN objs /\ objs[graph[u]].retries + 1 \in 0 .. MaxRetries
    BY <2>1, FoundUpf DEF RetriesLeft, Assocs
  <2>4. /\ objs' \in Seq(Assocs) /\ Len(objs') = Len(objs) /\ DOMAIN objs' = DOMAIN objs
        /\ \A j \in DOMAIN objs : objs'[j].upf = objs[j].upf
    BY <2>1, <2>3, RetriesSet
  <2>5. /\ n4' \in Threads /\ n4'.at = "arm" /\ n4'.obj \in DOMAIN objs'
        /\ n4'.obj <= Len(objs')
    BY <1>a, <2>1, <2>3, <2>4 DEF Threads
  <2>6. TypeOK' /\ Handles'
    BY <1>0, <2>2, <2>4, <2>5 DEF TypeOK, Handles, budget, ghosts
  <2> QED
    BY <2>2, <2>4, <2>6, SameObjectsKeepRefs
<1>5. CASE FailAssociation
  <2>1. PICK u \in Found(Head(queue).hash) :
          /\ failed' = failed \cup {graph[u]}
          /\ graph' = [v \in Upfs |-> IF v \in Found(Int32(Hash[u])) THEN 0 ELSE graph[v]]
    BY <1>5 DEF FailAssociation
  <2>2. queue' \in Seq(Timers) /\ UNCHANGED <<objs, timers, lastTimer, lastTrxn, unanswered, n4, udp, budget, sent>>
    BY <1>0, <1>5, QueueHead DEF FailAssociation, Take
  <2>3. graph[u] \in DOMAIN objs
    BY <2>1, FoundUpf
  <2>4. graph' \in [Upfs -> 0 .. Len(objs)] /\ \A v \in Upfs : graph'[v] \in {0, graph[v]}
    BY <1>0, <1>a, <2>1 DEF TypeOK
  <2>5. TypeOK' /\ Handles'
    BY <1>0, <2>1, <2>2, <2>3, <2>4 DEF TypeOK, Handles, budget
  <2> QED
    BY <2>2, <2>4, <2>5, SameObjectsKeepRefs
<1>6. CASE SendRelease
  <2>1. queue' \in Seq(Timers)
    BY <1>0, <1>6, QueueHead DEF SendRelease, Take
  <2>2. TypeOK' /\ Handles'
    BY <1>0, <1>6, <2>1 DEF TypeOK, Handles, SendRelease, budget, ghosts
  <2> QED
    BY <1>6, <2>2, SameObjectsKeepRefs DEF SendRelease
<1>7. CASE ArmTimeout
  <2>1. n4.obj \in DOMAIN objs
    BY <1>0, <1>7 DEF ArmTimeout, Handles
  <2>2. /\ objs' \in Seq(Assocs) /\ Len(objs') = Len(objs) /\ DOMAIN objs' = DOMAIN objs
        /\ \A j \in DOMAIN objs : objs'[j].upf = objs[j].upf
        /\ timers' \subseteq Timers /\ lastTimer' \in Nat
    BY <1>7, <2>1, ArmKeepsRefs DEF ArmTimeout, TimerArgs
  <2>3. n4' = [at |-> "send", obj |-> n4.obj]
    BY <1>0, <1>7 DEF ArmTimeout, TypeOK, Threads
  <2>4. TypeOK' /\ Handles'
    BY <1>0, <1>7, <2>1, <2>2, <2>3 DEF TypeOK, Handles, ArmTimeout, Threads, budget, ghosts
  <2> QED
    BY <1>7, <2>2, <2>4, SameObjectsKeepRefs DEF ArmTimeout
<1>8. CASE SendHeartbeat
  <2> DEFINE a == [objs[n4.obj] EXCEPT !.trxn = lastTrxn + 1]
  <2>1. n4.obj \in DOMAIN objs /\ objs[n4.obj] \in Assocs /\ lastTrxn \in Nat
    BY <1>0, <1>a, <1>8 DEF SendHeartbeat, Handles, TypeOK
  <2>2. a \in Assocs /\ a.upf = objs[n4.obj].upf /\ a.timer = objs[n4.obj].timer
    BY <2>1 DEF Assocs
  <2>3. objs' = [objs EXCEPT ![n4.obj] = a]
    BY <1>8 DEF SendHeartbeat
  <2> HIDE DEF a
  <2>4. /\ objs' \in Seq(Assocs) /\ Len(objs') = Len(objs) /\ DOMAIN objs' = DOMAIN objs
        /\ \A j \in DOMAIN objs : objs'[j].upf = objs[j].upf
    BY <2>1, <2>2, <2>3, UpdateKeepsRefs
  <2>5. sent' \in [DOMAIN objs -> Nat] /\ unanswered' \subseteq 1 .. lastTrxn' /\ lastTrxn' \in Nat
    <3>1. /\ sent' = [sent EXCEPT ![n4.obj] = @ + 1] /\ sent \in [DOMAIN objs -> Nat]
          /\ lastTrxn' = lastTrxn + 1 /\ unanswered' = unanswered \cup {lastTrxn + 1}
          /\ unanswered \subseteq 1 .. lastTrxn
      BY <1>0, <1>8 DEF SendHeartbeat, TypeOK
    <3>2. sent[n4.obj] + 1 \in Nat
      BY <2>1, <3>1
    <3>3. sent' \in [DOMAIN objs -> Nat]
      BY <3>1, <3>2
    <3>4. lastTrxn + 1 \in Nat /\ 1 .. lastTrxn \subseteq 1 .. lastTrxn + 1
          /\ lastTrxn + 1 \in 1 .. lastTrxn + 1
      BY <2>1
    <3>5. unanswered' \subseteq 1 .. lastTrxn'
      <4>1. unanswered \cup {lastTrxn + 1} \subseteq 1 .. lastTrxn + 1
        BY <3>1, <3>4
      <4> QED
        BY <3>1, <4>1
    <3> QED
      BY <3>1, <3>3, <3>4, <3>5
  <2>6. /\ UNCHANGED <<graph, timers, queue, lastTimer, udp, budget, failed>>
        /\ n4' \in Threads /\ n4'.at = "idle" /\ n4'.obj <= Len(objs)
    BY <1>a, <1>8 DEF SendHeartbeat, Idle, Threads
  <2>7. TypeOK' /\ Handles'
    BY <1>0, <2>4, <2>5, <2>6 DEF TypeOK, Handles, budget
  <2> QED
    BY <2>4, <2>6, <2>7, SameObjectsKeepRefs
<1>9. ASSUME NEW x \in unanswered, ReceiveHeartbeatResponse(x)
      PROVE  RefInv'
  <2>1. udp' \in Threads /\ udp'.at \in {"idle", "disarm"} /\ udp'.obj <= Len(objs)
        /\ (udp'.at # "idle" => udp'.obj \in DOMAIN objs)
    BY <1>0, <1>a, <1>9 DEF ReceiveHeartbeatResponse, Idle, Threads, TypeOK, Associated
  <2>2. TypeOK' /\ Handles'
    BY <1>0, <1>9, <2>1 DEF TypeOK, Handles, ReceiveHeartbeatResponse, ghosts
  <2> QED
    BY <1>9, <2>2, SameObjectsKeepRefs DEF ReceiveHeartbeatResponse
<1>10. ASSUME NEW u \in Upfs, ReceiveSetupAgain(u)
       PROVE  RefInv'
  <2>1. graph[u] \in DOMAIN objs
    BY <1>0, <1>a, <1>10 DEF TypeOK, ReceiveSetupAgain
  <2>2. TypeOK' /\ Handles'
    BY <1>0, <1>a, <1>10, <2>1 DEF TypeOK, Handles, ReceiveSetupAgain, Threads, ghosts
  <2> QED
    BY <1>10, <2>2, SameObjectsKeepRefs DEF ReceiveSetupAgain
<1>11. ASSUME NEW u \in Upfs, ReceiveSetup(u)
       PROVE  RefInv'
  <2>1. CASE Full
    <3>1. TypeOK' /\ Handles' /\ UNCHANGED <<objs, graph>>
      BY <1>0, <1>11, <2>1 DEF TypeOK, Handles, ReceiveSetup
    <3> QED
      BY <3>1, SameObjectsKeepRefs
  <2>2. CASE ~Full
    <3> DEFINE a == [upf |-> u, timer |-> 0, trxn |-> 0, retries |-> 0]
    <3>1. a \in Assocs /\ a.upf = u
      BY DEF Assocs
    <3>2. /\ objs' = Append(objs, a) /\ graph' = [graph EXCEPT ![u] = Len(objs) + 1]
          /\ sent' = Append(sent, 0) /\ udp' = [at |-> "rearm", obj |-> Len(objs) + 1]
      BY <1>11, <2>2 DEF ReceiveSetup
    <3> HIDE DEF a
    <3>3. /\ objs' \in Seq(Assocs) /\ Len(objs') = Len(objs) + 1
          /\ DOMAIN objs' = 1 .. Len(objs) + 1
          /\ objs'[Len(objs) + 1] = a
          /\ \A j \in DOMAIN objs : objs'[j] = objs[j]
      BY <1>0, <3>1, <3>2, ObjsAppend
    <3>4. sent' \in [DOMAIN objs' -> Nat]
      <4>1. sent \in [1 .. Len(objs) -> Nat]
        BY <1>0, <1>a DEF TypeOK
      <4>2. sent \in Seq(Nat) /\ Len(sent) = Len(objs)
        BY <4>1, <1>a
      <4>3. sent' \in Seq(Nat) /\ Len(sent') = Len(objs) + 1
        BY <3>2, <4>2, AppendProperties
      <4> QED
        BY <3>3, <4>3, LenProperties
    <3>5. graph' \in [Upfs -> 0 .. Len(objs')]
      BY <1>0, <1>a, <3>2, <3>3 DEF TypeOK
    <3>6. /\ UNCHANGED <<timers, queue, lastTimer, lastTrxn, unanswered, n4, responses, failed>>
          /\ setups' \in 0 .. MaxSetups
      BY <1>0, <1>11 DEF ReceiveSetup, TypeOK
    <3>7. TypeOK' /\ Handles'
      BY <1>0, <1>a, <3>2, <3>3, <3>4, <3>5, <3>6 DEF TypeOK, Handles, Threads
    <3>8. GraphNames'
      <4> SUFFICES ASSUME NEW v \in Upfs, graph'[v] # 0
                   PROVE  objs'[graph'[v]].upf = v
        BY DEF GraphNames, Associated
      <4>1. CASE v = u
        BY <1>0, <3>1, <3>2, <3>3, <4>1 DEF TypeOK
      <4>2. CASE v # u
        <5>1. graph'[v] = graph[v] /\ v \in Associated /\ graph[v] \in DOMAIN objs
          BY <1>0, <1>a, <3>2, <4>2 DEF TypeOK, Associated
        <5> QED
          BY <1>0, <3>3, <5>1 DEF GraphNames
      <4> QED
        BY <4>1, <4>2
    <3> QED
      BY <3>7, <3>8 DEF RefInv
  <2> QED
    BY <2>1, <2>2
<1>12. ASSUME NEW u \in Upfs, ReceiveReleaseWish(u)
       PROVE  RefInv'
  <2>1. timers' \subseteq Timers /\ lastTimer' \in Nat
    BY <1>0, <1>12 DEF ReceiveReleaseWish, TypeOK, Timers, TimerArgs, Found, Associated
  <2>2. TypeOK' /\ Handles'
    BY <1>0, <1>12, <2>1 DEF TypeOK, Handles, ReceiveReleaseWish, ghosts
  <2> QED
    BY <1>12, <2>2, SameObjectsKeepRefs DEF ReceiveReleaseWish
<1>13. CASE Disarm
  <2>1. udp' = [at |-> "rearm", obj |-> udp.obj]
    BY <1>0, <1>13 DEF Disarm, TypeOK, Threads
  <2>2. TypeOK' /\ Handles'
    BY <1>0, <1>13, <2>1 DEF TypeOK, Handles, Disarm, RemoveTimer, Threads, budget, ghosts
  <2> QED
    BY <1>13, <2>2, SameObjectsKeepRefs DEF Disarm
<1>14. CASE Rearm
  <2>1. udp.obj \in DOMAIN objs
    BY <1>0, <1>14 DEF Rearm, Handles
  <2>2. /\ objs' \in Seq(Assocs) /\ Len(objs') = Len(objs) /\ DOMAIN objs' = DOMAIN objs
        /\ \A j \in DOMAIN objs : objs'[j].upf = objs[j].upf
        /\ timers' \subseteq Timers /\ lastTimer' \in Nat
    BY <1>14, <2>1, ArmKeepsRefs DEF Rearm, TimerArgs
  <2>3. TypeOK' /\ Handles'
    BY <1>0, <1>14, <2>2 DEF TypeOK, Handles, Rearm, Idle, Threads, budget, ghosts
  <2> QED
    BY <1>14, <2>2, <2>3, SameObjectsKeepRefs DEF Rearm
<1>15. CASE UNCHANGED vars
  <2>1. TypeOK' /\ Handles'
    BY <1>0, <1>15 DEF TypeOK, Handles, vars, budget, ghosts
  <2> QED
    BY <1>15, <2>1, SameObjectsKeepRefs DEF vars
<1> QED
  BY <1>1, <1>2, <1>3, <1>4, <1>5, <1>6, <1>7, <1>8, <1>9, <1>10, <1>11, <1>12, <1>13, <1>14, <1>15
  DEF Next, N4Task

(* The type invariant of the associations, whatever the two threads and the *)
(* timers do in between each other (smf_pfcp_association.cpp).              *)
THEOREM TypeCorrect == Spec => []TypeOK
<1>1. RefInv => TypeOK
  BY DEF RefInv
<1> QED
  BY <1>1, RefInit, RefStep, PTL DEF Spec

--------------------------------------------------------------------------------
(* The graph changes by a setup that finds room and by a failed heartbeat.  *)
Added(u) ==
  /\ ~Full /\ u \in Upfs /\ graph[u] = 0
  /\ graph' = [graph EXCEPT ![u] = Len(objs) + 1]
  /\ UNCHANGED failed

Gone(u) ==
  /\ u \in Upfs /\ graph[u] # 0
  /\ graph' = [v \in Upfs |-> IF v \in Found(Int32(Hash[u])) THEN 0 ELSE graph[v]]
  /\ failed' = failed \cup {graph[u]}

LEMMA GraphStep ==
  [Next]_vars => UNCHANGED <<graph, failed>> \/ \E u \in Upfs : Added(u) \/ Gone(u)
<1> SUFFICES ASSUME [Next]_vars
             PROVE  UNCHANGED <<graph, failed>> \/ \E u \in Upfs : Added(u) \/ Gone(u)
  OBVIOUS
<1>1. ASSUME NEW u \in Upfs, ReceiveSetup(u)
      PROVE  UNCHANGED <<graph, failed>> \/ Added(u)
  BY <1>1 DEF ReceiveSetup, Added
<1>2. CASE FailAssociation
  <2>1. PICK u \in Found(Head(queue).hash) :
          /\ failed' = failed \cup {graph[u]}
          /\ graph' = [v \in Upfs |-> IF v \in Found(Int32(Hash[u])) THEN 0 ELSE graph[v]]
    BY <1>2 DEF FailAssociation
  <2> QED
    BY <2>1 DEF Gone, Found, Associated
<1>3. CASE N4Task /\ ~FailAssociation
  BY <1>3 DEF N4Task, Dropped, InitiateHeartbeat, RetryHeartbeat, SendRelease, ArmTimeout,
              SendHeartbeat, ghosts
<1>4. CASE \/ \E t \in timers : Fire(t)
           \/ \E x \in unanswered : ReceiveHeartbeatResponse(x)
           \/ \E u \in Upfs : ReceiveSetupAgain(u) \/ ReceiveReleaseWish(u)
           \/ Disarm \/ Rearm \/ UNCHANGED vars
  BY <1>4 DEF Fire, ReceiveHeartbeatResponse, ReceiveSetupAgain, ReceiveReleaseWish, Disarm,
              Rearm, vars, ghosts
<1> QED
  BY <1>1, <1>2, <1>3, <1>4 DEF Next

CapacityInv == IsFiniteSet(Associated) /\ WithinCapacity

LEMMA CapacityInit == Init => CapacityInv
<1> SUFFICES ASSUME Init
             PROVE  CapacityInv
  OBVIOUS
<1>1. Associated = {}
  BY DEF Init, Associated
<1> QED
  BY <1>1, FS_EmptySet, AssociationAssumption DEF CapacityInv, WithinCapacity

LEMMA CapacityStep == RefInv /\ CapacityInv /\ [Next]_vars => CapacityInv'
<1> SUFFICES ASSUME RefInv, CapacityInv, [Next]_vars
             PROVE  CapacityInv'
  OBVIOUS
<1>0. graph \in [Upfs -> 0 .. Len(objs)] /\ Len(objs) \in Nat
  BY ObjsType DEF RefInv, TypeOK
<1>c. IsFiniteSet(Associated) /\ Cardinality(Associated) \in Nat
      /\ Cardinality(Associated) <= MaxAssociations
  BY FS_CardinalityType DEF CapacityInv, WithinCapacity
<1>1. CASE UNCHANGED graph
  BY <1>1 DEF CapacityInv, WithinCapacity, Associated
<1>2. ASSUME NEW u \in Upfs, Added(u)
      PROVE  CapacityInv'
  <2>1. Associated' = Associated \cup {u}
    BY <1>0, <1>2 DEF Added, Associated
  <2>2. IsFiniteSet(Associated') /\ Cardinality(Associated') <= Cardinality(Associated) + 1
    BY <1>c, <2>1, FS_AddElement
  <2>3. Cardinality(Associated') \in Nat
    BY <2>2, FS_CardinalityType
  <2>4. Cardinality(Associated) < MaxAssociations
    BY <1>c, <1>2, AssociationAssumption DEF Added, Full
  <2> QED
    BY <1>c, <2>2, <2>3, <2>4, AssociationAssumption DEF CapacityInv, WithinCapacity
<1>3. ASSUME NEW u \in Upfs, Gone(u)
      PROVE  CapacityInv'
  <2>1. Associated' \subseteq Associated
    BY <1>3 DEF Gone, Associated
  <2>2. IsFiniteSet(Associated') /\ Cardinality(Associated') <= Cardinality(Associated)
    BY <1>c, <2>1, FS_Subset
  <2>3. Cardinality(Associated') \in Nat
    BY <2>2, FS_CardinalityType
  <2> QED
    BY <1>c, <2>2, <2>3, AssociationAssumption DEF CapacityInv, WithinCapacity
<1> QED
  BY <1>1, <1>2, <1>3, GraphStep

(* PFCP_MAX_ASSOCIATIONS is never exceeded: add_association looks at the    *)
(* size of the graph before it adds, and nothing comes between.             *)
THEOREM GraphIsBounded == Spec => []WithinCapacity
<1>1. CapacityInv => WithinCapacity
  BY DEF CapacityInv
<1> QED
  BY <1>1, RefInit, RefStep, CapacityInit, CapacityStep, PTL DEF Spec

--------------------------------------------------------------------------------
(* The conversions of remove_association.  With ClearHashes the converted   *)
(* hash is never that of another UPF.                                       *)
ClearHashes == \A u, v \in Upfs : Int32(Hash[u]) = Hash[v] => u = v

LEMMA Remainder ==
  ASSUME NEW h \in Nat, NEW m \in Nat, h < m
  PROVE  h % m = h
<1>1. h \div m = 0
  OBVIOUS
<1> QED
  BY <1>1

LEMMA SurvivorIsKept ==
  ASSUME NEW h \in Nat, Survives(h)
  PROVE  Int32(h) = h
<1>1. 2 * Half \in Nat /\ h < Half /\ h < 2 * Half
  BY AssociationAssumption DEF Survives
<1>2. h % (2 * Half) = h
  BY <1>1, Remainder
<1> QED
  BY <1>1, <1>2 DEF Int32

\* std::hash of an IPv4 address is the address, 32 bits of a 64-bit size_t.
LEMMA AddressesAreClear ==
  ASSUME \A u \in Upfs : Hash[u] < 2 * Half, SizeMod >= 4 * Half
  PROVE  ClearHashes
<1> SUFFICES ASSUME NEW u \in Upfs, NEW v \in Upfs, Int32(Hash[u]) = Hash[v]
             PROVE  u = v
  BY DEF ClearHashes
<1>1. /\ Hash[u] \in Nat /\ Hash[v] \in Nat /\ Half \in Nat /\ SizeMod \in Nat
      /\ 2 * Half \in Nat /\ Hash[u] < 2 * Half /\ Hash[v] < 2 * Half
  BY AssociationAssumption
<1>2. Hash[u] % (2 * Half) = Hash[u]
  BY <1>1, Remainder
<1>3. Hash[u] < Half
  <2> SUFFICES ASSUME ~(Hash[u] < Half)
               PROVE  FALSE
    OBVIOUS
  <2>1. Hash[v] = Hash[u] + (SizeMod - 2 * Half)
    BY <1>2 DEF Int32
  <2> QED
    BY <1>1, <2>1
<1>4. Hash[v] = Hash[u]
  BY <1>1, <1>3, AssociationAssumption, SurvivorIsKept DEF Survives
<1> QED
  BY <1>4, AssociationAssumption

(* An association leaves the graph only when its own heartbeat has failed   *)
(* (timeout_heartbeat_request), whatever other UPFs are set up and whatever *)
(* time-outs an earlier association left behind, as long as no two UPFs are *)
(* confused by the conversion: IPv4 node ids never are.                     *)
THEOREM OnlyFailedLeave == ASSUME ClearHashes PROVE Spec => RemovedHasFailed
<1>1. RefInv /\ [Next]_vars =>
        \A u \in Upfs : graph[u] # 0 /\ graph'[u] # graph[u] => graph[u] \in failed'
  <2> SUFFICES ASSUME RefInv, [Next]_vars, NEW u \in Upfs, graph[u] # 0, graph'[u] # graph[u]
               PROVE  graph[u] \in failed'
    OBVIOUS
  <2>0. graph \in [Upfs -> 0 .. Len(objs)]
    BY DEF RefInv, TypeOK
  <2>1. \A v \in Upfs : ~Added(v)
    BY <2>0 DEF Added
  <2>2. PICK v \in Upfs : Gone(v)
    BY <2>1, GraphStep
  <2>3. u \in Found(Int32(Hash[v]))
    BY <2>2 DEF Gone
  <2>4. u = v
    BY <2>3 DEF Found, ClearHashes
  <2> QED
    BY <2>2, <2>4 DEF Gone
<1> QED
  BY <1>1, RefInit, RefStep, PTL DEF Spec, RemovedHasFailed

LEMMA FailedStep == RefInv /\ FailedIsRemoved /\ [Next]_vars => FailedIsRemoved'
<1> SUFFICES ASSUME RefInv, FailedIsRemoved, [Next]_vars
             PROVE  FailedIsRemoved'
  OBVIOUS
<1>0. /\ graph \in [Upfs -> 0 .. Len(objs)] /\ failed \subseteq 1 .. Len(objs)
      /\ Len(objs) \in Nat
  BY ObjsType DEF RefInv, TypeOK
<1>1. CASE UNCHANGED <<graph, failed>>
  BY <1>1 DEF FailedIsRemoved, Associated
<1>2. ASSUME NEW u \in Upfs, Added(u)
      PROVE  FailedIsRemoved'
  <2> SUFFICES ASSUME NEW v \in Upfs, graph'[v] # 0, graph'[v] \in failed'
               PROVE  ~Survives(Hash[v])
    BY DEF FailedIsRemoved, Associated
  <2>1. v # u
    BY <1>0, <1>2 DEF Added
  <2> QED
    BY <1>0, <1>2, <2>1 DEF Added, FailedIsRemoved, Associated
<1>3. ASSUME NEW u \in Upfs, Gone(u)
      PROVE  FailedIsRemoved'
  <2> SUFFICES ASSUME NEW v \in Upfs, graph'[v] # 0, graph'[v] \in failed', Survives(Hash[v])
               PROVE  FALSE
    BY DEF FailedIsRemoved, Associated
  <2>1. /\ u \in Associated /\ v \in Associated /\ graph'[v] = graph[v]
        /\ v \notin Found(Int32(Hash[u])) /\ failed' = failed \cup {graph[u]}
    BY <1>3 DEF Gone, Associated
  <2>2. v # u
    <3> SUFFICES ASSUME v = u
                 PROVE  FALSE
      OBVIOUS
    <3>1. Int32(Hash[u]) = Hash[u]
      BY SurvivorIsKept, AssociationAssumption
    <3> QED
      BY <2>1, <3>1 DEF Found
  <2>3. graph[v] # graph[u]
    BY <2>1, <2>2 DEF RefInv, GraphNames
  <2> QED
    BY <2>1, <2>3 DEF FailedIsRemoved
<1> QED
  BY <1>1, <1>2, <1>3, GraphStep

(* "Remove the association with this UPF": the graph holds no association   *)
(* that was reported as failed, but one whose hash does not survive the     *)
(* int32_t of remove_association (smf_pfcp_association.cpp:510).            *)
THEOREM FailedLeave == Spec => []FailedIsRemoved
<1>1. Init => FailedIsRemoved
  BY DEF Init, FailedIsRemoved, Associated
<1> QED
  BY <1>1, RefInit, RefStep, FailedStep, PTL DEF Spec

--------------------------------------------------------------------------------
(* Every retry but the one that is being sent has been sent.                *)
RetriesCounted ==
  \A i \in DOMAIN objs :
    objs[i].retries <= sent[i] + (IF n4.at # "idle" /\ n4.obj = i THEN 1 ELSE 0)

SentInv == RetriesCounted /\ FailureNeedsHeartbeats

LEMMA SentStep == RefInv /\ SentInv /\ [Next]_vars => SentInv'
<1> SUFFICES ASSUME RefInv, SentInv, [Next]_vars
             PROVE  SentInv'
  OBVIOUS
<1>0. /\ TypeOK /\ Len(objs) \in Nat /\ DOMAIN objs = 1 .. Len(objs)
      /\ failed \subseteq DOMAIN objs /\ sent \in [DOMAIN objs -> Nat]
      /\ \A i \in DOMAIN objs : objs[i].retries \in 0 .. MaxRetries
  BY ObjsType DEF RefInv, TypeOK, Assocs
<1>s. RetriesCounted /\ FailureNeedsHeartbeats /\ MaxRetries \in Nat
  BY AssociationAssumption DEF SentInv
<1>1. CASE /\ UNCHANGED <<failed, sent, n4>> /\ DOMAIN objs' = DOMAIN objs
           /\ \A j \in DOMAIN objs : objs'[j].retries = objs[j].retries
  BY <1>s, <1>1 DEF SentInv, RetriesCounted, FailureNeedsHeartbeats
<1>2. CASE InitiateHeartbeat
  <2>1. PICK u \in Found(Head(queue).hash) :
          /\ objs' = [objs EXCEPT ![graph[u]].retries = 0]
          /\ n4' = [at |-> "arm", obj |-> graph[u]]
    BY <1>2 DEF InitiateHeartbeat
  <2>2. n4 = Idle /\ UNCHANGED <<failed, sent>>
    BY <1>2 DEF InitiateHeartbeat, Take, ghosts
  <2>3. /\ DOMAIN objs' = DOMAIN objs
        /\ \A j \in DOMAIN objs : objs'[j].retries = IF j = graph[u] THEN 0 ELSE objs[j].retries
    <3>1. 0 \in 0 .. MaxRetries
      BY <1>s
    <3> QED
      BY <2>1, <3>1, RetriesSet
  <2>4. ASSUME NEW i \in DOMAIN objs
        PROVE  objs'[i].retries <= sent'[i] + (IF n4'.at # "idle" /\ n4'.obj = i THEN 1 ELSE 0)
    BY <1>0, <1>s, <2>1, <2>2, <2>3 DEF RetriesCounted, Idle
  <2> QED
    BY <1>s, <2>2, <2>3, <2>4 DEF SentInv, RetriesCounted, FailureNeedsHeartbeats
<1>3. CASE RetryHeartbeat
  <2>1. PICK u \in Found(Head(queue).hash) :
          /\ RetriesLeft(graph[u])
          /\ objs' = [objs EXCEPT ![graph[u]].retries = @ + 1]
          /\ n4' = [at |-> "arm", obj |-> graph[u]]
    BY <1>3 DEF RetryHeartbeat
  <2>2. n4 = Idle /\ UNCHANGED <<failed, sent>>
    BY <1>3 DEF RetryHeartbeat, Take, ghosts
  <2> DEFINE r == objs[graph[u]].retries + 1
  <2>3. graph[u] \in DOMAIN objs /\ r \in 0 .. MaxRetries
    BY <1>0, <1>s, <2>1, FoundUpf DEF RetriesLeft
  <2>4. /\ DOMAIN objs' = DOMAIN objs
        /\ \A j \in DOMAIN objs : objs'[j].retries = IF j = graph[u] THEN r ELSE objs[j].retries
    BY <2>1, <2>3, RetriesSet
  <2>5. ASSUME NEW i \in DOMAIN objs
        PROVE  objs'[i].retries <= sent'[i] + (IF n4'.at # "idle" /\ n4'.obj = i THEN 1 ELSE 0)
    <3>1. objs[i].retries <= sent[i] /\ sent'[i] = sent[i]
      BY <1>0, <1>s, <2>2 DEF RetriesCounted, Idle
    <3> QED
      BY <1>0, <2>1, <2>4, <3>1
  <2> QED
    BY <1>s, <2>2, <2>4, <2>5 DEF SentInv, RetriesCounted, FailureNeedsHeartbeats
<1>4. CASE FailAssociation
  <2>1. PICK u \in Found(Head(queue).hash) : ~RetriesLeft(graph[u]) /\ failed' = failed \cup {graph[u]}
    BY <1>4 DEF FailAssociation
  <2>2. n4 = Idle /\ UNCHANGED <<objs, n4, sent>>
    BY <1>4 DEF FailAssociation, Take
  <2>3. graph[u] \in DOMAIN objs
    BY <2>1, FoundUpf
  <2>4. sent[graph[u]] >= MaxRetries
    BY <1>0, <1>s, <2>1, <2>2, <2>3 DEF RetriesLeft, RetriesCounted, Idle
  <2> QED
    BY <1>s, <2>1, <2>2, <2>4 DEF SentInv, RetriesCounted, FailureNeedsHeartbeats
<1>5. CASE ArmTimeout
  <2>1. n4.obj \in DOMAIN objs /\ n4' = [at |-> "send", obj |-> n4.obj]
    BY <1>0, <1>5 DEF ArmTimeout, TypeOK, Threads, RefInv, Handles
  <2>2. /\ DOMAIN objs' = DOMAIN objs
        /\ \A j \in DOMAIN objs : objs'[j].retries = objs[j].retries
    BY <1>5, <2>1, ArmKeepsRefs DEF ArmTimeout, TimerArgs
  <2>3. n4.at = "arm" /\ UNCHANGED <<failed, sent>>
    BY <1>5 DEF ArmTimeout, ghosts
  <2> QED
    BY <1>s, <2>1, <2>2, <2>3 DEF SentInv, RetriesCounted, FailureNeedsHeartbeats
<1>6. CASE SendHeartbeat
  <2> DEFINE a == [objs[n4.obj] EXCEPT !.trxn = lastTrxn + 1]
  <2>1. n4.obj \in DOMAIN objs /\ objs[n4.obj] \in Assocs /\ lastTrxn \in Nat
    BY <1>0, <1>6, ObjsType DEF SendHeartbeat, RefInv, Handles, TypeOK
  <2>2. /\ a \in Assocs /\ a.upf = objs[n4.obj].upf /\ a.timer = objs[n4.obj].timer
        /\ a.retries = objs[n4.obj].retries
    BY <2>1 DEF Assocs
  <2>3. objs' = [objs EXCEPT ![n4.obj] = a]
    BY <1>6 DEF SendHeartbeat
  <2> HIDE DEF a
  <2>4. /\ DOMAIN objs' = DOMAIN objs
        /\ \A j \in DOMAIN objs : objs'[j].retries = objs[j].retries
    BY <2>1, <2>2, <2>3, UpdateKeepsRefs
  <2>5. /\ n4.at = "send" /\ n4'.at = "idle" /\ UNCHANGED failed
        /\ sent' = [sent EXCEPT ![n4.obj] = @ + 1]
    BY <1>6 DEF SendHeartbeat, Idle
  <2>6. \A i \in DOMAIN objs : /\ sent'[i] \in Nat /\ sent'[i] >= sent[i] /\ sent[i] \in Nat
                               /\ i = n4.obj => sent'[i] = sent[i] + 1
    BY <1>0, <2>1, <2>5
  <2>7. ASSUME NEW i \in DOMAIN objs
        PROVE  objs'[i].retries <= sent'[i] + (IF n4'.at # "idle" /\ n4'.obj = i THEN 1 ELSE 0)
    BY <1>0, <1>s, <2>4, <2>5, <2>6 DEF RetriesCounted
  <2>8. \A i \in failed : sent'[i] >= MaxRetries
    BY <1>0, <1>s, <2>6 DEF FailureNeedsHeartbeats
  <2> QED
    BY <2>4, <2>5, <2>7, <2>8 DEF SentInv, RetriesCounted, FailureNeedsHeartbeats
<1>7. ASSUME NEW u \in Upfs, ReceiveSetup(u), ~Full
      PROVE  SentInv'
  <2> DEFINE a == [upf |-> u, timer |-> 0, trxn |-> 0, retries |-> 0]
  <2>1. a \in Assocs /\ a.retries = 0
    BY <1>s DEF Assocs
  <2>2. objs' = Append(objs, a) /\ sent' = Append(sent, 0) /\ UNCHANGED <<n4, failed>>
    BY <1>7 DEF ReceiveSetup
  <2> HIDE DEF a
  <2>3. /\ DOMAIN objs' = 1 .. Len(objs) + 1 /\ objs'[Len(objs) + 1] = a
        /\ \A j \in DOMAIN objs : objs'[j] = objs[j]
    BY <1>0, <2>1, <2>2, ObjsAppend
  <2>4. sent'[Len(objs) + 1] = 0 /\ \A j \in DOMAIN objs : sent'[j] = sent[j]
    <3>1. sent \in Seq(Nat) /\ Len(sent) = Len(objs)
      BY <1>0
    <3> QED
      BY <1>0, <2>2, <3>1, AppendProperties
  <2>5. ASSUME NEW i \in DOMAIN objs'
        PROVE  objs'[i].retries <= sent'[i] + (IF n4'.at # "idle" /\ n4'.obj = i THEN 1 ELSE 0)
    <3>1. CASE i \in DOMAIN objs
      BY <1>s, <2>2, <2>3, <2>4, <3>1 DEF RetriesCounted
    <3>2. CASE i = Len(objs) + 1
      BY <2>1, <2>3, <2>4, <3>2
    <3> QED
      BY <1>0, <2>3, <3>1, <3>2
  <2>6. \A i \in failed : sent'[i] >= MaxRetries
    BY <1>0, <1>s, <2>4 DEF FailureNeedsHeartbeats
  <2> QED
    BY <2>2, <2>5, <2>6 DEF SentInv, RetriesCounted, FailureNeedsHeartbeats
<1>8. ASSUME NEW u \in Upfs, ReceiveSetup(u), Full
      PROVE  SentInv'
  BY <1>1, <1>8 DEF ReceiveSetup
<1>9. CASE Rearm
  <2>1. udp.obj \in DOMAIN objs
    BY <1>9 DEF Rearm, RefInv, Handles
  <2>2. /\ DOMAIN objs' = DOMAIN objs
        /\ \A j \in DOMAIN objs : objs'[j].retries = objs[j].retries
    BY <1>9, <2>1, ArmKeepsRefs DEF Rearm, TimerArgs
  <2> QED
    BY <1>1, <1>9, <2>2 DEF Rearm, ghosts
<1>10. CASE \/ \E t \in timers : Fire(t)
            \/ \E arg \in TimerArgs : Dropped(arg)
            \/ SendRelease
            \/ \E x \in unanswered : ReceiveHeartbeatResponse(x)
            \/ \E u \in Upfs : ReceiveSetupAgain(u) \/ ReceiveReleaseWish(u)
            \/ Disarm \/ UNCHANGED vars
  <2>1. UNCHANGED <<objs, n4, failed, sent>>
    BY <1>10 DEF Fire, Dropped, SendRelease, ReceiveHeartbeatResponse, ReceiveSetupAgain,
                 ReceiveReleaseWish, Disarm, vars, ghosts
  <2> QED
    BY <1>1, <2>1
<1> QED
  BY <1>2, <1>3, <1>4, <1>5, <1>6, <1>7, <1>8, <1>9, <1>10 DEF Next, N4Task

(* No UPF is given up before MaxRetries heartbeats of this association were *)
(* sent to it, however many time-outs an earlier association of the UPF     *)
(* left in the queue (timeout_heartbeat_request).                           *)
THEOREM FailureIsEarned == Spec => []FailureNeedsHeartbeats
<1>1. Init => SentInv
  BY DEF Init, SentInv, RetriesCounted, FailureNeedsHeartbeats
<1>2. SentInv => FailureNeedsHeartbeats
  BY DEF SentInv
<1> QED
  BY <1>1, <1>2, RefInit, RefStep, SentStep, PTL DEF Spec

--------------------------------------------------------------------------------
(* A running timer whose id an association keeps was set up for the UPF of  *)
(* that association: timer_remove stops no heartbeat of another UPF.        *)
TimerOwners ==
  /\ \A t \in timers : t.id \in 1 .. lastTimer
  /\ \A i \in DOMAIN objs : objs[i].timer <= lastTimer
  /\ \A t \in timers, i \in DOMAIN objs :
       t.id = objs[i].timer => t.hash = Hash[objs[i].upf]

LEMMA ArmKeepsOwners ==
  ASSUME RefInv, TimerOwners, NEW i \in DOMAIN objs, NEW arg \in TimerArgs, Arm(i, arg)
  PROVE  TimerOwners'
<1>0. lastTimer \in Nat /\ lastTimer' = lastTimer + 1 /\ timers \subseteq Timers
      /\ \A j \in DOMAIN objs : objs[j] \in Assocs
  BY ObjsType DEF Arm, RefInv, TypeOK
<1>1. /\ DOMAIN objs' = DOMAIN objs
      /\ \A j \in DOMAIN objs : objs'[j].upf = objs[j].upf
      /\ \A j \in DOMAIN objs : objs'[j].timer = IF j = i THEN lastTimer + 1 ELSE objs[j].timer
  BY ArmKeepsRefs
<1> DEFINE n == [id |-> lastTimer + 1, arg |-> arg, hash |-> Hash[objs[i].upf]]
<1>2. timers' = timers \cup {n} /\ n.id = lastTimer + 1 /\ n.hash = Hash[objs[i].upf]
  BY DEF Arm
<1> HIDE DEF n
<1>3. \A t \in timers' : t.id \in 1 .. lastTimer'
  BY <1>0, <1>2 DEF TimerOwners, Timers
<1>4. \A j \in DOMAIN objs' : objs'[j].timer <= lastTimer'
  BY <1>0, <1>1 DEF TimerOwners, Assocs
<1>5. ASSUME NEW t \in timers', NEW j \in DOMAIN objs', t.id = objs'[j].timer
      PROVE  t.hash = Hash[objs'[j].upf]
  <2>1. CASE j = i
    BY <1>0, <1>1, <1>2, <1>5, <2>1 DEF TimerOwners
  <2>2. CASE j # i
    <3>1. objs'[j].timer = objs[j].timer /\ objs[j].timer <= lastTimer /\ objs[j].timer \in Nat
      BY <1>0, <1>1, <2>2 DEF TimerOwners, Assocs
    <3>2. t \in timers
      BY <1>0, <1>2, <1>5, <3>1
    <3> QED
      BY <1>1, <1>5, <3>1, <3>2 DEF TimerOwners
  <2> QED
    BY <2>1, <2>2
<1> QED
  BY <1>3, <1>4, <1>5 DEF TimerOwners

LEMMA OwnersStep == RefInv /\ TimerOwners /\ [Next]_vars => TimerOwners'
<1> SUFFICES ASSUME RefInv, TimerOwners, [Next]_vars
             PROVE  TimerOwners'
  OBVIOUS
<1>0. /\ TypeOK /\ Len(objs) \in Nat /\ DOMAIN objs = 1 .. Len(objs) /\ lastTimer \in Nat
      /\ timers \subseteq Timers /\ \A i \in DOMAIN objs : objs[i] \in Assocs
  BY ObjsType DEF RefInv, TypeOK
<1>1. CASE /\ timers' \subseteq timers /\ UNCHANGED lastTimer /\ DOMAIN objs' = DOMAIN objs
           /\ \A j \in DOMAIN objs : objs'[j].upf = objs[j].upf /\ objs'[j].timer = objs[j].timer
  <2>1. \A t \in timers' : t.id \in 1 .. lastTimer'
    BY <1>1 DEF TimerOwners
  <2>2. \A j \in DOMAIN objs' : objs'[j].timer <= lastTimer'
    BY <1>1 DEF TimerOwners
  <2>3. \A t \in timers', j \in DOMAIN objs' :
          t.id = objs'[j].timer => t.hash = Hash[objs'[j].upf]
    BY <1>1 DEF TimerOwners
  <2> QED
    BY <2>1, <2>2, <2>3 DEF TimerOwners
<1>2. CASE InitiateHeartbeat
  <2>1. PICK u \in Found(Head(queue).hash) : objs' = [objs EXCEPT ![graph[u]].retries = 0]
    BY <1>2 DEF InitiateHeartbeat
  <2>2. 0 \in 0 .. MaxRetries
    BY AssociationAssumption
  <2>3. /\ DOMAIN objs' = DOMAIN objs
        /\ \A j \in DOMAIN objs : objs'[j].upf = objs[j].upf /\ objs'[j].timer = objs[j].timer
    BY <2>1, <2>2, RetriesSet
  <2> QED
    BY <1>1, <1>2, <2>3 DEF InitiateHeartbeat
<1>3. CASE RetryHeartbeat
  <2>1. PICK u \in Found(Head(queue).hash) :
          RetriesLeft(graph[u]) /\ objs' = [objs EXCEPT ![graph[u]].retries = @ + 1]
    BY <1>3 DEF RetryHeartbeat
  <2>2. objs[graph[u]].retries + 1 \in 0 .. MaxRetries
    BY <2>1, FoundUpf, AssociationAssumption DEF RetriesLeft, Assocs
  <2>3. /\ DOMAIN objs' = DOMAIN objs
        /\ \A j \in DOMAIN objs : objs'[j].upf = objs[j].upf /\ objs'[j].timer = objs[j].timer
    BY <2>1, <2>2, RetriesSet
  <2> QED
    BY <1>1, <1>3, <2>3 DEF RetryHeartbeat
<1>4. CASE ArmTimeout
  <2>1. n4.obj \in DOMAIN objs
    BY <1>4 DEF ArmTimeout, RefInv, Handles
  <2> QED
    BY <1>4, <2>1, ArmKeepsOwners DEF ArmTimeout, TimerArgs
<1>5. CASE Rearm
  <2>1. udp.obj \in DOMAIN objs
    BY <1>5 DEF Rearm, RefInv, Handles
  <2> QED
    BY <1>5, <2>1, ArmKeepsOwners DEF Rearm, TimerArgs
<1>6. CASE SendHeartbeat
  <2> DEFINE a == [objs[n4.obj] EXCEPT !.trxn = lastTrxn + 1]
  <2>1. n4.obj \in DOMAIN objs /\ objs[n4.obj] \in Assocs /\ lastTrxn \in Nat
    BY <1>0, <1>6 DEF SendHeartbeat, RefInv, Handles, TypeOK
  <2>2. a \in Assocs /\ a.upf = objs[n4.obj].upf /\ a.timer = objs[n4.obj].timer
    BY <2>1 DEF Assocs
  <2>3. objs' = [objs EXCEPT ![n4.obj] = a]
    BY <1>6 DEF SendHeartbeat
  <2> HIDE DEF a
  <2>4. /\ DOMAIN objs' = DOMAIN objs
        /\ \A j \in DOMAIN objs : objs'[j].upf = objs[j].upf /\ objs'[j].timer = objs[j].timer
    BY <2>1, <2>2, <2>3, UpdateKeepsRefs
  <2> QED
    BY <1>1, <1>6, <2>4 DEF SendHeartbeat
<1>7. ASSUME NEW u \in Upfs, ReceiveSetup(u), ~Full
      PROVE  TimerOwners'
  <2> DEFINE a == [upf |-> u, timer |-> 0, trxn |-> 0, retries |-> 0]
  <2>1. a \in Assocs /\ a.timer = 0
    BY AssociationAssumption DEF Assocs
  <2>2. objs' = Append(objs, a) /\ UNCHANGED <<timers, lastTimer>>
    BY <1>7 DEF ReceiveSetup
  <2> HIDE DEF a
  <2>3. /\ DOMAIN objs' = 1 .. Len(objs) + 1 /\ objs'[Len(objs) + 1] = a
        /\ \A j \in DOMAIN objs : objs'[j] = objs[j]
    BY <1>0, <2>1, <2>2, ObjsAppend
  <2>4. \A j \in DOMAIN objs' : j \in DOMAIN objs \/ j = Len(objs) + 1
    BY <1>0, <2>3
  <2>5. \A j \in DOMAIN objs' : objs'[j].timer <= lastTimer'
    BY <1>0, <2>1, <2>2, <2>3, <2>4 DEF TimerOwners
  <2>6. \A t \in timers', j \in DOMAIN objs' :
          t.id = objs'[j].timer => t.hash = Hash[objs'[j].upf]
    BY <1>0, <2>1, <2>2, <2>3, <2>4 DEF TimerOwners
  <2> QED
    BY <2>2, <2>5, <2>6 DEF TimerOwners
<1>8. ASSUME NEW u \in Upfs, ReceiveSetup(u), Full
      PROVE  TimerOwners'
  BY <1>1, <1>8 DEF ReceiveSetup
<1>9. ASSUME NEW u \in Upfs, ReceiveReleaseWish(u)
      PROVE  TimerOwners'
  <2>1. CASE Found(OwnHash) = {}
    BY <1>1, <1>9, <2>1 DEF ReceiveReleaseWish
  <2>2. CASE Found(OwnHash) # {}
    <3>1. PICK v \in Found(OwnHash) :
            /\ lastTimer' = lastTimer + 1
            /\ timers' = timers \cup
                 {[id |-> lastTimer + 1, arg |-> "GRACEFUL_RELEASE", hash |-> Hash[v]]}
      BY <1>9, <2>2 DEF ReceiveReleaseWish
    <3>2. UNCHANGED objs
      BY <1>9 DEF ReceiveReleaseWish
    <3>3. \A t \in timers' : t \in timers \/ t.id = lastTimer + 1
      BY <3>1
    <3>4. \A t \in timers' : t.id \in 1 .. lastTimer'
      BY <1>0, <3>1, <3>3 DEF TimerOwners, Timers
    <3>5. \A j \in DOMAIN objs : objs[j].timer <= lastTimer /\ objs[j].timer \in Nat
      BY <1>0 DEF TimerOwners, Assocs
    <3>6. \A t \in timers', j \in DOMAIN objs :
            t.id = objs[j].timer => t.hash = Hash[objs[j].upf]
      BY <1>0, <3>3, <3>5 DEF TimerOwners
    <3>7. \A j \in DOMAIN objs : objs[j].timer <= lastTimer'
      BY <1>0, <3>1, <3>5
    <3> QED
      BY <3>2, <3>4, <3>6, <3>7 DEF TimerOwners
  <2> QED
    BY <2>1, <2>2
<1>10. CASE \/ \E t \in timers : Fire(t)
            \/ \E arg \in TimerArgs : Dropped(arg)
            \/ FailAssociation \/ SendRelease
            \/ \E x \in unanswered : ReceiveHeartbeatResponse(x)
            \/ \E u \in Upfs : ReceiveSetupAgain(u)
            \/ Disarm \/ UNCHANGED vars
  <2>1. UNCHANGED <<objs, lastTimer>> /\ timers' \subseteq timers
    BY <1>10 DEF Fire, Dropped, FailAssociation, SendRelease, ReceiveHeartbeatResponse,
                 ReceiveSetupAgain, Disarm, RemoveTimer, vars
  <2> QED
    BY <1>1, <2>1
<1> QED
  BY <1>2, <1>3, <1>4, <1>5, <1>6, <1>7, <1>8, <1>9, <1>10 DEF Next, N4Task

\* What is behind the head of the queue stays there when the head is taken.
LEMMA QueueTail ==
  ASSUME RefInv, queue # <<>>, queue' = Tail(queue), NEW u \in Upfs,
         \E k \in DOMAIN queue : queue[k].hash = Hash[u] /\ queue[k].arg # "GRACEFUL_RELEASE",
         Head(queue).hash # Hash[u] \/ Head(queue).arg = "GRACEFUL_RELEASE"
  PROVE  Heartbeats(u)'
<1>1. PICK k \in DOMAIN queue : queue[k].hash = Hash[u] /\ queue[k].arg # "GRACEFUL_RELEASE"
  OBVIOUS
<1>2. TypeOK
  BY DEF RefInv
<1>3. k # 1
  BY <1>1, <1>2, QueueHead
<1>4. k - 1 \in DOMAIN queue' /\ queue'[k - 1] = queue[k]
  BY <1>2, <1>3, QueueHead
<1> QED
  BY <1>1, <1>4 DEF Heartbeats

\* What took a TIME_OUT from the queue still comes back to every other UPF.
LEMMA TakeKeepsAlive ==
  ASSUME RefInv, NEW arg, Take(arg), NEW u \in Upfs, Heartbeats(u),
         Head(queue).hash # Hash[u] \/ arg = "GRACEFUL_RELEASE",
         UNCHANGED <<timers, udp>>, DOMAIN objs' = DOMAIN objs,
         \A j \in DOMAIN objs : objs'[j].upf = objs[j].upf
  PROVE  Heartbeats(u)'
<1>1. n4.at = "idle" /\ queue # <<>> /\ queue' = Tail(queue) /\ Head(queue).arg = arg
  BY DEF Take, Idle
<1>3. CASE \E k \in DOMAIN queue : queue[k].hash = Hash[u] /\ queue[k].arg # "GRACEFUL_RELEASE"
  BY <1>1, <1>3, QueueTail
<1>4. CASE \E t \in timers : t.hash = Hash[u] /\ t.arg # "GRACEFUL_RELEASE"
  BY <1>4 DEF Heartbeats
<1>5. CASE udp.at \in {"disarm", "rearm"} /\ objs[udp.obj].upf = u
  <2>1. udp.obj \in DOMAIN objs
    BY <1>5 DEF RefInv, Handles
  <2> QED
    BY <1>5, <2>1 DEF Heartbeats
<1> QED
  BY <1>1, <1>3, <1>4, <1>5 DEF Heartbeats

\* A new timer for an association is one for its UPF, and stops no other.
LEMMA ArmKeepsAlive ==
  ASSUME RefInv, NEW i \in DOMAIN objs, NEW arg \in TimerArgs, Arm(i, arg),
         arg # "GRACEFUL_RELEASE", UNCHANGED queue, NEW u \in Upfs, Heartbeats(u),
         n4.at = "arm" => n4.obj = i \/ n4' = n4,
         udp.at \in {"disarm", "rearm"} => udp.obj = i \/ udp' = udp
  PROVE  Heartbeats(u)'
<1> DEFINE n == [id |-> lastTimer + 1, arg |-> arg, hash |-> Hash[objs[i].upf]]
<1>1. timers' = timers \cup {n} /\ n.arg = arg /\ n.hash = Hash[objs[i].upf]
  BY DEF Arm
<1> HIDE DEF n
<1>2. DOMAIN objs' = DOMAIN objs /\ \A j \in DOMAIN objs : objs'[j].upf = objs[j].upf
  BY ArmKeepsRefs
<1>3. CASE objs[i].upf = u
  BY <1>1, <1>3 DEF Heartbeats
<1>4. CASE objs[i].upf # u
  <2>1. CASE \E t \in timers : t.hash = Hash[u] /\ t.arg # "GRACEFUL_RELEASE"
    BY <1>1, <2>1 DEF Heartbeats
  <2>2. CASE \E k \in DOMAIN queue : queue[k].hash = Hash[u] /\ queue[k].arg # "GRACEFUL_RELEASE"
    BY <2>2 DEF Heartbeats
  <2>3. CASE n4.at = "arm" /\ objs[n4.obj].upf = u
    <3>1. n4.obj \in DOMAIN objs /\ n4' = n4
      BY <1>4, <2>3 DEF RefInv, Handles
    <3> QED
      BY <1>2, <2>3, <3>1 DEF Heartbeats
  <2>4. CASE udp.at \in {"disarm", "rearm"} /\ objs[udp.obj].upf = u
    <3>1. udp.obj \in DOMAIN objs /\ udp' = udp
      BY <1>4, <2>4 DEF RefInv, Handles
    <3> QED
      BY <1>2, <2>4, <3>1 DEF Heartbeats
  <2> QED
    BY <2>1, <2>2, <2>3, <2>4 DEF Heartbeats
<1> QED
  BY <1>3, <1>4

\* A step that leaves the associations, the timers and both threads' work.
LEMMA MoreKeepsAlive ==
  ASSUME RefInv, NEW u \in Upfs, Heartbeats(u), timers \subseteq timers', UNCHANGED queue,
         n4.at = "arm" => n4' = n4,
         udp.at \in {"disarm", "rearm"} => udp' = udp,
         \A j \in DOMAIN objs : objs'[j].upf = objs[j].upf
  PROVE  Heartbeats(u)'
<1>1. CASE \E t \in timers : t.hash = Hash[u] /\ t.arg # "GRACEFUL_RELEASE"
  BY <1>1 DEF Heartbeats
<1>2. CASE \E k \in DOMAIN queue : queue[k].hash = Hash[u] /\ queue[k].arg # "GRACEFUL_RELEASE"
  BY <1>2 DEF Heartbeats
<1>3. CASE n4.at = "arm" /\ objs[n4.obj].upf = u
  BY <1>3 DEF Heartbeats, RefInv, Handles
<1>4. CASE udp.at \in {"disarm", "rearm"} /\ objs[udp.obj].upf = u
  BY <1>4 DEF Heartbeats, RefInv, Handles
<1> QED
  BY <1>1, <1>2, <1>3, <1>4 DEF Heartbeats

LEMMA AliveStep == RefInv /\ TimerOwners /\ HeartbeatAlive /\ [Next]_vars => HeartbeatAlive'
<1> SUFFICES ASSUME RefInv, TimerOwners, HeartbeatAlive, [Next]_vars
             PROVE  HeartbeatAlive'
  OBVIOUS
<1>0. /\ TypeOK /\ Len(objs) \in Nat /\ DOMAIN objs = 1 .. Len(objs)
      /\ graph \in [Upfs -> 0 .. Len(objs)] /\ queue \in Seq(Timers)
  BY ObjsType DEF RefInv, TypeOK
<1>a. /\ Associated \subseteq Upfs
      /\ \A u \in Associated : Heartbeats(u) \/ graph[u] \in failed
  BY DEF HeartbeatAlive, Associated
<1>i. \A u, v \in Upfs : Hash[u] = Hash[v] => u = v
  BY AssociationAssumption
<1>1. ASSUME NEW t \in timers, Fire(t)
      PROVE  HeartbeatAlive'
  <2> SUFFICES ASSUME NEW u \in Associated, Heartbeats(u)
               PROVE  Heartbeats(u)'
    BY <1>1 DEF HeartbeatAlive, Associated, Fire, ghosts
  <2>1. timers' = timers \ {t} /\ queue' = Append(queue, t) /\ UNCHANGED <<objs, n4, udp>>
    BY <1>1 DEF Fire
  <2>2. /\ DOMAIN queue' = 1 .. Len(queue) + 1 /\ queue'[Len(queue) + 1] = t
        /\ \A k \in DOMAIN queue : k \in DOMAIN queue' /\ queue'[k] = queue[k]
    <3>1. t \in Timers /\ Len(queue) \in Nat /\ DOMAIN queue = 1 .. Len(queue)
      BY <1>0, LenProperties DEF TypeOK
    <3> QED
      BY <1>0, <2>1, <3>1, AppendProperties, LenProperties
  <2>3. Len(queue) + 1 \in DOMAIN queue'
    BY <1>0, <2>2, LenProperties
  <2>4. CASE t.hash = Hash[u] /\ t.arg # "GRACEFUL_RELEASE"
    BY <2>2, <2>3, <2>4 DEF Heartbeats
  <2>5. CASE ~(t.hash = Hash[u] /\ t.arg # "GRACEFUL_RELEASE")
    <3>1. CASE \E s \in timers : s.hash = Hash[u] /\ s.arg # "GRACEFUL_RELEASE"
      BY <2>1, <2>5, <3>1 DEF Heartbeats
    <3>2. CASE \E k \in DOMAIN queue : queue[k].hash = Hash[u] /\ queue[k].arg # "GRACEFUL_RELEASE"
      BY <2>2, <3>2 DEF Heartbeats
    <3>3. CASE \/ n4.at = "arm" /\ objs[n4.obj].upf = u
               \/ udp.at \in {"disarm", "rearm"} /\ objs[udp.obj].upf = u
      BY <2>1, <3>3 DEF Heartbeats
    <3> QED
      BY <1>a, <3>1, <3>2, <3>3 DEF Heartbeats
  <2> QED
    BY <2>4, <2>5
<1>2. ASSUME NEW arg \in TimerArgs, Dropped(arg)
      PROVE  HeartbeatAlive'
  <2> SUFFICES ASSUME NEW u \in Associated, Heartbeats(u)
               PROVE  Heartbeats(u)'
    BY <1>2 DEF HeartbeatAlive, Associated, Dropped, ghosts
  <2>1. Take(arg) /\ UNCHANGED <<objs, timers, udp>> /\ Head(queue).hash # Hash[u]
    BY <1>2 DEF Dropped, Found
  <2> QED
    BY <1>a, <2>1, TakeKeepsAlive
<1>3. CASE InitiateHeartbeat \/ RetryHeartbeat
  <2>1. PICK v \in Found(Head(queue).hash), r \in 0 .. MaxRetries :
          /\ objs' = [objs EXCEPT ![graph[v]].retries = r]
          /\ n4' = [at |-> "arm", obj |-> graph[v]]
    <3>1. CASE InitiateHeartbeat
      <4>1. 0 \in 0 .. MaxRetries
        BY AssociationAssumption
      <4> QED
        BY <3>1, <4>1 DEF InitiateHeartbeat
    <3>2. CASE RetryHeartbeat
      <4>1. PICK v \in Found(Head(queue).hash) :
              /\ RetriesLeft(graph[v])
              /\ objs' = [objs EXCEPT ![graph[v]].retries = @ + 1]
              /\ n4' = [at |-> "arm", obj |-> graph[v]]
        BY <3>2 DEF RetryHeartbeat
      <4>2. objs[graph[v]].retries + 1 \in 0 .. MaxRetries
        BY <4>1, FoundUpf, AssociationAssumption DEF RetriesLeft, Assocs
      <4> QED
        BY <4>1, <4>2
    <3> QED
      BY <1>3, <3>1, <3>2
  <2>2. /\ DOMAIN objs' = DOMAIN objs
        /\ \A j \in DOMAIN objs : objs'[j].upf = objs[j].upf
    BY <2>1, RetriesSet
  <2>3. PICK arg \in TimerArgs : Take(arg) /\ UNCHANGED <<graph, timers, udp, failed>>
    BY <1>3 DEF InitiateHeartbeat, RetryHeartbeat, TimerArgs, ghosts
  <2> SUFFICES ASSUME NEW u \in Associated, Heartbeats(u)
               PROVE  Heartbeats(u)'
    BY <2>3 DEF HeartbeatAlive, Associated
  <2>4. CASE u = v
    <3>1. graph[v] \in DOMAIN objs /\ objs[graph[v]].upf = v
      BY <2>1, FoundUpf
    <3> QED
      BY <2>1, <2>2, <2>4, <3>1 DEF Heartbeats
  <2>5. CASE u # v
    <3>1. Head(queue).hash # Hash[u]
      BY <1>a, <1>i, <2>1, <2>5, FoundUpf
    <3> QED
      BY <1>a, <2>2, <2>3, <3>1, TakeKeepsAlive
  <2> QED
    BY <2>4, <2>5
<1>4. CASE FailAssociation
  <2>1. PICK v \in Found(Head(queue).hash) :
          /\ failed' = failed \cup {graph[v]}
          /\ graph' = [w \in Upfs |-> IF w \in Found(Int32(Hash[v])) THEN 0 ELSE graph[w]]
    BY <1>4 DEF FailAssociation
  <2>2. Take("TIMEOUT_HEARTBEAT") /\ UNCHANGED <<objs, timers, udp>>
    BY <1>4 DEF FailAssociation
  <2>3. v \in Upfs /\ Hash[v] = Head(queue).hash
    BY <2>1, FoundUpf
  <2> SUFFICES ASSUME NEW u \in Associated', graph'[u] \notin failed'
               PROVE  Heartbeats(u)'
    BY DEF HeartbeatAlive
  <2>4. u \in Associated /\ graph'[u] = graph[u]
    BY <2>1 DEF Associated
  <2>5. u \in Upfs /\ u # v /\ Heartbeats(u)
    BY <1>a, <2>1, <2>4
  <2>6. Head(queue).hash # Hash[u]
    BY <1>i, <2>3, <2>5
  <2> QED
    BY <2>2, <2>5, <2>6, TakeKeepsAlive
<1>5. CASE SendRelease
  <2> SUFFICES ASSUME NEW u \in Associated, Heartbeats(u)
               PROVE  Heartbeats(u)'
    BY <1>5 DEF HeartbeatAlive, Associated, SendRelease, ghosts
  <2>1. Take("GRACEFUL_RELEASE") /\ UNCHANGED <<objs, timers, udp>>
    BY <1>5 DEF SendRelease
  <2> QED
    BY <1>a, <2>1, TakeKeepsAlive
<1>6. CASE ArmTimeout
  <2> SUFFICES ASSUME NEW u \in Associated, Heartbeats(u)
               PROVE  Heartbeats(u)'
    BY <1>6 DEF HeartbeatAlive, Associated, ArmTimeout, ghosts
  <2>1. /\ n4.obj \in DOMAIN objs /\ Arm(n4.obj, "TIMEOUT_HEARTBEAT")
        /\ UNCHANGED <<queue, udp>>
    BY <1>6 DEF ArmTimeout, RefInv, Handles
  <2> QED
    BY <1>a, <2>1, ArmKeepsAlive DEF TimerArgs
<1>7. CASE Rearm
  <2> SUFFICES ASSUME NEW u \in Associated, Heartbeats(u)
               PROVE  Heartbeats(u)'
    BY <1>7 DEF HeartbeatAlive, Associated, Rearm, ghosts
  <2>1. /\ udp.obj \in DOMAIN objs /\ Arm(udp.obj, "TRIGGER_HEARTBEAT")
        /\ UNCHANGED <<queue, n4>>
    BY <1>7 DEF Rearm, RefInv, Handles
  <2> QED
    BY <1>a, <2>1, ArmKeepsAlive DEF TimerArgs
<1>8. CASE SendHeartbeat
  <2> SUFFICES ASSUME NEW u \in Associated, Heartbeats(u)
               PROVE  Heartbeats(u)'
    BY <1>8 DEF HeartbeatAlive, Associated, SendHeartbeat, ghosts
  <2>1. n4.at = "send" /\ UNCHANGED <<timers, queue, udp>>
    BY <1>8 DEF SendHeartbeat
  <2>2. \A j \in DOMAIN objs : objs'[j].upf = objs[j].upf
    <3> DEFINE a == [objs[n4.obj] EXCEPT !.trxn = lastTrxn + 1]
    <3>1. n4.obj \in DOMAIN objs /\ objs[n4.obj] \in Assocs /\ lastTrxn \in Nat
      BY <1>0, <2>1, ObjsType DEF RefInv, Handles, TypeOK
    <3>2. a \in Assocs /\ a.upf = objs[n4.obj].upf /\ a.timer = objs[n4.obj].timer
      BY <3>1 DEF Assocs
    <3>3. objs' = [objs EXCEPT ![n4.obj] = a]
      BY <1>8 DEF SendHeartbeat
    <3> HIDE DEF a
    <3> QED
      BY <3>1, <3>2, <3>3, UpdateKeepsRefs
  <2> QED
    BY <1>a, <2>1, <2>2, MoreKeepsAlive
<1>9. ASSUME NEW v \in Upfs, ReceiveSetup(v), ~Full
      PROVE  HeartbeatAlive'
  <2> DEFINE a == [upf |-> v, timer |-> 0, trxn |-> 0, retries |-> 0]
  <2>1. a \in Assocs /\ a.upf = v
    BY AssociationAssumption DEF Assocs
  <2>2. /\ objs' = Append(objs, a) /\ graph' = [graph EXCEPT ![v] = Len(objs) + 1]
        /\ udp = Idle /\ udp' = [at |-> "rearm", obj |-> Len(objs) + 1]
        /\ UNCHANGED <<timers, queue, n4>>
    BY <1>9 DEF ReceiveSetup
  <2> HIDE DEF a
  <2>3. objs'[Len(objs) + 1] = a /\ \A j \in DOMAIN objs : objs'[j] = objs[j]
    BY <1>0, <2>1, <2>2, ObjsAppend
  <2> SUFFICES ASSUME NEW u \in Associated', graph'[u] \notin failed'
               PROVE  Heartbeats(u)'
    BY DEF HeartbeatAlive
  <2>4. CASE u = v
    BY <2>1, <2>2, <2>3, <2>4 DEF Heartbeats
  <2>5. CASE u # v
    <3>1. u \in Associated /\ graph'[u] = graph[u] /\ failed' = failed
      BY <1>0, <1>9, <2>2, <2>5 DEF Associated, ReceiveSetup
    <3>2. udp.at = "idle"
      BY <2>2 DEF Idle
    <3> QED
      BY <1>a, <2>2, <2>3, <3>1, <3>2, MoreKeepsAlive
  <2> QED
    BY <2>4, <2>5
<1>10. CASE Disarm
  <2> SUFFICES ASSUME NEW u \in Associated, Heartbeats(u)
               PROVE  Heartbeats(u)'
    BY <1>10 DEF HeartbeatAlive, Associated, Disarm, ghosts
  <2>1. /\ udp.at = "disarm" /\ udp.obj \in DOMAIN objs
        /\ timers' = {t \in timers : t.id # objs[udp.obj].timer}
        /\ UNCHANGED <<objs, queue, n4>> /\ udp' = [at |-> "rearm", obj |-> udp.obj]
    BY <1>0, <1>10 DEF Disarm, RemoveTimer, RefInv, Handles, TypeOK, Threads
  <2>2. CASE objs[udp.obj].upf = u
    BY <2>1, <2>2 DEF Heartbeats
  <2>3. CASE objs[udp.obj].upf # u
    <3>1. CASE \E t \in timers : t.hash = Hash[u] /\ t.arg # "GRACEFUL_RELEASE"
      <4>1. PICK t \in timers : t.hash = Hash[u] /\ t.arg # "GRACEFUL_RELEASE"
        BY <3>1
      <4>2. objs[udp.obj].upf \in Upfs
        BY <1>0, <2>1, ObjsType DEF Assocs
      <4>3. t.id # objs[udp.obj].timer
        BY <1>a, <1>i, <2>1, <2>3, <4>1, <4>2 DEF TimerOwners
      <4> QED
        BY <2>1, <4>1, <4>3 DEF Heartbeats
    <3>2. CASE ~\E t \in timers : t.hash = Hash[u] /\ t.arg # "GRACEFUL_RELEASE"
      BY <1>a, <2>1, <2>3, <3>2 DEF Heartbeats
    <3> QED
      BY <3>1, <3>2
  <2> QED
    BY <2>2, <2>3
<1>11. CASE \/ \E x \in unanswered : ReceiveHeartbeatResponse(x)
            \/ \E v \in Upfs : \/ ReceiveSetupAgain(v) \/ ReceiveReleaseWish(v)
                               \/ ReceiveSetup(v) /\ Full
            \/ UNCHANGED vars
  <2>1. /\ UNCHANGED <<objs, graph, queue, n4, failed>> /\ timers \subseteq timers'
        /\ udp.at # "idle" => UNCHANGED udp
    <3>1. CASE \E x \in unanswered : ReceiveHeartbeatResponse(x)
      BY <3>1 DEF ReceiveHeartbeatResponse, Idle, ghosts
    <3>2. CASE \E v \in Upfs : ReceiveSetupAgain(v)
      BY <3>2 DEF ReceiveSetupAgain, Idle, ghosts
    <3>3. CASE \E v \in Upfs : ReceiveReleaseWish(v)
      BY <3>3 DEF ReceiveReleaseWish, ghosts
    <3>4. CASE \E v \in Upfs : ReceiveSetup(v) /\ Full
      BY <3>4 DEF ReceiveSetup
    <3>5. CASE UNCHANGED vars
      BY <3>5 DEF vars, ghosts
    <3> QED
      BY <1>11, <3>1, <3>2, <3>3, <3>4, <3>5
  <2> SUFFICES ASSUME NEW u \in Associated, Heartbeats(u)
               PROVE  Heartbeats(u)'
    BY <2>1 DEF HeartbeatAlive, Associated
  <2> QED
    BY <1>a, <2>1, MoreKeepsAlive
<1> QED
  BY <1>1, <1>2, <1>3, <1>4, <1>5, <1>6, <1>7, <1>8, <1>9, <1>10, <1>11 DEF Next, N4Task

(* While a UPF is associated and not reported as failed its heartbeat       *)
(* procedure goes on: a timer runs, a TIME_OUT waits or a thread is about   *)
(* to set a timer, in spite of the unlocked restart of the procedure by a   *)
(* response or a second setup (check_association_on_add,                    *)
(* handle_receive_heartbeat_response), whatever the hashes are.             *)
THEOREM HeartbeatGoesOn == Spec => []HeartbeatAlive
<1>1. Init => TimerOwners /\ HeartbeatAlive
  BY DEF Init, TimerOwners, HeartbeatAlive, Associated
<1> QED
  BY <1>1, RefInit, RefStep, OwnersStep, AliveStep, PTL DEF Spec
================================================================================
