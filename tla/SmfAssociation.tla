---------------------------- MODULE SmfAssociation -----------------------------
(***************************************************************************)
(* The PFCP associations of the SMF and their heartbeat procedure:         *)
(* smf_pfcp_association.cpp and the heartbeat handlers of smf_n4.cpp.      *)
(*                                                                         *)
(* Two threads work on an association without a lock: the N4 task, which   *)
(* takes TIME_OUT messages from its ITTI queue and sends heartbeats, and   *)
(* the UDP thread that receives datagrams on port 8805.  The timer thread  *)
(* of ITTI turns a running timer into a queued TIME_OUT, which can no      *)
(* longer be removed.  Each of them moves by the accesses that the other   *)
(* can come between.                                                       *)
(*                                                                         *)
(* From the stack (module PfcpStack) only this is used: a transaction id   *)
(* is new, and at most one response is handed up under it.                 *)
(***************************************************************************)
EXTENDS Naturals, Sequences, FiniteSets

CONSTANTS
  Upfs,             \* the user plane nodes
  Hash,             \* std::hash of the node id, a size_t
  OwnHash,          \* the hash of the SMF's own node id
  Half,             \* 2^31: the hashes an int32_t keeps are those below it
  SizeMod,          \* 2^64
  MaxRetries,       \* PFCP_ASSOCIATION_HEARTBEAT_MAX_RETRIES
  MaxAssociations,  \* PFCP_MAX_ASSOCIATIONS
  MaxSetups,        \* bound: association setups, and update requests, received
  MaxResponses      \* bound: heartbeat responses received

ASSUME AssociationAssumption ==
  /\ Half \in Nat \ {0} /\ SizeMod \in Nat /\ SizeMod >= 2 * Half
  /\ Hash \in [Upfs -> 0 .. SizeMod - 1]
  /\ \A u, v \in Upfs : Hash[u] = Hash[v] => u = v
  /\ OwnHash \in 0 .. SizeMod - 1
  /\ MaxRetries \in Nat /\ MaxAssociations \in Nat
  /\ MaxSetups \in Nat /\ MaxResponses \in Nat

VARIABLES
  objs,         \* every pfcp_association made so far
  graph,        \* associations_graph: the index in objs of a UPF's, or 0
  timers,       \* timers running in ITTI for TASK_SMF_N4
  queue,        \* TIME_OUT messages in the queue of TASK_SMF_N4
  lastTimer,    \* the last timer id
  lastTrxn,     \* the last transaction id
  unanswered,   \* transactions of heartbeat requests without a response yet
  n4,           \* where the N4 task is
  udp,          \* where the UDP thread is
  setups,       \* setups and updates received so far
  responses,    \* heartbeat responses received so far
  failed,       \* associations the N4 task reported as failed to the SMF
  sent          \* heartbeat requests sent for each association

ghosts == <<failed, sent>>
budget == <<setups, responses>>
vars == <<objs, graph, timers, queue, lastTimer, lastTrxn, unanswered, n4, udp,
          budget, ghosts>>

Idle      == [at |-> "idle", obj |-> 0]
Threads   == [at : {"idle", "arm", "send", "disarm", "rearm"}, obj : Nat]
TimerArgs == {"TRIGGER_HEARTBEAT", "TIMEOUT_HEARTBEAT", "GRACEFUL_RELEASE"}
Timers    == [id : Nat, arg : TimerArgs, hash : 0 .. SizeMod - 1]
Assocs    == [upf : Upfs, timer : Nat, trxn : Nat, retries : 0 .. MaxRetries]

TypeOK ==
  /\ objs \in Seq(Assocs)
  /\ graph \in [Upfs -> 0 .. Len(objs)]
  /\ timers \subseteq Timers
  /\ queue \in Seq(Timers)
  /\ lastTimer \in Nat /\ lastTrxn \in Nat
  /\ unanswered \subseteq 1 .. lastTrxn
  /\ n4 \in Threads /\ n4.at \in {"idle", "arm", "send"} /\ n4.obj <= Len(objs)
  /\ udp \in Threads /\ udp.at \in {"idle", "disarm", "rearm"} /\ udp.obj <= Len(objs)
  /\ setups \in 0 .. MaxSetups /\ responses \in 0 .. MaxResponses
  /\ failed \subseteq DOMAIN objs
  /\ sent \in [DOMAIN objs -> Nat]

Init ==
  /\ objs = <<>>
  /\ graph = [u \in Upfs |-> 0]
  /\ timers = {} /\ queue = <<>> /\ lastTimer = 0
  /\ lastTrxn = 0 /\ unanswered = {}
  /\ n4 = Idle /\ udp = Idle
  /\ setups = 0 /\ responses = 0
  /\ failed = {} /\ sent = <<>>

--------------------------------------------------------------------------------
Associated == {u \in Upfs : graph[u] # 0}

(* upf_graph::get_association by the hash a timer carries.                  *)
Found(hash) == {u \in Associated : Hash[u] = hash}

ArmOnce(i, arg) ==
  /\ lastTimer' = lastTimer + 1
  /\ timers' = IF objs[i].timer # 0 THEN timers ELSE timers \cup
       {[id |-> lastTimer + 1, arg |-> arg, hash |-> Hash[objs[i].upf]]}
  /\ objs' = [objs EXCEPT ![i].timer = lastTimer + 1]

(* timer_setup, and the assignment of the id it returns to timer_heartbeat. *)
Arm(i, arg) ==
  /\ lastTimer' = lastTimer + 1
  /\ timers' = timers \cup
       {[id |-> lastTimer + 1, arg |-> arg, hash |-> Hash[objs[i].upf]]}
  /\ objs' = [objs EXCEPT ![i].timer = lastTimer + 1]

(* timer_remove: a timer that has fired is not found, its TIME_OUT stays.   *)
RemoveTimer(id) == {t \in timers : t.id # id}

(* remove_association takes an int32_t: the hash loses its upper half, and  *)
(* is sign-extended again when it is compared with a size_t.                *)
UInt16(hash) == hash % (Half \div 2)

Int32(hash) ==
  LET low == hash % (2 * Half)
  IN IF low < Half THEN low ELSE low + (SizeMod - 2 * Half)

(* The hashes that come back unchanged.  (So do the 2^31 largest ones, for  *)
(* which nothing is claimed here.)  That of 192.168.70.134 does not: as a   *)
(* little-endian number this address is 2^31 or more.                       *)
Survives(hash) == hash < Half

(* A timer of the N4 task fires.                                            *)
Fire(t) ==
  /\ timers' = timers \ {t}
  /\ queue' = Append(queue, t)
  /\ UNCHANGED <<objs, graph, lastTimer, lastTrxn, unanswered, n4, udp, budget,
                 ghosts>>

--------------------------------------------------------------------------------
(* The N4 task.  It takes the next TIME_OUT whatever became of the          *)
(* association since the timer fired; only the hash is looked up.           *)
Take(arg) ==
  /\ n4 = Idle
  /\ queue # <<>>
  /\ Head(queue).arg = arg
  /\ queue' = Tail(queue)

Dropped(arg) ==
  /\ Take(arg)
  /\ Found(Head(queue).hash) = {}
  /\ UNCHANGED <<objs, graph, timers, lastTimer, lastTrxn, unanswered, n4, udp,
                 budget, ghosts>>

(* initiate_heartbeat_request, up to send_heartbeat_request.                *)
InitiateHeartbeat ==
  /\ Take("TRIGGER_HEARTBEAT")
  /\ \E u \in Found(Head(queue).hash) :
       /\ objs' = [objs EXCEPT ![graph[u]].retries = 0]
       /\ n4' = [at |-> "arm", obj |-> graph[u]]
  /\ UNCHANGED <<graph, timers, lastTimer, lastTrxn, unanswered, udp, budget,
                 ghosts>>

RetriesLeftMore(i) == objs[i].retries <= MaxRetries
RetriesLeftNone(i) == FALSE
RetriesLeft(i)     == objs[i].retries < MaxRetries

(* timeout_heartbeat_request with retries left.                             *)
RetryHeartbeat ==
  /\ Take("TIMEOUT_HEARTBEAT")
  /\ \E u \in Found(Head(queue).hash) :
       /\ RetriesLeft(graph[u])
       /\ objs' = [objs EXCEPT ![graph[u]].retries = @ + 1]
       /\ n4' = [at |-> "arm", obj |-> graph[u]]
  /\ UNCHANGED <<graph, timers, lastTimer, lastTrxn, unanswered, udp, budget,
                 ghosts>>

FailAssociationIfRemoved ==
  /\ Take("TIMEOUT_HEARTBEAT")
  /\ \E u \in Found(Head(queue).hash) :
       /\ ~RetriesLeft(graph[u])
       /\ failed' = IF Found(Int32(Hash[u])) = {} THEN failed ELSE failed \cup {graph[u]}
       /\ graph' = [v \in Upfs |->
                      IF v \in Found(Int32(Hash[u])) THEN 0 ELSE graph[v]]
  /\ UNCHANGED <<objs, timers, lastTimer, lastTrxn, unanswered, n4, udp, budget,
                 sent>>

(* timeout_heartbeat_request after the last retry: N4_NODE_FAILURE is sent  *)
(* to the SMF application and the association is removed, if the hash finds *)
(* it: else it stays, and no timer is set for it.                           *)
FailAssociation ==
  /\ Take("TIMEOUT_HEARTBEAT")
  /\ \E u \in Found(Head(queue).hash) :
       /\ ~RetriesLeft(graph[u])
       /\ failed' = failed \cup {graph[u]}
       /\ graph' = [v \in Upfs |->
                      IF v \in Found(Int32(Hash[u])) THEN 0 ELSE graph[v]]
  /\ UNCHANGED <<objs, timers, lastTimer, lastTrxn, unanswered, n4, udp, budget,
                 sent>>

(* timeout_release_request: send_release_request keeps nothing; the answer  *)
(* only empties the set of sessions, which nothing ever fills.              *)
SendRelease ==
  /\ Take("GRACEFUL_RELEASE")
  /\ Found(Head(queue).hash) # {}
  /\ UNCHANGED <<objs, graph, timers, lastTimer, lastTrxn, unanswered, n4, udp,
                 budget, ghosts>>

(* send_heartbeat_request starts the time-out ...                           *)
ArmTimeout ==
  /\ n4.at = "arm"
  /\ Arm(n4.obj, "TIMEOUT_HEARTBEAT")
  /\ n4' = [n4 EXCEPT !.at = "send"]
  /\ UNCHANGED <<graph, queue, lastTrxn, unanswered, udp, budget, ghosts>>

(* ... and then names the transaction whose response it waits for.          *)
SendHeartbeat ==
  /\ n4.at = "send"
  /\ lastTrxn' = lastTrxn + 1
  /\ objs' = [objs EXCEPT ![n4.obj].trxn = lastTrxn + 1]
  /\ unanswered' = unanswered \cup {lastTrxn + 1}
  /\ sent' = [sent EXCEPT ![n4.obj] = @ + 1]
  /\ n4' = Idle
  /\ UNCHANGED <<graph, timers, queue, lastTimer, udp, budget, failed>>

--------------------------------------------------------------------------------
(* The UDP thread.                                                          *)

(* handle_receive_heartbeat_response: only the transaction of the latest    *)
(* request leads to an association.                                         *)
ReceiveHeartbeatResponse(x) ==
  /\ udp = Idle
  /\ responses < MaxResponses
  /\ responses' = responses + 1
  /\ unanswered' = unanswered \ {x}
  /\ \/ \E u \in Associated :
          /\ objs[graph[u]].trxn = x
          /\ udp' = [at |-> "disarm", obj |-> graph[u]]
     \/ /\ \A u \in Associated : objs[graph[u]].trxn # x
        /\ udp' = udp
  /\ UNCHANGED <<objs, graph, timers, queue, lastTimer, lastTrxn, n4, setups,
                 ghosts>>

(* check_association_on_add for a setup request or response of a UPF that   *)
(* is known: its heartbeat starts over.  (The set of sessions to restore is *)
(* never filled, so a new recovery time stamp has no effect.)               *)
ReceiveSetupAgain(u) ==
  /\ udp = Idle
  /\ setups < MaxSetups
  /\ graph[u] # 0
  /\ setups' = setups + 1
  /\ udp' = [at |-> "disarm", obj |-> graph[u]]
  /\ UNCHANGED <<objs, graph, timers, queue, lastTimer, lastTrxn, unanswered, n4,
                 responses, ghosts>>

FullLate == Cardinality(Associated) > MaxAssociations
Full     == Cardinality(Associated) >= MaxAssociations

ReceiveSetupEvicts(u) ==
  /\ udp = Idle
  /\ setups < MaxSetups
  /\ graph[u] = 0
  /\ setups' = setups + 1
  /\ objs' = Append(objs, [upf |-> u, timer |-> 0, trxn |-> 0, retries |-> 0])
  /\ sent' = Append(sent, 0)
  /\ graph' = [v \in Upfs |-> IF v = u THEN Len(objs) + 1 ELSE IF Full THEN 0 ELSE graph[v]]
  /\ udp' = [at |-> "rearm", obj |-> Len(objs) + 1]
  /\ UNCHANGED <<timers, queue, lastTimer, lastTrxn, unanswered, n4, responses,
                 failed>>

(* add_association for a new UPF; when the graph is full nothing is added,  *)
(* though the setup request is accepted all the same.                       *)
ReceiveSetup(u) ==
  /\ udp = Idle
  /\ setups < MaxSetups
  /\ graph[u] = 0
  /\ setups' = setups + 1
  /\ \/ /\ ~Full
        /\ objs' = Append(objs, [upf |-> u, timer |-> 0, trxn |-> 0, retries |-> 0])
        /\ sent' = Append(sent, 0)
        /\ graph' = [graph EXCEPT ![u] = Len(objs) + 1]
        /\ udp' = [at |-> "rearm", obj |-> Len(objs) + 1]
     \/ /\ Full
        /\ UNCHANGED <<objs, sent, graph, udp>>
  /\ UNCHANGED <<timers, queue, lastTimer, lastTrxn, unanswered, n4, responses,
                 failed>>

Disarm ==
  /\ udp.at = "disarm"
  /\ timers' = RemoveTimer(objs[udp.obj].timer)
  /\ udp' = [udp EXCEPT !.at = "rearm"]
  /\ UNCHANGED <<objs, graph, queue, lastTimer, lastTrxn, unanswered, n4, budget,
                 ghosts>>

(* trigger_heartbeat_request_procedure.                                     *)
Rearm ==
  /\ udp.at = "rearm"
  /\ Arm(udp.obj, "TRIGGER_HEARTBEAT")
  /\ udp' = Idle
  /\ UNCHANGED <<graph, queue, lastTrxn, unanswered, n4, budget, ghosts>>

(* handle_receive_association_update_request asking for the release of the  *)
(* association: the association is looked up under the node id of the SMF   *)
(* itself, not that of the UPF in the message.                              *)
ReceiveReleaseWish(u) ==
  /\ udp = Idle
  /\ setups < MaxSetups
  /\ setups' = setups + 1
  /\ \/ \E v \in Found(OwnHash) :
          /\ lastTimer' = lastTimer + 1
          /\ timers' = timers \cup
               {[id |-> lastTimer + 1, arg |-> "GRACEFUL_RELEASE", hash |-> Hash[v]]}
     \/ /\ Found(OwnHash) = {}
        /\ UNCHANGED <<lastTimer, timers>>
  /\ UNCHANGED <<objs, graph, queue, lastTrxn, unanswered, n4, udp, responses, ghosts>>

--------------------------------------------------------------------------------
N4Task ==
  \/ \E arg \in TimerArgs : Dropped(arg)
  \/ InitiateHeartbeat \/ RetryHeartbeat \/ FailAssociation \/ SendRelease
  \/ ArmTimeout \/ SendHeartbeat

Next ==
  \/ \E t \in timers : Fire(t)
  \/ N4Task
  \/ \E x \in unanswered : ReceiveHeartbeatResponse(x)
  \/ \E u \in Upfs : ReceiveSetupAgain(u) \/ ReceiveSetup(u) \/ ReceiveReleaseWish(u)
  \/ Disarm \/ Rearm

(* The timers run down, the N4 task drains its queue and the UDP thread     *)
(* finishes what it received; nothing need ever be received.                *)
Fairness ==
  /\ WF_vars(\E t \in timers : Fire(t))
  /\ WF_vars(N4Task)
  /\ WF_vars(Disarm \/ Rearm)

Spec     == Init /\ [][Next]_vars
FairSpec == Spec /\ Fairness

--------------------------------------------------------------------------------
(* While a UPF is associated and not given up something will come back to   *)
(* it: a running timer, a queued TIME_OUT, or a thread about to set a timer *)
(* (trigger_heartbeat_request_procedure, send_heartbeat_request).  Without  *)
(* it a UPF that dies would never be reported.                              *)
Heartbeats(u) ==
  \/ \E t \in timers : t.hash = Hash[u] /\ t.arg # "GRACEFUL_RELEASE"
  \/ \E k \in DOMAIN queue : queue[k].hash = Hash[u] /\ queue[k].arg # "GRACEFUL_RELEASE"
  \/ n4.at = "arm" /\ objs[n4.obj].upf = u
  \/ udp.at \in {"disarm", "rearm"} /\ objs[udp.obj].upf = u

HeartbeatAlive == \A u \in Associated : Heartbeats(u) \/ graph[u] \in failed

(* timeout_heartbeat_request, "remove the association with this UPF": the   *)
(* only association that is in the graph although it was reported as failed *)
(* is one whose hash does not survive the int32_t of remove_association.    *)
FailedIsRemoved == \A u \in Associated : graph[u] \in failed => ~Survives(Hash[u])

(* No UPF is reported as failed before its association sent MaxRetries      *)
(* heartbeats, whatever timers an earlier association of the UPF left.      *)
FailureNeedsHeartbeats == \A i \in failed : sent[i] >= MaxRetries

(* An association is removed only by the failure of its own heartbeat: not  *)
(* by the setup of another UPF, which finds the graph full, and not by what *)
(* an earlier association left in the queue.                                *)
RemovedHasFailed ==
  [][\A u \in Upfs : graph[u] # 0 /\ graph'[u] # graph[u] => graph[u] \in failed']_vars

(* PFCP_MAX_ASSOCIATIONS bounds the graph every session selects from.       *)
WithinCapacity == Cardinality(Associated) <= MaxAssociations

(* When no more responses and setups come, every UPF that is associated is  *)
(* reported as failed (timeout_heartbeat_request), for every hash; by       *)
(* FailedIsRemoved those that stay in the graph are of a lost hash.         *)
SilentIsGivenUp == <>[](\A u \in Associated : graph[u] \in failed)
================================================================================
