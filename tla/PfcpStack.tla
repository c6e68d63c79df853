------------------------------- MODULE PfcpStack -------------------------------
(***************************************************************************)
(* The PFCP transaction layer, class pfcp_l4_stack of oai-smf/src/pfcp     *)
(* (oai-upf/src/pfcp is the same code).  Each PFCP entity owns one stack.  *)
(* A stack numbers the requests it sends, remembers every procedure it     *)
(* sent or received in ONE map keyed by the sequence number of the header, *)
(* filters what arrives through that map, and answers a received request   *)
(* under the transaction id it handed to its application.                  *)
(*                                                                         *)
(* The network is UDP: a datagram may be lost, duplicated, reordered and   *)
(* arrive arbitrarily late, so `net' only grows and any member of it may   *)
(* be received any number of times, or never.                              *)
(***************************************************************************)
EXTENDS Naturals, Sequences

CONSTANTS
  Nodes,               \* the PFCP entities (SMF, UPFs)
  Traffic,             \* what applications send: a set of <<from, to, type>>
  InitSeq,             \* seq_num of each stack when it starts (clock noise)
  CtrMod,              \* seq_num wraps to 0 at 2^31
  WireMod,             \* the header keeps 24 bits of it
  MaxTrxn,             \* bound: transaction ids generated by one process
  N1,                  \* PFCP_N1_REQUESTS
  TimeoutsDispatched,  \* does the owner of the stack call time_out_event?
  None                 \* an absent map entry, or a null retry_msg

(* The message types, by their number in 3gpp_29.244.h; the numbers matter: *)
(* a response is accepted when its type is the type of the request plus 1.  *)
HeartbeatRequest      == 1
SessionEstablishment  == 50
SessionReportRequest  == 56
VersionNotSupported   == 11
NodeReportResponse    == 13
SessionReportResponse == 57

CheckRequestType ==
  {HeartbeatRequest, 3, 5, 7, 9, 12, NodeReportResponse, SessionEstablishment,
   52, 54, SessionReportRequest, SessionReportResponse}

(* The requests an application answers: type + 1 is their response.         *)
Answerable == CheckRequestType \ {NodeReportResponse, SessionReportResponse}

VARIABLES
  seqNum,         \* seq_num
  lastTrxn,       \* the last id generate_trxn_id returned
  pending,        \* pending_procedures: sequence number -> procedure
  trxnSeq,        \* trxn_id2seq_num
  retryTimers,    \* msg_out_retry_timers; a timer carries its sequence number
  cleanupTimers,  \* proc_cleanup_timers
  armed,          \* timers running in ITTI that will be reported to the stack
  expired,        \* TIME_OUT messages queued for the task that owns the stack
  net,            \* every datagram ever sent
  handed,         \* per transaction, the messages passed to the application
  answered        \* per transaction, the responses put on the wire

maps   == <<pending, trxnSeq>>
timers == <<retryTimers, cleanupTimers, armed, expired>>
vars   == <<seqNum, lastTrxn, maps, timers, net, handed, answered>>

Seqs   == 0 .. WireMod - 1
Trxns  == 1 .. MaxTrxn

(* req is the transaction that opened the exchange: it is not in the        *)
(* datagram, and is there for the properties.                               *)
Msgs == [src : Nodes, dst : Nodes, seq : Seqs, type : Nat, req : Nodes \X Trxns]

(* A timer id never comes back, so a timer is named by what it was started  *)
(* for: the n-th retry timer or the cleanup timer of a transaction.         *)
Timers == [kind : {"retry", "cleanup"}, trxn : Trxns, seq : Seqs, n : 0 .. N1]

Retry(t, s, n) == [kind |-> "retry", trxn |-> t, seq |-> s, n |-> n]
Cleanup(t, s)  == [kind |-> "cleanup", trxn |-> t, seq |-> s, n |-> 0]

(* pfcp_procedure.  `msg' is retry_msg (with its remote_endpoint), null for *)
(* a received procedure; `retrying' says that retry_timer_id is not 0.      *)
Procs == [trxn : Trxns, initial : Nat, triggered : Nat, retries : 0 .. N1,
          retrying : BOOLEAN, msg : Msgs \cup {None}]

ASSUME StackAssumption ==
  /\ CtrMod \in Nat \ {0}
  /\ WireMod \in Nat \ {0}
  /\ MaxTrxn \in Nat
  /\ N1 \in Nat
  /\ TimeoutsDispatched \in BOOLEAN
  /\ InitSeq \in [Nodes -> 0 .. CtrMod - 1]
  /\ None \notin Seqs \cup Msgs \cup Procs
  /\ Traffic \subseteq Nodes \X Nodes \X Answerable

TypeOK ==
  /\ seqNum \in [Nodes -> 0 .. CtrMod - 1]
  /\ lastTrxn \in [Nodes -> 0 .. MaxTrxn]
  /\ pending \in [Nodes -> [Seqs -> Procs \cup {None}]]
  /\ trxnSeq \in [Nodes -> [Trxns -> Seqs \cup {None}]]
  /\ retryTimers \in [Nodes -> SUBSET Timers]
  /\ cleanupTimers \in [Nodes -> SUBSET Timers]
  /\ armed \in [Nodes -> SUBSET Timers]
  /\ expired \in [Nodes -> SUBSET Timers]
  /\ net \subseteq Msgs
  /\ handed \in [Nodes -> [Trxns -> Seq(Msgs)]]
  /\ answered \in [Nodes -> [Trxns -> Nat]]

Init ==
  /\ seqNum = InitSeq
  /\ lastTrxn = [n \in Nodes |-> 0]
  /\ pending = [n \in Nodes |-> [s \in Seqs |-> None]]
  /\ trxnSeq = [n \in Nodes |-> [t \in Trxns |-> None]]
  /\ retryTimers = [n \in Nodes |-> {}]
  /\ cleanupTimers = [n \in Nodes |-> {}]
  /\ armed = [n \in Nodes |-> {}]
  /\ expired = [n \in Nodes |-> {}]
  /\ net = {}
  /\ handed = [n \in Nodes |-> [t \in Trxns |-> <<>>]]
  /\ answered = [n \in Nodes |-> [t \in Trxns |-> 0]]

--------------------------------------------------------------------------------
NextSeqNumNoWrap(s) == s + 1
NextSeqNumStuck(s)  == s

NextSeqNum(s) == IF s + 1 = CtrMod THEN 0 ELSE s + 1
Wire(s)       == s % WireMod

AcceptsAgain(p, type) == p.initial \in Answerable /\ type = p.initial + 1

(* check_response_type: once a procedure was triggered, the type it was     *)
(* triggered with stands for the initial one, and only a request has a      *)
(* response of its own.                                                     *)
AcceptsResponse(p, type) ==
  LET first == IF p.triggered = 0 THEN p.initial ELSE p.triggered
  IN IF first \in Answerable THEN type = first + 1
                             ELSE type = VersionNotSupported

NotInserted(map, s, p) == map

(* std::map::insert leaves an entry that is already there alone.            *)
Inserted(map, s, p) == IF map[s] = None THEN [map EXCEPT ![s] = p] ELSE map

NotErased(map, s) == map

Erased(map, s) == [map EXCEPT ![s] = None]

Start(n, ts) == armed' = [armed EXCEPT ![n] = @ \cup ts]

Stop(n, ts) == armed' = [armed EXCEPT ![n] = @ \ ts]

ForgetRetryLate(n, ts) == UNCHANGED retryTimers
ForgetRetry(n, ts) == retryTimers' = [retryTimers EXCEPT ![n] = @ \ ts]

KeepTrxn(n, t)   == UNCHANGED trxnSeq
ForgetTrxn(n, t) == trxnSeq' = [trxnSeq EXCEPT ![n][t] = None]

(* send_request, for a transaction id the caller has just generated.        *)
SendRequest(n, to, type) ==
  LET t == lastTrxn[n] + 1
      s == Wire(NextSeqNum(seqNum[n]))
      m == [src |-> n, dst |-> to, seq |-> s, type |-> type, req |-> <<n, t>>]
      p == [trxn |-> t, initial |-> type, triggered |-> 0, retries |-> 0,
            retrying |-> TRUE, msg |-> m]
  IN /\ <<n, to, type>> \in Traffic
     /\ lastTrxn[n] < MaxTrxn
     /\ seqNum' = [seqNum EXCEPT ![n] = NextSeqNum(@)]
     /\ lastTrxn' = [lastTrxn EXCEPT ![n] = t]
     /\ retryTimers' = [retryTimers EXCEPT ![n] = @ \cup {Retry(t, s, 0)}]
     /\ cleanupTimers' = [cleanupTimers EXCEPT ![n] = @ \cup {Cleanup(t, s)}]
     /\ Start(n, {Retry(t, s, 0), Cleanup(t, s)})
     /\ pending' = [pending EXCEPT ![n] = Inserted(@, s, p)]
     /\ trxnSeq' = [trxnSeq EXCEPT ![n][t] = s]
     /\ net' = net \cup {m}
     /\ UNCHANGED <<expired, handed, answered>>

(* handle_receive_message_cb, no procedure under that number: a request, or *)
(* a type taken for one, opens a procedure.                                 *)
ReceiveInitial(n, m) ==
  LET t == lastTrxn[n] + 1
      p == [trxn |-> t, initial |-> m.type, triggered |-> 0, retries |-> 0,
            retrying |-> FALSE, msg |-> None]
  IN /\ m.dst = n
     /\ pending[n][m.seq] = None
     /\ m.type \in CheckRequestType
     /\ lastTrxn[n] < MaxTrxn
     /\ lastTrxn' = [lastTrxn EXCEPT ![n] = t]
     /\ cleanupTimers' = [cleanupTimers EXCEPT ![n] = @ \cup {Cleanup(t, m.seq)}]
     /\ Start(n, {Cleanup(t, m.seq)})
     /\ pending' = [pending EXCEPT ![n] = Inserted(@, m.seq, p)]
     /\ trxnSeq' = [trxnSeq EXCEPT ![n][t] = m.seq]
     /\ handed' = [handed EXCEPT ![n][t] = Append(@, m)]
     /\ UNCHANGED <<seqNum, retryTimers, expired, net, answered>>

(* The same callback when a procedure has that number: what is not its      *)
(* response is silently discarded, whoever sent it.                         *)
ReceiveTriggered(n, m) ==
  LET p  == pending[n][m.seq]
      rt == Retry(p.trxn, m.seq, p.retries)
      stopped == IF p.retrying THEN {rt} ELSE {}
  IN /\ m.dst = n
     /\ p # None
     /\ AcceptsResponse(p, m.type)
     /\ pending' = [pending EXCEPT ![n][m.seq] =
          [p EXCEPT !.retrying = FALSE, !.triggered = IF @ = 0 THEN m.type ELSE @]]
     /\ Stop(n, stopped)
     /\ ForgetRetry(n, stopped)
     /\ handed' = [handed EXCEPT ![n][p.trxn] = Append(@, m)]
     /\ UNCHANGED <<seqNum, lastTrxn, trxnSeq, cleanupTimers, expired, net, answered>>

(* send_response with DELETE_TX, the only action any caller passes, for a   *)
(* request the application was handed.  It may be called again for the same *)
(* transaction: the id is then unknown and the response is discarded.       *)
(* stop_proc_cleanup_timer erases the timer from msg_out_retry_timers,      *)
(* where it never is, and leaves it in proc_cleanup_timers.                 *)
SendResponse(n, t) ==
  LET m == handed[n][t][1]
      s == trxnSeq[n][t]
      p == pending[n][s]
  IN /\ handed[n][t] # <<>>
     /\ m.type \in Answerable
     /\ s # None
     /\ net' = net \cup {[src |-> n, dst |-> m.src, seq |-> s,
                          type |-> m.type + 1, req |-> m.req]}
     /\ answered' = [answered EXCEPT ![n][t] = @ + 1]
     /\ Stop(n, IF p = None THEN {} ELSE {Cleanup(p.trxn, s)})
     /\ pending' = [pending EXCEPT ![n] = Erased(@, s)]
     /\ ForgetTrxn(n, t)
     /\ UNCHANGED <<seqNum, lastTrxn, retryTimers, cleanupTimers, expired, handed>>

--------------------------------------------------------------------------------
(* An ITTI timer of the stack fires: its TIME_OUT is queued and can no      *)
(* longer be removed.  The N4 tasks of SMF and UPF look at arg1_user, which *)
(* is 0 for these timers, and drop the message without calling the stack:   *)
(* then the timers change nothing and are not followed any further.         *)
TimerFires(n, tm) ==
  /\ TimeoutsDispatched
  /\ tm \in armed[n]
  /\ armed' = [armed EXCEPT ![n] = @ \ {tm}]
  /\ expired' = [expired EXCEPT ![n] = @ \cup {tm}]
  /\ UNCHANGED <<seqNum, lastTrxn, maps, retryTimers, cleanupTimers, net, handed, answered>>

(* time_out_event on a retry timer: send the request again, N1 times at     *)
(* most.  A received procedure has no retry_msg: the code would dereference *)
(* a null pointer, and no step stands for that.                             *)
Retransmit(n, tm) ==
  LET p    == pending[n][tm.seq]
      next == Retry(p.trxn, tm.seq, p.retries + 1)
  IN /\ tm \in expired[n] \cap retryTimers[n]
     /\ p # None
     /\ p.retries < N1
     /\ p.msg # None
     /\ expired' = [expired EXCEPT ![n] = @ \ {tm}]
     /\ pending' = [pending EXCEPT ![n][tm.seq] =
                      [p EXCEPT !.retries = @ + 1, !.retrying = TRUE]]
     /\ retryTimers' = [retryTimers EXCEPT ![n] = (@ \ {tm}) \cup {next}]
     /\ Start(n, {next})
     /\ net' = net \cup {p.msg}
     /\ UNCHANGED <<seqNum, lastTrxn, trxnSeq, cleanupTimers, handed, answered>>

(* ... else the procedure is only reported to the log, and stays.           *)
GiveUp(n, tm) ==
  /\ tm \in expired[n] \cap retryTimers[n]
  /\ pending[n][tm.seq] # None => pending[n][tm.seq].retries >= N1
  /\ expired' = [expired EXCEPT ![n] = @ \ {tm}]
  /\ retryTimers' = [retryTimers EXCEPT ![n] = @ \ {tm}]
  /\ UNCHANGED <<seqNum, lastTrxn, maps, cleanupTimers, armed, net, handed, answered>>

(* time_out_event on a cleanup timer: whatever procedure is now pending     *)
(* under the sequence number of the timer is erased; its entry in           *)
(* trxn_id2seq_num stays.                                                   *)
CleanupTimeOut(n, tm) ==
  /\ tm \in (expired[n] \cap cleanupTimers[n]) \ retryTimers[n]
  /\ expired' = [expired EXCEPT ![n] = @ \ {tm}]
  /\ cleanupTimers' = [cleanupTimers EXCEPT ![n] = @ \ {tm}]
  /\ pending' = [pending EXCEPT ![n] = Erased(@, tm.seq)]
  /\ UNCHANGED <<seqNum, lastTrxn, trxnSeq, retryTimers, armed, net, handed, answered>>

(* time_out_event on a timer the stack stopped after it had fired.          *)
UnknownTimeOut(n, tm) ==
  /\ tm \in expired[n] \ (retryTimers[n] \cup cleanupTimers[n])
  /\ expired' = [expired EXCEPT ![n] = @ \ {tm}]
  /\ UNCHANGED <<seqNum, lastTrxn, maps, retryTimers, cleanupTimers, armed,
                 net, handed, answered>>

--------------------------------------------------------------------------------
TimeOut(n) ==
  \/ \E tm \in armed[n] : TimerFires(n, tm)
  \/ \E tm \in expired[n] : \/ Retransmit(n, tm)
                            \/ GiveUp(n, tm)
                            \/ CleanupTimeOut(n, tm)
                            \/ UnknownTimeOut(n, tm)

Next ==
  \E n \in Nodes :
    \/ \E x \in Traffic : SendRequest(n, x[2], x[3])
    \/ \E m \in net : ReceiveInitial(n, m) \/ ReceiveTriggered(n, m)
    \/ \E t \in Trxns : SendResponse(n, t)
    \/ TimeOut(n)

(* Nothing is promised to happen: the network may lose every datagram, and  *)
(* as SMF and UPF run their stacks nobody handles the time-outs.            *)
Spec == Init /\ [][Next]_vars

--------------------------------------------------------------------------------
(* What the transaction layer promises.                                     *)

IsResponse(m) == m.type \notin Answerable

(* The two maps agree on the transactions that are pending: send_response   *)
(* finds the procedure of the transaction it answers, whatever numbers the  *)
(* peers chose and however often the counter wrapped.                       *)
PendingIsMapped ==
  \A n \in Nodes, s \in Seqs :
    pending[n][s] # None => trxnSeq[n][pending[n][s].trxn] = s

(* A received request is answered at most once, even when the application   *)
(* calls send_response twice for its transaction.                           *)
OneResponseSent == \A n \in Nodes, t \in Trxns : answered[n][t] <= 1

(* However often the network repeats a response, the application sees at    *)
(* most one under a transaction (triggered_msg_type closes the procedure).  *)
OneResponseHandedUp ==
  \A n \in Nodes, t \in Trxns :
    \A i, j \in DOMAIN handed[n][t] :
      IsResponse(handed[n][t][i]) /\ IsResponse(handed[n][t][j]) => i = j

(* While a request is with the application, a repetition of it by the       *)
(* network is not handed up a second time.                                  *)
Live(n, t) == handed[n][t] # <<>> /\ answered[n][t] = 0

OneExecutionInFlight ==
  \A n \in Nodes : \A t, u \in Trxns :
    (Live(n, t) /\ Live(n, u) /\ handed[n][t][1] = handed[n][u][1]
      /\ ~ IsResponse(handed[n][t][1])) => t = u

(* A response handed up under the transaction of a request of this entity   *)
(* answers that request, although the map is keyed by the bare sequence     *)
(* number and the peers choose their numbers without regard to it.  When    *)
(* two requests that cross have one number the response may be lost, or be  *)
(* handed up under the transaction of the peer's request; it is never taken *)
(* for the response to another request of this entity.                      *)
Requested(n, t) == \E m \in net : ~IsResponse(m) /\ m.req = <<n, t>>

ResponseToOwnRequest ==
  \A n \in Nodes, t \in Trxns : Requested(n, t) =>
    \A i \in DOMAIN handed[n][t] : handed[n][t][i].req = <<n, t>>

(* A request is never retransmitted once its response was handed up, even   *)
(* when its retry timer had fired before the response arrived.              *)
NoRetryAfterResponse ==
  [][\A n \in Nodes, s \in Seqs :
       (pending[n][s] # None /\ pending'[n][s] # None
         /\ pending'[n][s].retries > pending[n][s].retries)
       => pending[n][s].triggered = 0]_vars
================================================================================
