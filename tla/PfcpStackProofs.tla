---------------------------- MODULE PfcpStackProofs ----------------------------
(***************************************************************************)
(* What PfcpStack promises for every set of entities, every counter width, *)
(* every starting number and every bound, with or without time-outs.       *)
(***************************************************************************)
EXTENDS PfcpStack, Integers, TLAPS

(* The header keeps a remainder of the counter, which is a sequence number. *)
LEMMA WireType == \A c \in Nat : Wire(c) \in Seqs
  BY StackAssumption DEF Wire, Seqs

(* The counter stays below 2^31 when it is incremented.                     *)
LEMMA NextSeqNumType ==
  \A c \in 0 .. CtrMod - 1 : NextSeqNum(c) \in 0 .. CtrMod - 1
  BY StackAssumption DEF NextSeqNum

(* What stands in the pending map of a node is a procedure.                 *)
LEMMA PendingType ==
  ASSUME TypeOK, NEW n \in Nodes, NEW s \in Seqs, pending[n][s] # None
  PROVE  pending[n][s] \in Procs
<1>1. pending \in [Nodes -> [Seqs -> Procs \cup {None}]]
  BY DEF TypeOK
<1>2. pending[n] \in [Seqs -> Procs \cup {None}]
  BY <1>1
<1>3. pending[n][s] \in Procs \cup {None}
  BY <1>2
<1> QED
  BY <1>3

(* A message on the network has a sequence number of the header's width.    *)
LEMMA NetType ==
  ASSUME TypeOK, NEW m \in net
  PROVE  m \in Msgs /\ m.seq \in Seqs /\ m.type \in Nat
<1>1. m \in Msgs
  BY DEF TypeOK
<1> QED
  BY <1>1 DEF Msgs

(* Every variable keeps its type: in particular the wrapping counter never  *)
(* leaves its 31 bits and a procedure is only filed under a number a header *)
(* can carry.                                                               *)
LEMMA TypeStep == TypeOK /\ [Next]_vars => TypeOK'
<1> SUFFICES ASSUME TypeOK, [Next]_vars PROVE TypeOK'
  OBVIOUS
<1>1. ASSUME NEW n \in Nodes, NEW x \in Traffic, SendRequest(n, x[2], x[3])
      PROVE  TypeOK'
  <2> DEFINE t == lastTrxn[n] + 1
             s == Wire(NextSeqNum(seqNum[n]))
             m == [src |-> n, dst |-> x[2], seq |-> s, type |-> x[3], req |-> <<n, t>>]
             p == [trxn |-> t, initial |-> x[3], triggered |-> 0, retries |-> 0,
                   retrying |-> TRUE, msg |-> m]
  <2>1. NextSeqNum(seqNum[n]) \in 0 .. CtrMod - 1 /\ s \in Seqs
    BY NextSeqNumType, WireType DEF TypeOK
  <2>2. t \in Trxns /\ t \in 0 .. MaxTrxn
    <3>1. lastTrxn[n] < MaxTrxn
      BY <1>1 DEF SendRequest
    <3>2. lastTrxn[n] \in 0 .. MaxTrxn
      BY DEF TypeOK
    <3> QED
      BY <3>1, <3>2, StackAssumption DEF Trxns
  <2>3. x[2] \in Nodes /\ x[3] \in Nat
    BY StackAssumption
       DEF Answerable, CheckRequestType, HeartbeatRequest, NodeReportResponse,
           SessionEstablishment, SessionReportRequest, SessionReportResponse
  <2>4. m \in Msgs /\ p \in Procs
    BY <2>1, <2>2, <2>3, StackAssumption DEF Msgs, Procs
  <2>5. Retry(t, s, 0) \in Timers /\ Cleanup(t, s) \in Timers
    BY <2>1, <2>2, StackAssumption DEF Retry, Cleanup, Timers
  <2>6. pending' \in [Nodes -> [Seqs -> Procs \cup {None}]]
    BY <1>1, <2>1, <2>4 DEF SendRequest, TypeOK, Inserted
  <2>7. /\ seqNum' = [seqNum EXCEPT ![n] = NextSeqNum(@)]
        /\ lastTrxn' = [lastTrxn EXCEPT ![n] = t]
        /\ retryTimers' = [retryTimers EXCEPT ![n] = @ \cup {Retry(t, s, 0)}]
        /\ cleanupTimers' = [cleanupTimers EXCEPT ![n] = @ \cup {Cleanup(t, s)}]
        /\ armed' = [armed EXCEPT ![n] = @ \cup {Retry(t, s, 0), Cleanup(t, s)}]
        /\ trxnSeq' = [trxnSeq EXCEPT ![n][t] = s]
        /\ net' = net \cup {m}
        /\ UNCHANGED <<expired, handed, answered>>
    BY <1>1 DEF SendRequest, Start
  <2> HIDE DEF t, s, m
  <2> QED
    BY <2>1, <2>2, <2>4, <2>5, <2>6, <2>7 DEF TypeOK
<1>2. ASSUME NEW n \in Nodes, NEW m \in net, ReceiveInitial(n, m)
      PROVE  TypeOK'
  <2> DEFINE t == lastTrxn[n] + 1
             p == [trxn |-> t, initial |-> m.type, triggered |-> 0, retries |-> 0,
                   retrying |-> FALSE, msg |-> None]
  <2>1. m \in Msgs /\ m.seq \in Seqs /\ t \in Trxns /\ t \in 0 .. MaxTrxn
    <3>1. lastTrxn[n] < MaxTrxn
      BY <1>2 DEF ReceiveInitial
    <3>2. lastTrxn[n] \in 0 .. MaxTrxn /\ m \in Msgs
      BY DEF TypeOK
    <3> QED
      BY <3>1, <3>2, StackAssumption DEF Trxns, Msgs
  <2>2. p \in Procs /\ Cleanup(t, m.seq) \in Timers
    BY <2>1, StackAssumption DEF Procs, Msgs, Cleanup, Timers
  <2>3. pending' \in [Nodes -> [Seqs -> Procs \cup {None}]]
    BY <1>2, <2>1, <2>2 DEF ReceiveInitial, TypeOK, Inserted
  <2>4. handed' \in [Nodes -> [Trxns -> Seq(Msgs)]]
    BY <1>2, <2>1 DEF ReceiveInitial, TypeOK
  <2>5. /\ lastTrxn' = [lastTrxn EXCEPT ![n] = t]
        /\ cleanupTimers' = [cleanupTimers EXCEPT ![n] = @ \cup {Cleanup(t, m.seq)}]
        /\ armed' = [armed EXCEPT ![n] = @ \cup {Cleanup(t, m.seq)}]
        /\ trxnSeq' = [trxnSeq EXCEPT ![n][t] = m.seq]
        /\ UNCHANGED <<seqNum, retryTimers, expired, net, answered>>
    BY <1>2 DEF ReceiveInitial, Start
  <2> HIDE DEF t, p
  <2> QED
    BY <2>1, <2>2, <2>3, <2>4, <2>5 DEF TypeOK
<1>3. ASSUME NEW n \in Nodes, NEW m \in net, ReceiveTriggered(n, m)
      PROVE  TypeOK'
  <2> DEFINE p == pending[n][m.seq]
             q == [p EXCEPT !.retrying = FALSE, !.triggered = IF @ = 0 THEN m.type ELSE @]
  <2>1. m \in Msgs /\ m.seq \in Seqs /\ m.type \in Nat
    BY NetType
  <2>10. p # None /\ pending' = [pending EXCEPT ![n][m.seq] = q]
    BY <1>3 DEF ReceiveTriggered
  <2>11. p \in Procs
    BY <2>1, <2>10, PendingType
  <2>2. p.trxn \in Trxns /\ q \in Procs
    <3> HIDE DEF p
    <3> QED
      BY <2>1, <2>11 DEF Procs
  <2>3. pending' \in [Nodes -> [Seqs -> Procs \cup {None}]]
    <3> HIDE DEF q
    <3> QED
      BY <2>1, <2>10, <2>2 DEF TypeOK
  <2>4. handed' \in [Nodes -> [Trxns -> Seq(Msgs)]]
    <3>1. handed' = [handed EXCEPT ![n][p.trxn] = Append(@, m)]
      BY <1>3 DEF ReceiveTriggered
    <3> DEFINE u == p.trxn
    <3>2. u \in Trxns /\ handed' = [handed EXCEPT ![n][u] = Append(@, m)]
      BY <2>2, <3>1
    <3> HIDE DEF u
    <3>3. handed \in [Nodes -> [Trxns -> Seq(Msgs)]]
      BY DEF TypeOK
    <3>4. Append(handed[n][u], m) \in Seq(Msgs)
      BY <2>1, <3>2, <3>3
    <3> QED
      BY <3>2, <3>3, <3>4
  <2> QED
    BY <1>3, <2>3, <2>4 DEF ReceiveTriggered, Stop, ForgetRetry, TypeOK
<1>4. ASSUME NEW n \in Nodes, NEW t \in Trxns, SendResponse(n, t)
      PROVE  TypeOK'
  <2> DEFINE m == handed[n][t][1]
             s == trxnSeq[n][t]
             r == [src |-> n, dst |-> m.src, seq |-> s, type |-> m.type + 1, req |-> m.req]
  <2>1. m \in Msgs /\ s \in Seqs
    BY <1>4 DEF SendResponse, TypeOK
  <2>2. r \in Msgs
    BY <2>1 DEF Msgs
  <2>3. pending' \in [Nodes -> [Seqs -> Procs \cup {None}]]
    BY <1>4, <2>1 DEF SendResponse, TypeOK, Erased
  <2> QED
    BY <1>4, <2>2, <2>3 DEF SendResponse, Stop, ForgetTrxn, TypeOK
<1>5. ASSUME NEW n \in Nodes, NEW tm \in armed[n], TimerFires(n, tm)
      PROVE  TypeOK'
  BY <1>5 DEF TimerFires, TypeOK, maps
<1>6. ASSUME NEW n \in Nodes, NEW tm \in expired[n], Retransmit(n, tm)
      PROVE  TypeOK'
  <2> DEFINE p == pending[n][tm.seq]
             q == [p EXCEPT !.retries = @ + 1, !.retrying = TRUE]
             next == Retry(p.trxn, tm.seq, p.retries + 1)
  <2>1. tm \in Timers /\ tm.seq \in Seqs
    BY DEF TypeOK, Timers
  <2>2. p \in Procs /\ p.retries < N1 /\ p.msg # None
    BY <1>6, <2>1 DEF Retransmit, TypeOK
  <2>3. p.retries + 1 \in 0 .. N1 /\ p.trxn \in Trxns /\ p.msg \in Msgs
    BY <2>2, StackAssumption DEF Procs
  <2>4. next \in Timers /\ q \in Procs
    BY <2>1, <2>2, <2>3 DEF Retry, Timers, Procs
  <2>5. /\ pending' = [pending EXCEPT ![n][tm.seq] = q]
        /\ expired' = [expired EXCEPT ![n] = @ \ {tm}]
        /\ retryTimers' = [retryTimers EXCEPT ![n] = (@ \ {tm}) \cup {next}]
        /\ armed' = [armed EXCEPT ![n] = @ \cup {next}]
        /\ net' = net \cup {p.msg}
        /\ UNCHANGED <<seqNum, lastTrxn, trxnSeq, cleanupTimers, handed, answered>>
    BY <1>6 DEF Retransmit, Start
  <2> HIDE DEF p, q, next
  <2> QED
    BY <2>1, <2>3, <2>4, <2>5 DEF TypeOK
<1>10. ASSUME NEW n \in Nodes, NEW tm \in expired[n], GiveUp(n, tm)
       PROVE  TypeOK'
  BY <1>10 DEF GiveUp, TypeOK, maps
<1>7. ASSUME NEW n \in Nodes, NEW tm \in expired[n], CleanupTimeOut(n, tm)
      PROVE  TypeOK'
  BY <1>7 DEF CleanupTimeOut, TypeOK, Erased
<1>8. ASSUME NEW n \in Nodes, NEW tm \in expired[n], UnknownTimeOut(n, tm)
      PROVE  TypeOK'
  BY <1>8 DEF UnknownTimeOut, TypeOK, maps
<1>9. CASE UNCHANGED vars
  BY <1>9 DEF TypeOK, vars, maps, timers
<1> QED
  BY <1>1, <1>2, <1>3, <1>4, <1>5, <1>6, <1>7, <1>8, <1>9, <1>10 DEF Next, TimeOut

(* The maps of a stack that has just been built are empty and well typed.   *)
LEMMA TypeInit == Init => TypeOK
  BY StackAssumption DEF Init, TypeOK

(* Every variable of the stack keeps its type: seq_num its 31 bits, and the *)
(* procedures numbers that the 24 bits of a header can carry.               *)
THEOREM TypeCorrect == Spec => []TypeOK
<1> QED
  BY TypeInit, TypeStep, PTL DEF Spec

--------------------------------------------------------------------------------
(* The two maps and the answers.                                            *)

(* generate_trxn_id never returns an id twice, so nothing is known of the   *)
(* ids it has not returned yet.                                             *)
Fresh ==
  \A n \in Nodes, t \in Trxns : t > lastTrxn[n] =>
    handed[n][t] = <<>> /\ trxnSeq[n][t] = None /\ answered[n][t] = 0

(* A transaction that still has its number was not answered.                *)
MappedIsUnanswered ==
  \A n \in Nodes, t \in Trxns : trxnSeq[n][t] # None => answered[n][t] = 0

MapInv == TypeOK /\ Fresh /\ PendingIsMapped /\ MappedIsUnanswered /\ OneResponseSent

(* A stack starts with empty maps, which agree.                             *)
LEMMA MapInit == Init => MapInv
<1> SUFFICES ASSUME Init PROVE MapInv
  OBVIOUS
<1>1. TypeOK
  BY TypeInit
<1> QED
  BY <1>1 DEF Init, MapInv, Fresh, PendingIsMapped, MappedIsUnanswered, OneResponseSent

(* A step that sends or opens a procedure under a fresh transaction id and  *)
(* leaves the answers alone keeps the maps in agreement.                    *)
LEMMA OpenStep ==
  ASSUME MapInv, NEW n \in Nodes, NEW t \in Trxns, NEW s \in Seqs, NEW p \in Procs,
         t = lastTrxn[n] + 1, p.trxn = t,
         lastTrxn' = [lastTrxn EXCEPT ![n] = t],
         pending' = [pending EXCEPT ![n] = Inserted(@, s, p)],
         trxnSeq' = [trxnSeq EXCEPT ![n][t] = s],
         UNCHANGED answered,
         \A k \in Nodes, u \in Trxns : (k # n \/ u # t) => handed'[k][u] = handed[k][u]
  PROVE  Fresh' /\ PendingIsMapped' /\ MappedIsUnanswered' /\ OneResponseSent'
<1> USE DEF MapInv
<1>1. lastTrxn \in [Nodes -> 0 .. MaxTrxn] /\ MaxTrxn \in Nat
  BY StackAssumption DEF TypeOK
<1>2. t > lastTrxn[n] /\ trxnSeq[n][t] = None /\ answered[n][t] = 0
  BY <1>1 DEF Fresh, Trxns
<1>3. \A k \in Nodes, u \in Trxns :
        trxnSeq'[k][u] = IF k = n /\ u = t THEN s ELSE trxnSeq[k][u]
  BY DEF TypeOK
<1>4. \A k \in Nodes, r \in Seqs :
        pending'[k][r] = IF k = n /\ r = s /\ pending[n][s] = None
                         THEN p ELSE pending[k][r]
  BY DEF TypeOK, Inserted
<1>5. Fresh'
  BY <1>1, <1>2, <1>3 DEF Fresh, Trxns
<1>6. PendingIsMapped'
  <2> SUFFICES ASSUME NEW k \in Nodes, NEW r \in Seqs, pending'[k][r] # None
               PROVE  trxnSeq'[k][pending'[k][r].trxn] = r
    BY DEF PendingIsMapped
  <2>1. CASE k = n /\ r = s /\ pending[n][s] = None
    BY <2>1, <1>3, <1>4
  <2>2. CASE ~(k = n /\ r = s /\ pending[n][s] = None)
    <3>1. pending'[k][r] = pending[k][r] /\ pending[k][r] \in Procs
      BY <2>2, <1>4 DEF TypeOK
    <3>2. trxnSeq[k][pending[k][r].trxn] = r /\ pending[k][r].trxn \in Trxns
      BY <3>1 DEF PendingIsMapped, Procs
    <3>3. r # None
      BY StackAssumption
    <3> QED
      BY <3>1, <3>2, <3>3, <1>2, <1>3
  <2> QED
    BY <2>1, <2>2
<1>7. MappedIsUnanswered'
  BY <1>2, <1>3 DEF MappedIsUnanswered
<1>8. OneResponseSent'
  BY DEF OneResponseSent
<1> QED
  BY <1>5, <1>6, <1>7, <1>8

(* A step that only erases pending procedures, or rewrites one without      *)
(* changing its transaction, does too.                                      *)
LEMMA RewriteStep ==
  ASSUME MapInv, UNCHANGED <<lastTrxn, trxnSeq, answered>>,
         \A k \in Nodes, r \in Seqs : pending'[k][r] # None =>
           pending[k][r] # None /\ pending'[k][r].trxn = pending[k][r].trxn,
         \A k \in Nodes, u \in Trxns : handed[k][u] = <<>> =>
           \/ handed'[k][u] = <<>>
           \/ trxnSeq[k][u] # None
  PROVE  Fresh' /\ PendingIsMapped' /\ MappedIsUnanswered' /\ OneResponseSent'
BY DEF MapInv, Fresh, PendingIsMapped, MappedIsUnanswered, OneResponseSent

(* send_request, send_response, the receive handlers and time_out_event each*)
(* leave the two maps in agreement.                                         *)
LEMMA MapStep == MapInv /\ [Next]_vars => MapInv'
<1> SUFFICES ASSUME MapInv, [Next]_vars
             PROVE  Fresh' /\ PendingIsMapped' /\ MappedIsUnanswered' /\ OneResponseSent'
  BY TypeStep DEF MapInv
<1>0. TypeOK /\ TypeOK'
  BY TypeStep DEF MapInv
<1>1. ASSUME NEW n \in Nodes, NEW x \in Traffic, SendRequest(n, x[2], x[3])
      PROVE  Fresh' /\ PendingIsMapped' /\ MappedIsUnanswered' /\ OneResponseSent'
  <2> DEFINE t == lastTrxn[n] + 1
             s == Wire(NextSeqNum(seqNum[n]))
             p == [trxn |-> t, initial |-> x[3], triggered |-> 0, retries |-> 0,
                   retrying |-> TRUE,
                   msg |-> [src |-> n, dst |-> x[2], seq |-> s, type |-> x[3],
                            req |-> <<n, t>>]]
  <2>1. /\ lastTrxn' = [lastTrxn EXCEPT ![n] = t]
        /\ pending' = [pending EXCEPT ![n] = Inserted(@, s, p)]
        /\ trxnSeq' = [trxnSeq EXCEPT ![n][t] = s]
        /\ UNCHANGED <<answered, handed>>
        /\ lastTrxn[n] < MaxTrxn
    BY <1>1 DEF SendRequest
  <2>2. lastTrxn[n] \in 0 .. MaxTrxn /\ seqNum[n] \in 0 .. CtrMod - 1
    BY <1>0 DEF TypeOK
  <2>3. t \in Trxns /\ s \in Seqs
    BY <2>1, <2>2, StackAssumption, WireType, NextSeqNumType DEF Trxns
  <2>4. x[2] \in Nodes /\ x[3] \in Nat
    BY StackAssumption
       DEF Answerable, CheckRequestType, HeartbeatRequest, NodeReportResponse,
           SessionEstablishment, SessionReportRequest, SessionReportResponse
  <2>5. p \in Procs /\ p.trxn = t
    BY <2>3, <2>4, StackAssumption DEF Procs, Msgs
  <2> HIDE DEF s, p
  <2> QED
    BY <2>1, <2>3, <2>5, OpenStep
<1>2. ASSUME NEW n \in Nodes, NEW m \in net, ReceiveInitial(n, m)
      PROVE  Fresh' /\ PendingIsMapped' /\ MappedIsUnanswered' /\ OneResponseSent'
  <2> DEFINE t == lastTrxn[n] + 1
             p == [trxn |-> t, initial |-> m.type, triggered |-> 0, retries |-> 0,
                   retrying |-> FALSE, msg |-> None]
  <2>1. /\ lastTrxn' = [lastTrxn EXCEPT ![n] = t]
        /\ pending' = [pending EXCEPT ![n] = Inserted(@, m.seq, p)]
        /\ trxnSeq' = [trxnSeq EXCEPT ![n][t] = m.seq]
        /\ handed' = [handed EXCEPT ![n][t] = Append(@, m)]
        /\ UNCHANGED answered
        /\ lastTrxn[n] < MaxTrxn
    BY <1>2 DEF ReceiveInitial
  <2>2. lastTrxn[n] \in 0 .. MaxTrxn /\ m \in Msgs
    BY <1>0 DEF TypeOK
  <2>3. t \in Trxns /\ m.seq \in Seqs
    BY <2>1, <2>2, StackAssumption DEF Trxns, Msgs
  <2>4. p \in Procs /\ p.trxn = t
    BY <2>2, <2>3, StackAssumption DEF Procs, Msgs
  <2>5. \A k \in Nodes, u \in Trxns : (k # n \/ u # t) => handed'[k][u] = handed[k][u]
    BY <1>0, <2>1 DEF TypeOK
  <2> HIDE DEF p
  <2> QED
    BY <2>1, <2>3, <2>4, <2>5, OpenStep
<1>3. ASSUME NEW n \in Nodes, NEW m \in net, ReceiveTriggered(n, m)
      PROVE  Fresh' /\ PendingIsMapped' /\ MappedIsUnanswered' /\ OneResponseSent'
  <2> DEFINE p == pending[n][m.seq]
             q == [p EXCEPT !.retrying = FALSE, !.triggered = IF @ = 0 THEN m.type ELSE @]
  <2>1. /\ pending' = [pending EXCEPT ![n][m.seq] = q]
        /\ handed' = [handed EXCEPT ![n][p.trxn] = Append(@, m)]
        /\ UNCHANGED <<lastTrxn, trxnSeq, answered>>
        /\ p # None
    BY <1>3 DEF ReceiveTriggered
  <2>2. m.seq \in Seqs
    BY <1>0 DEF TypeOK, Msgs
  <2>3. p \in Procs
    BY <1>0, <2>1, <2>2, PendingType
  <2>4. p.trxn \in Trxns /\ q.trxn = p.trxn
    <3> HIDE DEF p
    <3> QED
      BY <2>3 DEF Procs
  <2>5. trxnSeq[n][p.trxn] # None
    BY <2>1, <2>2, StackAssumption DEF MapInv, PendingIsMapped
  <2> HIDE DEF p, q
  <2>6. \A k \in Nodes, r \in Seqs : pending'[k][r] # None =>
           pending[k][r] # None /\ pending'[k][r].trxn = pending[k][r].trxn
    BY <1>0, <2>1, <2>2, <2>4 DEF TypeOK, p
  <2>7. \A k \in Nodes, u \in Trxns :
          handed'[k][u] = handed[k][u] \/ trxnSeq[k][u] # None
    BY <1>0, <2>1, <2>4, <2>5 DEF TypeOK
  <2> QED
    BY <2>1, <2>6, <2>7, RewriteStep
<1>4. ASSUME NEW n \in Nodes, NEW t \in Trxns, SendResponse(n, t)
      PROVE  Fresh' /\ PendingIsMapped' /\ MappedIsUnanswered' /\ OneResponseSent'
  <2> DEFINE s == trxnSeq[n][t]
  <2>1. /\ s # None
        /\ answered' = [answered EXCEPT ![n][t] = @ + 1]
        /\ pending' = [pending EXCEPT ![n] = Erased(@, s)]
        /\ trxnSeq' = [trxnSeq EXCEPT ![n][t] = None]
        /\ UNCHANGED <<lastTrxn, handed>>
    BY <1>4 DEF SendResponse, ForgetTrxn
  <2>2. s \in Seqs
    BY <1>0, <2>1 DEF TypeOK
  <2>3. answered[n][t] = 0
    BY <2>1 DEF MapInv, MappedIsUnanswered
  <2>4. \A k \in Nodes, u \in Trxns :
          /\ trxnSeq'[k][u] = IF k = n /\ u = t THEN None ELSE trxnSeq[k][u]
          /\ answered'[k][u] = IF k = n /\ u = t THEN 1 ELSE answered[k][u]
    BY <1>0, <2>1, <2>3 DEF TypeOK
  <2>5. \A k \in Nodes, r \in Seqs :
          pending'[k][r] = IF k = n /\ r = s THEN None ELSE pending[k][r]
    BY <1>0, <2>1, <2>2 DEF TypeOK, Erased
  <2> HIDE DEF s
  <2>6. Fresh'
    BY <2>1, <2>4 DEF MapInv, Fresh, s
  <2>7. PendingIsMapped'
    <3> SUFFICES ASSUME NEW k \in Nodes, NEW r \in Seqs, pending'[k][r] # None
                 PROVE  trxnSeq'[k][pending'[k][r].trxn] = r
      BY DEF PendingIsMapped
    <3>1. pending'[k][r] = pending[k][r] /\ ~(k = n /\ r = s)
      BY <2>5
    <3>2. trxnSeq[k][pending[k][r].trxn] = r /\ pending[k][r].trxn \in Trxns
      BY <1>0, <3>1 DEF MapInv, PendingIsMapped, TypeOK, Procs
    <3>3. ~(k = n /\ pending[k][r].trxn = t)
      BY <3>1, <3>2 DEF s
    <3> QED
      BY <2>4, <3>1, <3>2, <3>3
  <2>8. MappedIsUnanswered' /\ OneResponseSent'
    BY <2>4 DEF MapInv, MappedIsUnanswered, OneResponseSent
  <2> QED
    BY <2>6, <2>7, <2>8
<1>5. ASSUME NEW n \in Nodes, NEW tm \in expired[n], Retransmit(n, tm)
      PROVE  Fresh' /\ PendingIsMapped' /\ MappedIsUnanswered' /\ OneResponseSent'
  <2> DEFINE p == pending[n][tm.seq]
             q == [p EXCEPT !.retries = @ + 1, !.retrying = TRUE]
  <2>1. /\ pending' = [pending EXCEPT ![n][tm.seq] = q]
        /\ p # None
        /\ UNCHANGED <<lastTrxn, trxnSeq, answered, handed>>
    BY <1>5 DEF Retransmit
  <2>2. tm.seq \in Seqs
    BY <1>0 DEF TypeOK, Timers
  <2>3. q.trxn = p.trxn
    BY <1>0, <2>1, <2>2 DEF TypeOK, Procs
  <2> HIDE DEF q
  <2>4. \A k \in Nodes, r \in Seqs : pending'[k][r] # None =>
           pending[k][r] # None /\ pending'[k][r].trxn = pending[k][r].trxn
    BY <1>0, <2>1, <2>2, <2>3 DEF TypeOK
  <2> QED
    BY <2>1, <2>4, RewriteStep
<1>6. ASSUME NEW n \in Nodes, NEW tm \in expired[n], CleanupTimeOut(n, tm)
      PROVE  Fresh' /\ PendingIsMapped' /\ MappedIsUnanswered' /\ OneResponseSent'
  <2>1. /\ pending' = [pending EXCEPT ![n] = Erased(@, tm.seq)]
        /\ UNCHANGED <<lastTrxn, trxnSeq, answered, handed>>
    BY <1>6 DEF CleanupTimeOut
  <2>2. \A k \in Nodes, r \in Seqs : pending'[k][r] # None =>
           pending[k][r] # None /\ pending'[k][r].trxn = pending[k][r].trxn
    BY <1>0, <2>1 DEF TypeOK, Erased
  <2> QED
    BY <2>1, <2>2, RewriteStep
<1>7. CASE UNCHANGED <<lastTrxn, pending, trxnSeq, answered, handed>>
  BY <1>7, RewriteStep
<1>8. ASSUME NEW n \in Nodes, NEW tm,
             TimerFires(n, tm) \/ GiveUp(n, tm) \/ UnknownTimeOut(n, tm)
      PROVE  UNCHANGED <<lastTrxn, pending, trxnSeq, answered, handed>>
  BY <1>8 DEF TimerFires, GiveUp, UnknownTimeOut, maps
<1>9. CASE UNCHANGED vars
  BY <1>7, <1>9 DEF vars, maps
<1> QED
  BY <1>1, <1>2, <1>3, <1>4, <1>5, <1>6, <1>7, <1>8, <1>9 DEF Next, TimeOut

(* A pending procedure is found under the number its transaction maps to,   *)
(* so send_response erases the procedure it answers and no other's.         *)
THEOREM MapsAgree == Spec => []PendingIsMapped
<1>1. MapInv => PendingIsMapped
  BY DEF MapInv
<1> QED
  BY <1>1, MapInit, MapStep, PTL DEF Spec

(* No transaction is answered twice, whatever the application does.         *)
THEOREM AnsweredOnce == Spec => []OneResponseSent
<1>1. MapInv => OneResponseSent
  BY DEF MapInv
<1> QED
  BY <1>1, MapInit, MapStep, PTL DEF Spec

--------------------------------------------------------------------------------
(* Responses on their way up.                                               *)

(* Only requests an application answers, and their responses, are sent.     *)
Sendable == Answerable \cup {a + 1 : a \in Answerable}

(* A response is nobody's request: its number is not that of a request an   *)
(* application answers, and it never is the number of VERSION NOT SUPPORTED.*)
LEMMA TypeNumbers ==
  /\ \A a \in Answerable : a + 1 \notin Answerable /\ a \in Nat /\ a # 0
  /\ VersionNotSupported \notin Sendable
  BY DEF Sendable, Answerable, CheckRequestType, HeartbeatRequest,
         NodeReportResponse, SessionEstablishment, SessionReportRequest,
         SessionReportResponse, VersionNotSupported

(* While no response triggered a procedure opened by a request, none was    *)
(* handed up under its transaction; afterwards it accepts no other one.     *)
ClosedByResponse ==
  \A n \in Nodes, s \in Seqs : pending[n][s] # None =>
    LET p == pending[n][s]
    IN IF p.triggered = 0
       THEN p.initial \in Answerable =>
              \A i \in DOMAIN handed[n][p.trxn] : ~IsResponse(handed[n][p.trxn][i])
       ELSE p.triggered \notin Answerable

OnlySendable ==
  /\ \A m \in net : m.type \in Sendable
  /\ \A n \in Nodes, s \in Seqs :
       pending[n][s] # None /\ pending[n][s].msg # None =>
         pending[n][s].msg.type \in Sendable

HandInv == MapInv /\ OnlySendable /\ ClosedByResponse /\ OneResponseHandedUp

(* What is accepted as triggered is the first response to a request.        *)
LEMMA AcceptedIsFirst ==
  ASSUME NEW p \in Procs, NEW type \in Sendable, AcceptsResponse(p, type)
  PROVE  p.triggered = 0 \/ p.triggered \in Answerable
<1> QED
  BY TypeNumbers DEF AcceptsResponse

(* check_response_type lets through only responses, and to a procedure that *)
(* has none yet only when its request is one that can be answered.          *)
LEMMA AcceptedIsResponse ==
  ASSUME NEW p \in Procs, NEW type \in Sendable, AcceptsResponse(p, type)
  PROVE  /\ type \notin Answerable /\ type # 0
         /\ p.triggered = 0 => p.initial \in Answerable
  BY TypeNumbers DEF AcceptsResponse

(* Nothing has been handed up when the stacks are built.                    *)
LEMMA HandInit == Init => HandInv
<1> SUFFICES ASSUME Init PROVE HandInv
  OBVIOUS
<1>1. MapInv
  BY MapInit
<1> QED
  BY <1>1 DEF Init, HandInv, OnlySendable, ClosedByResponse, OneResponseHandedUp

(* Two pending procedures of one entity belong to different transactions.   *)
LEMMA OneProcedurePerTrxn ==
  ASSUME MapInv, NEW n \in Nodes, NEW r \in Seqs, NEW s \in Seqs,
         pending[n][r] # None, pending[n][s] # None,
         pending[n][r].trxn = pending[n][s].trxn
  PROVE  r = s
  BY DEF MapInv, PendingIsMapped

(* Erasing procedures, or rewriting them without touching what they were    *)
(* opened and triggered with, changes nothing for the responses.            *)
LEMMA HandRewriteStep ==
  ASSUME HandInv, UNCHANGED handed,
         \A k \in Nodes, r \in Seqs : pending'[k][r] # None =>
           /\ pending[k][r] # None
           /\ pending'[k][r].trxn = pending[k][r].trxn
           /\ pending'[k][r].initial = pending[k][r].initial
           /\ pending'[k][r].triggered = pending[k][r].triggered
  PROVE  ClosedByResponse' /\ OneResponseHandedUp'
  BY DEF HandInv, ClosedByResponse, OneResponseHandedUp, IsResponse

(* Append adds one position at the end and changes no other.                *)
LEMMA AppendFacts ==
  ASSUME NEW S, NEW h \in Seq(S), NEW e \in S
  PROVE  /\ DOMAIN Append(h, e) = 1 .. Len(h) + 1 /\ DOMAIN h = 1 .. Len(h)
         /\ Len(h) \in Nat
         /\ \A l \in 1 .. Len(h) : Append(h, e)[l] = h[l]
  OBVIOUS

(* Whatever is under way was sent by send_request or send_response, so it is*)
(* a message of one of the types they send.                                 *)
LEMMA SendableStep == TypeOK /\ OnlySendable /\ [Next]_vars => OnlySendable'
<1> SUFFICES ASSUME TypeOK, OnlySendable, [Next]_vars PROVE OnlySendable'
  OBVIOUS
<1>0. /\ pending \in [Nodes -> [Seqs -> Procs \cup {None}]]
      /\ \A tm \in Timers : tm.seq \in Seqs
      /\ \A n \in Nodes : expired[n] \subseteq Timers
      /\ \A m \in net : m.seq \in Seqs
  BY DEF TypeOK, Timers, Msgs
<1>1. ASSUME NEW n \in Nodes, NEW x \in Traffic, SendRequest(n, x[2], x[3])
      PROVE  OnlySendable'
  <2> DEFINE t == lastTrxn[n] + 1
             s == Wire(NextSeqNum(seqNum[n]))
             m == [src |-> n, dst |-> x[2], seq |-> s, type |-> x[3], req |-> <<n, t>>]
             p == [trxn |-> t, initial |-> x[3], triggered |-> 0, retries |-> 0,
                   retrying |-> TRUE, msg |-> m]
  <2>1. /\ pending' = [pending EXCEPT ![n] = Inserted(@, s, p)]
        /\ net' = net \cup {m}
    BY <1>1 DEF SendRequest
  <2>2. m.type = x[3] /\ x[3] \in Sendable /\ p.msg = m
    BY StackAssumption DEF Sendable
  <2> HIDE DEF m, p, s
  <2>3. \A k \in Nodes, r \in Seqs : pending'[k][r] = pending[k][r] \/ pending'[k][r] = p
    BY <1>0, <2>1 DEF Inserted
  <2> QED
    BY <2>1, <2>2, <2>3 DEF OnlySendable
<1>2. ASSUME NEW n \in Nodes, NEW m \in net, ReceiveInitial(n, m)
      PROVE  OnlySendable'
  <2> DEFINE p == [trxn |-> lastTrxn[n] + 1, initial |-> m.type, triggered |-> 0,
                   retries |-> 0, retrying |-> FALSE, msg |-> None]
  <2>1. pending' = [pending EXCEPT ![n] = Inserted(@, m.seq, p)] /\ net' = net
    BY <1>2 DEF ReceiveInitial
  <2>2. p.msg = None
    OBVIOUS
  <2> HIDE DEF p
  <2>3. \A k \in Nodes, r \in Seqs : pending'[k][r] = pending[k][r] \/ pending'[k][r] = p
    BY <1>0, <2>1 DEF Inserted
  <2> QED
    BY <2>1, <2>2, <2>3 DEF OnlySendable
<1>3. ASSUME NEW n \in Nodes, NEW m \in net, ReceiveTriggered(n, m)
      PROVE  OnlySendable'
  <2> DEFINE p == pending[n][m.seq]
             q == [p EXCEPT !.retrying = FALSE, !.triggered = IF @ = 0 THEN m.type ELSE @]
  <2>1. /\ pending' = [pending EXCEPT ![n][m.seq] = q] /\ net' = net /\ p # None
    BY <1>3 DEF ReceiveTriggered
  <2>2. p \in Procs
    BY <1>0, <2>1
  <2>3. q.msg = p.msg
    BY <2>2 DEF Procs
  <2> HIDE DEF q
  <2>4. \A k \in Nodes, r \in Seqs :
          pending'[k][r] = IF k = n /\ r = m.seq THEN q ELSE pending[k][r]
    BY <1>0, <2>1
  <2> QED
    BY <2>1, <2>3, <2>4 DEF OnlySendable
<1>4. ASSUME NEW n \in Nodes, NEW t \in Trxns, SendResponse(n, t)
      PROVE  OnlySendable'
  <2> DEFINE m == handed[n][t][1]
             s == trxnSeq[n][t]
             r == [src |-> n, dst |-> m.src, seq |-> s, type |-> m.type + 1, req |-> m.req]
  <2>1. /\ net' = net \cup {r}
        /\ m.type \in Answerable
        /\ pending' = [pending EXCEPT ![n] = Erased(@, s)]
    BY <1>4 DEF SendResponse
  <2>2. r.type \in Sendable
    BY <2>1 DEF Sendable
  <2> HIDE DEF r, s
  <2>3. \A k \in Nodes, v \in Seqs : pending'[k][v] = pending[k][v] \/ pending'[k][v] = None
    BY <1>0, <2>1 DEF Erased
  <2> QED
    BY <2>1, <2>2, <2>3 DEF OnlySendable
<1>5. ASSUME NEW n \in Nodes, NEW tm \in expired[n], Retransmit(n, tm)
      PROVE  OnlySendable'
  <2> DEFINE p == pending[n][tm.seq]
             q == [p EXCEPT !.retries = @ + 1, !.retrying = TRUE]
  <2>1. /\ pending' = [pending EXCEPT ![n][tm.seq] = q]
        /\ p # None /\ p.msg # None
        /\ net' = net \cup {p.msg}
    BY <1>5 DEF Retransmit
  <2>2. p \in Procs /\ tm.seq \in Seqs
    BY <1>0, <2>1
  <2>3. q.msg = p.msg /\ p.msg.type \in Sendable
    BY <2>1, <2>2 DEF Procs, OnlySendable
  <2> HIDE DEF q
  <2>4. \A k \in Nodes, r \in Seqs :
          pending'[k][r] = IF k = n /\ r = tm.seq THEN q ELSE pending[k][r]
    BY <1>0, <2>1, <2>2
  <2> HIDE DEF p
  <2> QED
    BY <2>1, <2>3, <2>4 DEF OnlySendable
<1>6. ASSUME NEW n \in Nodes, NEW tm \in expired[n], CleanupTimeOut(n, tm)
      PROVE  OnlySendable'
  <2>1. pending' = [pending EXCEPT ![n] = Erased(@, tm.seq)] /\ net' = net
    BY <1>6 DEF CleanupTimeOut
  <2>2. \A k \in Nodes, v \in Seqs : pending'[k][v] = pending[k][v] \/ pending'[k][v] = None
    BY <1>0, <2>1 DEF Erased
  <2> QED
    BY <2>1, <2>2 DEF OnlySendable
<1>7. CASE UNCHANGED <<pending, net>>
  BY <1>7 DEF OnlySendable
<1>8. ASSUME NEW n \in Nodes, NEW tm,
             TimerFires(n, tm) \/ GiveUp(n, tm) \/ UnknownTimeOut(n, tm)
      PROVE  UNCHANGED <<pending, net>>
  BY <1>8 DEF TimerFires, GiveUp, UnknownTimeOut, maps
<1>9. CASE UNCHANGED vars
  BY <1>7, <1>9 DEF vars, maps
<1> QED
  BY <1>1, <1>2, <1>3, <1>4, <1>5, <1>6, <1>7, <1>8, <1>9 DEF Next, TimeOut

(* No handler hands up a second response under one transaction: the first is*)
(* kept in the procedure, whose filter then refuses every other.            *)
LEMMA HandStep == HandInv /\ [Next]_vars => HandInv'
<1> SUFFICES ASSUME HandInv, [Next]_vars
             PROVE  ClosedByResponse' /\ OneResponseHandedUp'
  BY MapStep, SendableStep DEF HandInv, MapInv
<1>0. TypeOK /\ MapInv /\ MapInv' /\ TypeOK'
  BY MapStep DEF HandInv, MapInv
<1>1. ASSUME NEW n \in Nodes, NEW x \in Traffic, SendRequest(n, x[2], x[3])
      PROVE  ClosedByResponse' /\ OneResponseHandedUp'
  <2> DEFINE t == lastTrxn[n] + 1
             s == Wire(NextSeqNum(seqNum[n]))
             m == [src |-> n, dst |-> x[2], seq |-> s, type |-> x[3], req |-> <<n, t>>]
             p == [trxn |-> t, initial |-> x[3], triggered |-> 0, retries |-> 0,
                   retrying |-> TRUE, msg |-> m]
  <2>1. /\ pending' = [pending EXCEPT ![n] = Inserted(@, s, p)]
        /\ net' = net \cup {m}
        /\ UNCHANGED handed
        /\ lastTrxn[n] < MaxTrxn
    BY <1>1 DEF SendRequest
  <2>2. x[3] \in Answerable
    BY StackAssumption
  <2>3. m.type = x[3] /\ p.trxn = t /\ p.triggered = 0
    OBVIOUS
  <2>4. handed[n][t] = <<>>
    <3>1. lastTrxn[n] \in 0 .. MaxTrxn
      BY <1>0 DEF TypeOK
    <3>2. t \in Trxns /\ t > lastTrxn[n]
      BY <2>1, <3>1, StackAssumption DEF Trxns
    <3> QED
      BY <1>0, <3>2 DEF MapInv, Fresh
  <2> HIDE DEF m, p, s, t
  <2>6. OneResponseHandedUp'
    BY <2>1 DEF HandInv, OneResponseHandedUp
  <2>7. ClosedByResponse'
    <3>1. \A k \in Nodes, r \in Seqs : pending'[k][r] # None =>
            \/ pending'[k][r] = pending[k][r]
            \/ k = n /\ pending'[k][r] = p
      BY <1>0, <2>1 DEF TypeOK, Inserted
    <3>2. DOMAIN handed[n][t] = {}
      BY <2>4
    <3> QED
      BY <2>1, <2>3, <3>1, <3>2 DEF HandInv, ClosedByResponse, IsResponse
  <2> QED
    BY <2>6, <2>7
<1>2. ASSUME NEW n \in Nodes, NEW m \in net, ReceiveInitial(n, m)
      PROVE  ClosedByResponse' /\ OneResponseHandedUp'
  <2> DEFINE t == lastTrxn[n] + 1
             p == [trxn |-> t, initial |-> m.type, triggered |-> 0, retries |-> 0,
                   retrying |-> FALSE, msg |-> None]
  <2>1. /\ pending' = [pending EXCEPT ![n] = Inserted(@, m.seq, p)]
        /\ handed' = [handed EXCEPT ![n][t] = Append(@, m)]
        /\ UNCHANGED net
        /\ lastTrxn[n] < MaxTrxn
    BY <1>2 DEF ReceiveInitial
  <2>2. p.trxn = t /\ p.triggered = 0 /\ p.initial = m.type
    OBVIOUS
  <2>3. handed[n][t] = <<>> /\ t \in Trxns
    <3>1. lastTrxn[n] \in 0 .. MaxTrxn
      BY <1>0 DEF TypeOK
    <3>2. t \in Trxns /\ t > lastTrxn[n]
      BY <2>1, <3>1, StackAssumption DEF Trxns
    <3> QED
      BY <1>0, <3>2 DEF MapInv, Fresh
  <2>4. \A k \in Nodes, u \in Trxns :
          handed'[k][u] = IF k = n /\ u = t THEN <<m>> ELSE handed[k][u]
    <3> HIDE DEF p, t
    <3>1. handed \in [Nodes -> [Trxns -> Seq(Msgs)]]
      BY <1>0 DEF TypeOK
    <3>2. Append(handed[n][t], m) = <<m>>
      BY <2>3
    <3> QED
      BY <2>1, <2>3, <3>1, <3>2
  <2>5. \A k \in Nodes, r \in Seqs : pending'[k][r] # None =>
          \/ pending'[k][r] = pending[k][r]
          \/ k = n /\ pending'[k][r] = p
    <3> HIDE DEF p, t
    <3>1. pending \in [Nodes -> [Seqs -> Procs \cup {None}]]
      BY <1>0 DEF TypeOK
    <3> QED
      BY <2>1, <3>1 DEF Inserted
  <2>6. \A r \in Seqs : pending[n][r] # None =>
          pending[n][r].trxn # t /\ pending[n][r].trxn \in Trxns
    <3>1. lastTrxn[n] \in 0 .. MaxTrxn
      BY <1>0 DEF TypeOK
    <3>2. trxnSeq[n][t] = None
      BY <1>0, <2>3, <3>1 DEF MapInv, Fresh
    <3> QED
      BY <1>0, <3>2, StackAssumption DEF MapInv, PendingIsMapped, TypeOK, Procs
  <2>7. \A k \in Nodes, r \in Seqs : pending[k][r] # None => pending[k][r].trxn \in Trxns
    BY <1>0 DEF TypeOK, Procs
  <2> HIDE DEF p, t
  <2>9. OneResponseHandedUp'
    BY <2>4 DEF HandInv, OneResponseHandedUp
  <2>10. ClosedByResponse'
    <3> SUFFICES ASSUME NEW k \in Nodes, NEW r \in Seqs, pending'[k][r] # None
                 PROVE  LET q == pending'[k][r]
                        IN IF q.triggered = 0
                           THEN q.initial \in Answerable =>
                                  \A i \in DOMAIN handed'[k][q.trxn] :
                                    ~IsResponse(handed'[k][q.trxn][i])
                           ELSE q.triggered \notin Answerable
      BY DEF ClosedByResponse, IsResponse
    <3>1. CASE k = n /\ pending'[k][r] = p
      BY <2>2, <2>3, <2>4, <3>1 DEF IsResponse
    <3>2. CASE pending'[k][r] = pending[k][r]
      <4>1. handed'[k][pending[k][r].trxn] = handed[k][pending[k][r].trxn]
        BY <2>4, <2>6, <2>7, <3>2
      <4> QED
        BY <3>2, <4>1 DEF HandInv, ClosedByResponse
    <3> QED
      BY <2>5, <3>1, <3>2
  <2> QED
    BY <2>9, <2>10
<1>3. ASSUME NEW n \in Nodes, NEW m \in net, ReceiveTriggered(n, m)
      PROVE  ClosedByResponse' /\ OneResponseHandedUp'
  <2> DEFINE p == pending[n][m.seq]
             q == [p EXCEPT !.retrying = FALSE, !.triggered = IF @ = 0 THEN m.type ELSE @]
  <2>1. /\ pending' = [pending EXCEPT ![n][m.seq] = q]
        /\ handed' = [handed EXCEPT ![n][p.trxn] = Append(@, m)]
        /\ UNCHANGED net
        /\ p # None /\ AcceptsResponse(p, m.type)
    BY <1>3 DEF ReceiveTriggered
  <2>2. m.seq \in Seqs /\ m \in Msgs /\ m.type \in Sendable
    BY <1>0 DEF TypeOK, Msgs, HandInv, OnlySendable
  <2>3. p \in Procs /\ p.trxn \in Trxns
    <3>1. p \in Procs
      BY <1>0, <2>1, <2>2, PendingType
    <3> HIDE DEF p
    <3> QED
      BY <3>1 DEF Procs
  <2>4. p.triggered = 0
    BY <2>1, <2>2, <2>3, AcceptedIsFirst DEF HandInv, ClosedByResponse
  <2>5. m.type \notin Answerable /\ m.type # 0 /\ p.initial \in Answerable
    BY <2>1, <2>2, <2>3, <2>4, AcceptedIsResponse
  <2>6. q.trxn = p.trxn /\ q.triggered = m.type
    BY <2>3, <2>4 DEF Procs
  <2>7. \A i \in DOMAIN handed[n][p.trxn] : ~IsResponse(handed[n][p.trxn][i])
    BY <2>1, <2>2, <2>4, <2>5 DEF HandInv, ClosedByResponse
  <2>8. handed[n][p.trxn] \in Seq(Msgs)
    BY <1>0, <2>3 DEF TypeOK
  <2>9. \A k \in Nodes, u \in Trxns :
          handed'[k][u] = IF k = n /\ u = p.trxn THEN Append(handed[n][p.trxn], m)
                                                ELSE handed[k][u]
    BY <1>0, <2>1, <2>3 DEF TypeOK
  <2>10. \A k \in Nodes, r \in Seqs :
          pending'[k][r] = IF k = n /\ r = m.seq THEN q ELSE pending[k][r]
    BY <1>0, <2>1, <2>2 DEF TypeOK
  <2>11. \A r \in Seqs : pending[n][r] # None /\ r # m.seq => pending[n][r].trxn # p.trxn
    BY <1>0, <2>1, <2>2, OneProcedurePerTrxn
  <2>12. \A k \in Nodes, r \in Seqs : pending[k][r] # None => pending[k][r].trxn \in Trxns
    BY <1>0 DEF TypeOK, Procs
  <2> HIDE DEF p, q
  <2>14. OneResponseHandedUp'
    <3> SUFFICES ASSUME NEW k \in Nodes, NEW u \in Trxns,
                        NEW i \in DOMAIN handed'[k][u], NEW j \in DOMAIN handed'[k][u],
                        IsResponse(handed'[k][u][i]), IsResponse(handed'[k][u][j])
                 PROVE  i = j
      BY DEF OneResponseHandedUp, IsResponse
    <3>1. CASE k = n /\ u = p.trxn
      <4> DEFINE h == handed[n][p.trxn]
      <4>0. handed'[k][u] = Append(h, m) /\ h \in Seq(Msgs)
        BY <2>8, <2>9, <3>1
      <4> HIDE DEF h
      <4>1. /\ DOMAIN Append(h, m) = 1 .. Len(h) + 1 /\ DOMAIN h = 1 .. Len(h)
            /\ Len(h) \in Nat
            /\ \A l \in 1 .. Len(h) : Append(h, m)[l] = h[l]
        BY <2>2, <4>0, AppendFacts
      <4>2. i = Len(h) + 1 /\ j = Len(h) + 1
        <5>1. \A l \in 1 .. Len(h) : ~IsResponse(h[l])
          BY <2>7, <4>1 DEF h
        <5> QED
          BY <4>0, <4>1, <5>1
      <4> QED
        BY <4>2
    <3>2. CASE ~(k = n /\ u = p.trxn)
      BY <2>9, <3>2 DEF HandInv, OneResponseHandedUp
    <3> QED
      BY <3>1, <3>2
  <2>15. ClosedByResponse'
    <3> SUFFICES ASSUME NEW k \in Nodes, NEW r \in Seqs, pending'[k][r] # None
                 PROVE  LET v == pending'[k][r]
                        IN IF v.triggered = 0
                           THEN v.initial \in Answerable =>
                                  \A i \in DOMAIN handed'[k][v.trxn] :
                                    ~IsResponse(handed'[k][v.trxn][i])
                           ELSE v.triggered \notin Answerable
      BY DEF ClosedByResponse, IsResponse
    <3>1. CASE k = n /\ r = m.seq
      BY <2>5, <2>6, <2>10, <3>1
    <3>2. CASE ~(k = n /\ r = m.seq)
      <4>1. pending'[k][r] = pending[k][r]
        BY <2>10, <3>2
      <4>2. handed'[k][pending[k][r].trxn] = handed[k][pending[k][r].trxn]
        BY <2>9, <2>11, <2>12, <3>2, <4>1
      <4> QED
        BY <4>1, <4>2 DEF HandInv, ClosedByResponse
    <3> QED
      BY <3>1, <3>2
  <2> QED
    BY <2>14, <2>15
<1>4. ASSUME NEW n \in Nodes, NEW t \in Trxns, SendResponse(n, t)
      PROVE  ClosedByResponse' /\ OneResponseHandedUp'
  <2> DEFINE s == trxnSeq[n][t]
  <2>1. /\ pending' = [pending EXCEPT ![n] = Erased(@, s)]
        /\ UNCHANGED handed
    BY <1>4 DEF SendResponse
  <2> HIDE DEF s
  <2>4. \A k \in Nodes, v \in Seqs : pending'[k][v] # None =>
           pending'[k][v] = pending[k][v]
    BY <1>0, <2>1 DEF TypeOK, Erased
  <2> QED
    BY <2>1, <2>4, HandRewriteStep
<1>5. ASSUME NEW n \in Nodes, NEW tm \in expired[n], Retransmit(n, tm)
      PROVE  ClosedByResponse' /\ OneResponseHandedUp'
  <2> DEFINE p == pending[n][tm.seq]
             q == [p EXCEPT !.retries = @ + 1, !.retrying = TRUE]
  <2>1. /\ pending' = [pending EXCEPT ![n][tm.seq] = q]
        /\ p # None
        /\ UNCHANGED handed
    BY <1>5 DEF Retransmit
  <2>2. p \in Procs /\ tm.seq \in Seqs
    BY <1>0, <2>1 DEF TypeOK, Timers
  <2>3. q.trxn = p.trxn /\ q.initial = p.initial /\ q.triggered = p.triggered
    BY <2>2 DEF Procs
  <2> HIDE DEF q
  <2>4. \A k \in Nodes, r \in Seqs : pending'[k][r] # None =>
           /\ pending[k][r] # None
           /\ pending'[k][r].trxn = pending[k][r].trxn
           /\ pending'[k][r].initial = pending[k][r].initial
           /\ pending'[k][r].triggered = pending[k][r].triggered
    BY <1>0, <2>1, <2>2, <2>3 DEF TypeOK
  <2> QED
    BY <2>1, <2>4, HandRewriteStep
<1>6. ASSUME NEW n \in Nodes, NEW tm \in expired[n], CleanupTimeOut(n, tm)
      PROVE  ClosedByResponse' /\ OneResponseHandedUp'
  <2>1. /\ pending' = [pending EXCEPT ![n] = Erased(@, tm.seq)]
        /\ UNCHANGED handed
    BY <1>6 DEF CleanupTimeOut
  <2>2. \A k \in Nodes, r \in Seqs : pending'[k][r] # None =>
           pending'[k][r] = pending[k][r]
    BY <1>0, <2>1 DEF TypeOK, Erased
  <2> QED
    BY <2>1, <2>2, HandRewriteStep
<1>7. CASE UNCHANGED <<pending, handed>>
  BY <1>7, HandRewriteStep
<1>8. ASSUME NEW n \in Nodes, NEW tm,
             TimerFires(n, tm) \/ GiveUp(n, tm) \/ UnknownTimeOut(n, tm)
      PROVE  UNCHANGED <<pending, handed>>
  BY <1>8 DEF TimerFires, GiveUp, UnknownTimeOut, maps
<1>9. CASE UNCHANGED vars
  BY <1>7, <1>9 DEF vars, maps
<1> QED
  BY <1>1, <1>2, <1>3, <1>4, <1>5, <1>6, <1>7, <1>8, <1>9 DEF Next, TimeOut

(* The network may repeat a response for ever: the application is handed at *)
(* most one under each transaction.                                         *)
THEOREM HandedUpOnce == Spec => []OneResponseHandedUp
<1>1. HandInv => OneResponseHandedUp
  BY DEF HandInv
<1> QED
  BY <1>1, HandInit, HandStep, PTL DEF Spec

--------------------------------------------------------------------------------
(* Requests in flight, in an entity whose task does not dispatch time-outs. *)

(* A request that is with the application holds its sequence number.        *)
LiveIsPending ==
  \A n \in Nodes, t \in Trxns :
    Live(n, t) /\ handed[n][t][1].type \in Answerable =>
      /\ pending[n][handed[n][t][1].seq] # None
      /\ pending[n][handed[n][t][1].seq].trxn = t

FlightInv == HandInv /\ LiveIsPending /\ (\A n \in Nodes : expired[n] = {})

(* No request is open and no timer has fired when the stacks are built.     *)
LEMMA FlightInit == Init => FlightInv
<1> SUFFICES ASSUME Init PROVE FlightInv
  OBVIOUS
<1>1. HandInv
  BY HandInit
<1> QED
  BY <1>1 DEF Init, FlightInv, LiveIsPending, Live

(* What was first handed up under a transaction is a message.               *)
LEMMA HeadType ==
  ASSUME TypeOK, NEW n \in Nodes, NEW t \in Trxns, handed[n][t] # <<>>
  PROVE  handed[n][t][1] \in Msgs /\ handed[n][t][1].seq \in Seqs
<1>1. handed[n][t] \in Seq(Msgs)
  BY DEF TypeOK
<1>2. handed[n][t][1] \in Msgs
  BY <1>1
<1> QED
  BY <1>2 DEF Msgs

(* While time-outs are dropped, a request that is open keeps its procedure: *)
(* handle_receive_message_cb finds it there and drops the repetition.       *)
LEMMA FlightStep ==
  ASSUME ~TimeoutsDispatched, FlightInv, [Next]_vars
  PROVE  FlightInv'
<1> SUFFICES LiveIsPending' /\ (\A n \in Nodes : expired'[n] = {})
  BY HandStep DEF FlightInv
<1>0. TypeOK /\ MapInv /\ HandInv /\ TypeOK' /\ (\A n \in Nodes : expired[n] = {})
  BY HandStep DEF FlightInv, HandInv, MapInv
<1>1. ASSUME NEW n \in Nodes, NEW x \in Traffic, SendRequest(n, x[2], x[3])
      PROVE  LiveIsPending' /\ UNCHANGED expired
  <2> DEFINE s == Wire(NextSeqNum(seqNum[n]))
             p == [trxn |-> lastTrxn[n] + 1, initial |-> x[3], triggered |-> 0,
                   retries |-> 0, retrying |-> TRUE,
                   msg |-> [src |-> n, dst |-> x[2], seq |-> s, type |-> x[3],
                            req |-> <<n, lastTrxn[n] + 1>>]]
  <2>1. /\ pending' = [pending EXCEPT ![n] = Inserted(@, s, p)]
        /\ UNCHANGED <<expired, handed, answered>>
    BY <1>1 DEF SendRequest
  <2> HIDE DEF s, p
  <2>2. \A k \in Nodes, r \in Seqs : pending[k][r] # None => pending'[k][r] = pending[k][r]
    BY <1>0, <2>1 DEF TypeOK, Inserted
  <2> QED
    BY <1>0, <2>1, <2>2, HeadType DEF FlightInv, LiveIsPending, Live
<1>2. ASSUME NEW n \in Nodes, NEW m \in net, ReceiveInitial(n, m)
      PROVE  LiveIsPending' /\ UNCHANGED expired
  <2> DEFINE t == lastTrxn[n] + 1
             p == [trxn |-> t, initial |-> m.type, triggered |-> 0, retries |-> 0,
                   retrying |-> FALSE, msg |-> None]
  <2>1. /\ pending' = [pending EXCEPT ![n] = Inserted(@, m.seq, p)]
        /\ handed' = [handed EXCEPT ![n][t] = Append(@, m)]
        /\ UNCHANGED <<expired, answered>>
        /\ lastTrxn[n] < MaxTrxn
        /\ pending[n][m.seq] = None
    BY <1>2 DEF ReceiveInitial
  <2>2. lastTrxn[n] \in 0 .. MaxTrxn /\ m \in Msgs
    BY <1>0 DEF TypeOK
  <2>3. t \in Trxns /\ t > lastTrxn[n] /\ m.seq \in Seqs
    BY <2>1, <2>2, StackAssumption DEF Trxns, Msgs
  <2>4. handed[n][t] = <<>>
    BY <1>0, <2>3 DEF MapInv, Fresh
  <2>5. p.trxn = t /\ p # None
    <3>1. p \in Procs
      BY <2>2, <2>3, StackAssumption DEF Procs, Msgs
    <3> QED
      BY <3>1, StackAssumption
  <2> HIDE DEF p, t
  <2>6. \A k \in Nodes, u \in Trxns :
          handed'[k][u] = IF k = n /\ u = t THEN <<m>> ELSE handed[k][u]
    BY <1>0, <2>1, <2>3, <2>4 DEF TypeOK
  <2>7. /\ \A k \in Nodes, r \in Seqs : pending[k][r] # None => pending'[k][r] = pending[k][r]
        /\ pending'[n][m.seq] = p
    BY <1>0, <2>1, <2>3 DEF TypeOK, Inserted
  <2>8. LiveIsPending'
    <3> SUFFICES ASSUME NEW k \in Nodes, NEW u \in Trxns, Live(k, u)',
                        handed'[k][u][1].type \in Answerable
                 PROVE  /\ pending'[k][handed'[k][u][1].seq] # None
                        /\ pending'[k][handed'[k][u][1].seq].trxn = u
      BY DEF LiveIsPending
    <3>1. CASE k = n /\ u = t
      BY <2>5, <2>6, <2>7, <3>1
    <3>2. CASE ~(k = n /\ u = t)
      <4>1. handed'[k][u] = handed[k][u] /\ Live(k, u)
        BY <2>1, <2>6, <3>2 DEF Live
      <4> QED
        BY <1>0, <2>7, <4>1, HeadType DEF FlightInv, LiveIsPending, Live
    <3> QED
      BY <3>1, <3>2
  <2> QED
    BY <2>1, <2>8
<1>3. ASSUME NEW n \in Nodes, NEW m \in net, ReceiveTriggered(n, m)
      PROVE  LiveIsPending' /\ UNCHANGED expired
  <2> DEFINE p == pending[n][m.seq]
             q == [p EXCEPT !.retrying = FALSE, !.triggered = IF @ = 0 THEN m.type ELSE @]
  <2>1. /\ pending' = [pending EXCEPT ![n][m.seq] = q]
        /\ handed' = [handed EXCEPT ![n][p.trxn] = Append(@, m)]
        /\ UNCHANGED <<expired, answered>>
        /\ p # None /\ AcceptsResponse(p, m.type)
    BY <1>3 DEF ReceiveTriggered
  <2>2. m.seq \in Seqs /\ m \in Msgs /\ m.type \in Sendable
    BY <1>0 DEF TypeOK, Msgs, HandInv, OnlySendable
  <2>3. p \in Procs /\ p.trxn \in Trxns
    <3>1. p \in Procs
      BY <1>0, <2>1, <2>2, PendingType
    <3> HIDE DEF p
    <3> QED
      BY <3>1 DEF Procs
  <2>4. m.type \notin Answerable
    BY <2>1, <2>2, <2>3, AcceptedIsResponse
  <2>5. q.trxn = p.trxn /\ q # None
    <3>1. q \in Procs
      BY <2>2, <2>3 DEF Procs, Msgs
    <3> QED
      BY <2>3, <3>1, StackAssumption DEF Procs
  <2>6. handed[n][p.trxn] \in Seq(Msgs)
    BY <1>0, <2>3 DEF TypeOK
  <2>7. \A k \in Nodes, u \in Trxns :
          handed'[k][u] = IF k = n /\ u = p.trxn THEN Append(handed[n][p.trxn], m)
                                                ELSE handed[k][u]
    BY <1>0, <2>1, <2>3 DEF TypeOK
  <2>8. \A k \in Nodes, r \in Seqs :
          pending'[k][r] = IF k = n /\ r = m.seq THEN q ELSE pending[k][r]
    BY <1>0, <2>1, <2>2 DEF TypeOK
  <2>9. \A k \in Nodes, r \in Seqs : pending[k][r] # None =>
          pending'[k][r] # None /\ pending'[k][r].trxn = pending[k][r].trxn
    BY <2>5, <2>8
  <2>10. \A k \in Nodes, u \in Trxns :
          handed'[k][u] # <<>> /\ handed'[k][u][1].type \in Answerable =>
            handed[k][u] # <<>> /\ handed'[k][u][1] = handed[k][u][1]
    <3> DEFINE h == handed[n][p.trxn]
    <3>1. h \in Seq(Msgs)
      BY <2>6
    <3> HIDE DEF h
    <3>2. h = <<>> => Append(h, m)[1] = m
      OBVIOUS
    <3>3. h # <<>> => Append(h, m)[1] = h[1]
      BY <2>2, <3>1
    <3> QED
      BY <2>4, <2>7, <3>2, <3>3 DEF h
  <2> HIDE DEF p, q
  <2>11. LiveIsPending'
    <3> SUFFICES ASSUME NEW k \in Nodes, NEW u \in Trxns, Live(k, u)',
                        handed'[k][u][1].type \in Answerable
                 PROVE  /\ pending'[k][handed'[k][u][1].seq] # None
                        /\ pending'[k][handed'[k][u][1].seq].trxn = u
      BY DEF LiveIsPending
    <3>1. handed[k][u] # <<>> /\ handed'[k][u][1] = handed[k][u][1] /\ Live(k, u)
      BY <2>1, <2>10 DEF Live
    <3>2. /\ pending[k][handed[k][u][1].seq] # None
          /\ pending[k][handed[k][u][1].seq].trxn = u
          /\ handed[k][u][1].seq \in Seqs
      BY <1>0, <3>1, HeadType DEF FlightInv, LiveIsPending, Live
    <3> QED
      BY <2>9, <3>1, <3>2
  <2> QED
    BY <2>1, <2>11
<1>4. ASSUME NEW n \in Nodes, NEW t \in Trxns, SendResponse(n, t)
      PROVE  LiveIsPending' /\ UNCHANGED expired
  <2> DEFINE s == trxnSeq[n][t]
             m == handed[n][t][1]
  <2>1. /\ s # None /\ handed[n][t] # <<>> /\ m.type \in Answerable
        /\ answered' = [answered EXCEPT ![n][t] = @ + 1]
        /\ pending' = [pending EXCEPT ![n] = Erased(@, s)]
        /\ UNCHANGED <<expired, handed>>
    BY <1>4 DEF SendResponse
  <2>2. Live(n, t) /\ answered[n][t] = 0
    BY <1>0, <2>1 DEF Live, MapInv, MappedIsUnanswered
  <2>3. pending[n][s] # None /\ pending[n][s].trxn = t /\ s \in Seqs
    BY <1>0, <2>1, <2>2, HeadType DEF FlightInv, LiveIsPending, MapInv, PendingIsMapped
  <2>4. \A k \in Nodes, r \in Seqs :
          pending'[k][r] = IF k = n /\ r = s THEN None ELSE pending[k][r]
    BY <1>0, <2>1, <2>3 DEF TypeOK, Erased
  <2>5. \A k \in Nodes, u \in Trxns :
          answered'[k][u] = IF k = n /\ u = t THEN 1 ELSE answered[k][u]
    BY <1>0, <2>1, <2>2 DEF TypeOK
  <2> HIDE DEF s, m
  <2>6. LiveIsPending'
    <3> SUFFICES ASSUME NEW k \in Nodes, NEW u \in Trxns, Live(k, u)',
                        handed'[k][u][1].type \in Answerable
                 PROVE  /\ pending'[k][handed'[k][u][1].seq] # None
                        /\ pending'[k][handed'[k][u][1].seq].trxn = u
      BY DEF LiveIsPending
    <3>1. Live(k, u) /\ ~(k = n /\ u = t) /\ handed'[k][u] = handed[k][u]
      BY <2>1, <2>5 DEF Live
    <3>2. /\ pending[k][handed[k][u][1].seq] # None
          /\ pending[k][handed[k][u][1].seq].trxn = u
          /\ handed[k][u][1].seq \in Seqs
      BY <1>0, <3>1, HeadType DEF FlightInv, LiveIsPending, Live
    <3> QED
      BY <2>3, <2>4, <3>1, <3>2
  <2> QED
    BY <2>1, <2>6
<1>5. ASSUME NEW n \in Nodes PROVE ~TimeOut(n)
  BY <1>0 DEF TimeOut, TimerFires
<1>6. CASE UNCHANGED vars
  BY <1>0, <1>6 DEF vars, maps, timers, FlightInv, LiveIsPending, Live
<1> QED
  BY <1>0, <1>1, <1>2, <1>3, <1>4, <1>5, <1>6 DEF Next

(* While a request is being executed, no repetition of it is handed up: in  *)
(* SMF and UPF, whose N4 tasks never call time_out_event, this needs no     *)
(* bound on delays or on the time the application takes.                    *)
THEOREM NotExecutedTwice ==
  ASSUME ~TimeoutsDispatched
  PROVE  Spec => []OneExecutionInFlight
<1>1. FlightInv => OneExecutionInFlight
  <2> SUFFICES ASSUME FlightInv, NEW n \in Nodes, NEW t \in Trxns, NEW u \in Trxns,
                      Live(n, t), Live(n, u), handed[n][t][1] = handed[n][u][1],
                      ~IsResponse(handed[n][t][1])
               PROVE  t = u
    BY DEF OneExecutionInFlight
  <2> QED
    BY DEF FlightInv, LiveIsPending, IsResponse
<1>2. FlightInv /\ [Next]_vars => FlightInv'
  BY FlightStep
<1> QED
  BY <1>1, <1>2, FlightInit, PTL DEF Spec

--------------------------------------------------------------------------------
(* The numbers a stack gives to its own requests.                           *)

(* seq_num after i increments: it starts anywhere and may wrap once.        *)
Given(n, i) == IF InitSeq[n] + i < CtrMod THEN InitSeq[n] + i
                                         ELSE InitSeq[n] + i - CtrMod

(* No process lives long enough to give a number of the header twice.       *)
NumbersDiffer ==
  /\ MaxTrxn <= CtrMod
  /\ \A n \in Nodes : \A i, j \in 1 .. MaxTrxn :
       Wire(Given(n, i)) = Wire(Given(n, j)) => i = j

(* Numbers of a header's width differ while there are not more of them than *)
(* the header can carry: 2^24 requests, since 2^24 divides 2^31.            *)
LEMMA FewNumbersDiffer ==
  ASSUME NEW q \in Nat, CtrMod = q * WireMod, MaxTrxn <= WireMod
  PROVE  NumbersDiffer
<1>0. CtrMod \in Nat /\ WireMod \in Nat /\ CtrMod > 0 /\ WireMod > 0 /\ MaxTrxn \in Nat
  BY StackAssumption
<1>1. q >= 1
  BY <1>0
<1>2. WireMod <= CtrMod
  <2>1. (q - 1) * WireMod >= 0
    BY <1>0, <1>1
  <2>2. q * WireMod = (q - 1) * WireMod + WireMod
    BY <1>0, <1>1
  <2> QED
    BY <1>0, <2>1, <2>2
<1>3. ASSUME NEW a \in Nat, NEW b \in Nat, a % WireMod = b % WireMod,
             NEW d \in Int, 0 < d, d < WireMod, NEW z \in Int, a - b = d + z * WireMod
      PROVE  FALSE
  <2> DEFINE u == a \div WireMod
             v == b \div WireMod
             r == a % WireMod
  <2>1. /\ u \in Int /\ v \in Int /\ r \in Int
        /\ a = u * WireMod + r
        /\ b = v * WireMod + r
    BY <1>0, <1>3
  <2> HIDE DEF u, v, r
  <2> DEFINE w == u - v - z
  <2>2. w \in Int /\ d = w * WireMod
    BY <1>0, <1>3, <2>1
  <2> HIDE DEF w
  <2>3. CASE w <= 0
    BY <1>0, <1>3, <2>2, <2>3
  <2>4. CASE w >= 1
    <3>1. (w - 1) * WireMod >= 0
      BY <1>0, <2>2, <2>4
    <3>2. w * WireMod = (w - 1) * WireMod + WireMod
      BY <1>0, <2>2
    <3> QED
      BY <1>0, <1>3, <2>2, <3>1, <3>2
  <2> QED
    BY <2>2, <2>3, <2>4
<1>4. ASSUME NEW n \in Nodes, NEW i \in 1 .. MaxTrxn, NEW j \in 1 .. MaxTrxn, i < j
      PROVE  Wire(Given(n, i)) # Wire(Given(n, j))
  <2>1. InitSeq[n] \in 0 .. CtrMod - 1
    BY StackAssumption
  <2>2. Given(n, i) \in Nat /\ Given(n, j) \in Nat
    BY <1>0, <2>1 DEF Given
  <2>3. j - i \in Int /\ 0 < j - i /\ j - i < WireMod
    BY <1>0, <1>4
  <2>4. CASE Given(n, j) - Given(n, i) = j - i
    <3>1. Given(n, j) - Given(n, i) = (j - i) + 0 * WireMod
      BY <1>0, <2>3, <2>4
    <3> QED
      BY <1>3, <2>2, <2>3, <3>1 DEF Wire
  <2>6. CASE Given(n, j) = Given(n, i) + (j - i) - CtrMod
    <3> DEFINE z == 0 - q
    <3>1. z \in Int /\ Given(n, j) - Given(n, i) = (j - i) + z * WireMod
      BY <1>0, <2>2, <2>3, <2>6
    <3> HIDE DEF z
    <3> QED
      BY <1>3, <2>2, <2>3, <3>1 DEF Wire
  <2>5. Given(n, j) - Given(n, i) = j - i \/ Given(n, j) = Given(n, i) + (j - i) - CtrMod
    BY <1>0, <1>4, <2>1 DEF Given
  <2> QED
    BY <2>4, <2>5, <2>6
<1>5. MaxTrxn <= CtrMod
  BY <1>0, <1>2
<1> QED
  <2>1. \A i, j \in 1 .. MaxTrxn : i < j \/ j < i \/ i = j
    BY <1>0
  <2> QED
    BY <1>4, <1>5, <2>1 DEF NumbersDiffer

(* The counter, incremented, gives the next number.                         *)
LEMMA NextGiven ==
  ASSUME MaxTrxn <= CtrMod, NEW n \in Nodes, NEW k \in 0 .. MaxTrxn, k < MaxTrxn
  PROVE  NextSeqNum(Given(n, k)) = Given(n, k + 1)
<1>1. InitSeq[n] \in 0 .. CtrMod - 1 /\ CtrMod \in Nat /\ MaxTrxn \in Nat
  BY StackAssumption
<1>2. k \in Nat /\ k + 1 <= CtrMod /\ k + 1 >= 1
  BY <1>1
<1> DEFINE a == InitSeq[n]
<1>3. a \in Nat /\ a < CtrMod
  BY <1>1
<1> HIDE DEF a
<1>4. CASE a + k < CtrMod
  BY <1>1, <1>2, <1>3, <1>4 DEF NextSeqNum, Given, a
<1>5. CASE ~(a + k < CtrMod)
  <2>1. a + k - CtrMod + 1 # CtrMod /\ a + (k + 1) - CtrMod = a + k - CtrMod + 1
    BY <1>1, <1>2, <1>3
  <2>2. ~(a + (k + 1) < CtrMod)
    BY <1>1, <1>2, <1>3, <1>5
  <2> QED
    BY <1>5, <2>1, <2>2 DEF NextSeqNum, Given, a
<1> QED
  BY <1>4, <1>5

(* A procedure of the stack's own, with its message to send again.          *)
Own(n, s) == pending[n][s] # None /\ pending[n][s].msg # None

(* The counter was incremented k times, and every procedure and every retry *)
(* timer of the stack's own is under a number given since it was built.     *)
NumberedUpTo(n, k) ==
  /\ seqNum[n] = Given(n, k)
  /\ \A s \in Seqs : Own(n, s) => \E j \in 1 .. k : s = Wire(Given(n, j))
  /\ \A tm \in retryTimers[n] : \E j \in 1 .. k : tm.seq = Wire(Given(n, j))

Numbered == \A n \in Nodes : \E k \in 0 .. lastTrxn[n] : NumberedUpTo(n, k)

(* A stack starts with the number it was built with, and has given none.    *)
LEMMA NumberedInit == Init => Numbered
<1> SUFFICES ASSUME Init, NEW n \in Nodes
             PROVE  \E k \in 0 .. lastTrxn[n] : NumberedUpTo(n, k)
  BY DEF Numbered
<1>1. InitSeq[n] \in 0 .. CtrMod - 1 /\ CtrMod \in Nat
  BY StackAssumption
<1>2. Given(n, 0) = InitSeq[n]
  BY <1>1 DEF Given
<1>3. 0 \in 0 .. lastTrxn[n]
  BY DEF Init
<1>4. NumberedUpTo(n, 0)
  BY <1>2 DEF Init, NumberedUpTo, Own
<1> QED
  BY <1>3, <1>4

(* The number of the next request was given to no other of the stack's own. *)
LEMMA FreshNumber ==
  ASSUME TypeOK, Numbered, NumbersDiffer, NEW n \in Nodes, lastTrxn[n] < MaxTrxn
  PROVE  LET s == Wire(NextSeqNum(seqNum[n]))
         IN /\ ~Own(n, s)
            /\ \A tm \in retryTimers[n] : tm.seq # s
            /\ \E j \in 1 .. MaxTrxn : s = Wire(Given(n, j))
<1> DEFINE s == Wire(NextSeqNum(seqNum[n]))
<1>1. PICK k \in 0 .. lastTrxn[n] : NumberedUpTo(n, k)
  BY DEF Numbered
<1>2. MaxTrxn \in Nat /\ lastTrxn[n] \in 0 .. MaxTrxn
  BY StackAssumption DEF TypeOK
<1>3. k \in 0 .. MaxTrxn /\ k < MaxTrxn /\ k + 1 \in 1 .. MaxTrxn
  BY <1>2
<1>4. s = Wire(Given(n, k + 1))
  BY <1>1, <1>3, NextGiven DEF NumbersDiffer, NumberedUpTo
<1>5. \A j \in 1 .. k : s # Wire(Given(n, j))
  <2> SUFFICES ASSUME NEW j \in 1 .. k, s = Wire(Given(n, j)) PROVE FALSE
    OBVIOUS
  <2>1. j \in 1 .. MaxTrxn /\ j # k + 1
    BY <1>2, <1>3
  <2> HIDE DEF s
  <2> QED
    BY <1>3, <1>4, <2>1 DEF NumbersDiffer
<1>6. s \in Seqs
  <2>1. seqNum[n] \in 0 .. CtrMod - 1
    BY DEF TypeOK
  <2>2. NextSeqNum(seqNum[n]) \in Nat
    BY <2>1, NextSeqNumType, StackAssumption
  <2> QED
    BY <2>2, WireType
<1> HIDE DEF s
<1>7. ~Own(n, s)
  BY <1>1, <1>5, <1>6 DEF NumberedUpTo
<1>8. \A tm \in retryTimers[n] : tm.seq # s
  BY <1>1, <1>5 DEF NumberedUpTo
<1>9. \E j \in 1 .. MaxTrxn : s = Wire(Given(n, j))
  BY <1>3, <1>4
<1> QED
  BY <1>7, <1>8, <1>9 DEF s

(* A step that sends no new request gives no number.                        *)
LEMMA NumberedKept ==
  ASSUME TypeOK, Numbered, UNCHANGED seqNum,
         \A n \in Nodes : lastTrxn[n] <= lastTrxn'[n] /\ lastTrxn'[n] \in Nat,
         \A n \in Nodes, s \in Seqs : Own(n, s)' => Own(n, s),
         \A n \in Nodes : \A tm \in retryTimers'[n] :
           \E um \in retryTimers[n] : tm.seq = um.seq
  PROVE  Numbered'
<1> SUFFICES ASSUME NEW n \in Nodes
             PROVE  (\E k \in 0 .. lastTrxn[n] : NumberedUpTo(n, k))'
  BY DEF Numbered
<1>1. PICK k \in 0 .. lastTrxn[n] : NumberedUpTo(n, k)
  BY DEF Numbered
<1>2. k \in 0 .. lastTrxn'[n]
  <2>1. lastTrxn[n] \in Nat
    BY StackAssumption DEF TypeOK
  <2> QED
    BY <2>1
<1>3. seqNum'[n] = Given(n, k)
  BY <1>1 DEF NumberedUpTo
<1>4. \A s \in Seqs : Own(n, s)' => \E j \in 1 .. k : s = Wire(Given(n, j))
  BY <1>1 DEF NumberedUpTo
<1>5. \A tm \in retryTimers'[n] : \E j \in 1 .. k : tm.seq = Wire(Given(n, j))
  BY <1>1 DEF NumberedUpTo
<1>6. NumberedUpTo(n, k)'
  BY <1>3, <1>4, <1>5 DEF NumberedUpTo
<1> QED
  BY <1>2, <1>6

(* send_request gives the next number, and files its procedure and its      *)
(* timer under no other.                                                    *)
LEMMA NumberedSend ==
  ASSUME TypeOK, Numbered, MaxTrxn <= CtrMod, NEW n \in Nodes, NEW x \in Traffic,
         SendRequest(n, x[2], x[3])
  PROVE  Numbered'
<1> DEFINE t == lastTrxn[n] + 1
           s == Wire(NextSeqNum(seqNum[n]))
           p == [trxn |-> t, initial |-> x[3], triggered |-> 0, retries |-> 0,
                 retrying |-> TRUE,
                 msg |-> [src |-> n, dst |-> x[2], seq |-> s, type |-> x[3],
                          req |-> <<n, t>>]]
<1>1. /\ lastTrxn[n] < MaxTrxn
      /\ seqNum' = [seqNum EXCEPT ![n] = NextSeqNum(@)]
      /\ lastTrxn' = [lastTrxn EXCEPT ![n] = t]
      /\ retryTimers' = [retryTimers EXCEPT ![n] = @ \cup {Retry(t, s, 0)}]
      /\ pending' = [pending EXCEPT ![n] = Inserted(@, s, p)]
  BY DEF SendRequest
<1>2. MaxTrxn \in Nat /\ lastTrxn \in [Nodes -> 0 .. MaxTrxn] /\ Retry(t, s, 0).seq = s
  BY StackAssumption DEF TypeOK, Retry
<1> HIDE DEF p, s
<1>3. \A m \in Nodes, r \in Seqs : Own(m, r)' => Own(m, r) \/ (m = n /\ r = s)
  <2>1. \A m \in Nodes, r \in Seqs : pending'[m][r] = pending[m][r] \/ (m = n /\ r = s)
    BY <1>1 DEF TypeOK, Inserted
  <2> QED
    BY <2>1 DEF Own
<1>4. \A m \in Nodes : \A tm \in retryTimers'[m] :
        tm \in retryTimers[m] \/ (m = n /\ tm.seq = s)
  BY <1>1, <1>2 DEF TypeOK
<1> SUFFICES ASSUME NEW m \in Nodes
             PROVE  (\E k \in 0 .. lastTrxn[m] : NumberedUpTo(m, k))'
  BY DEF Numbered
<1>5. PICK k \in 0 .. lastTrxn[m] : NumberedUpTo(m, k)
  BY DEF Numbered
<1>6. CASE m = n
  <2>1. k \in 0 .. MaxTrxn /\ k < MaxTrxn /\ k + 1 \in 0 .. lastTrxn'[m] /\ k \in Nat
    BY <1>1, <1>2, <1>6
  <2>2. NextSeqNum(seqNum[n]) = Given(n, k + 1)
    BY <1>5, <1>6, <2>1, NextGiven DEF NumberedUpTo
  <2>3. seqNum'[m] = Given(m, k + 1) /\ s = Wire(Given(m, k + 1))
    BY <1>1, <1>6, <2>2 DEF TypeOK, s
  <2>4. \A r : (\E j \in 1 .. k : r = Wire(Given(m, j))) \/ r = s
               => \E j \in 1 .. k + 1 : r = Wire(Given(m, j))
    BY <2>1, <2>3
  <2>5. \A r \in Seqs : Own(m, r)' => \E j \in 1 .. k + 1 : r = Wire(Given(m, j))
    BY <1>3, <1>5, <2>4 DEF NumberedUpTo
  <2>6. \A tm \in retryTimers'[m] : \E j \in 1 .. k + 1 : tm.seq = Wire(Given(m, j))
    BY <1>4, <1>5, <2>4 DEF NumberedUpTo
  <2>7. NumberedUpTo(m, k + 1)'
    BY <2>3, <2>5, <2>6 DEF NumberedUpTo
  <2> QED
    BY <2>1, <2>7
<1>7. CASE m # n
  <2>1. seqNum'[m] = Given(m, k) /\ k \in 0 .. lastTrxn'[m]
    BY <1>1, <1>2, <1>5, <1>7 DEF TypeOK, NumberedUpTo
  <2>2. NumberedUpTo(m, k)'
    BY <1>3, <1>4, <1>5, <1>7, <2>1 DEF NumberedUpTo
  <2> QED
    BY <2>1, <2>2
<1> QED
  BY <1>6, <1>7

--------------------------------------------------------------------------------
(* Retransmissions.                                                         *)

(* The only retry timer under the number of a stack's own procedure is the  *)
(* one that the procedure would stop.                                       *)
TimerOfProc ==
  \A n \in Nodes : \A tm \in retryTimers[n] : Own(n, tm.seq) =>
    LET p == pending[n][tm.seq]
    IN p.retrying /\ tm = Retry(p.trxn, tm.seq, p.retries)

(* A procedure whose response was handed up has stopped its retry timer.    *)
Quiet ==
  \A n \in Nodes, s \in Seqs : Own(n, s) /\ pending[n][s].triggered # 0 =>
    ~pending[n][s].retrying

RetryInv == TypeOK /\ Numbered /\ TimerOfProc /\ Quiet

(* A step that erases procedures, opens received ones or forgets timers     *)
(* keeps what is known of the others.                                       *)
LEMMA RetryKept ==
  ASSUME RetryInv, TypeOK', UNCHANGED seqNum,
         \A n \in Nodes : lastTrxn[n] <= lastTrxn'[n],
         \A n \in Nodes, s \in Seqs :
           Own(n, s)' => Own(n, s) /\ pending'[n][s] = pending[n][s],
         \A n \in Nodes : retryTimers'[n] \subseteq retryTimers[n]
  PROVE  RetryInv'
<1>1. Numbered'
  <2>1. \A n \in Nodes : lastTrxn'[n] \in Nat
    BY StackAssumption DEF TypeOK
  <2>2. \A n \in Nodes : \A tm \in retryTimers'[n] :
          \E um \in retryTimers[n] : tm.seq = um.seq
    OBVIOUS
  <2> QED
    BY <2>1, <2>2, NumberedKept DEF RetryInv
<1>2. \A n \in Nodes : \A tm \in retryTimers[n] : tm.seq \in Seqs
  BY DEF RetryInv, TypeOK, Timers
<1>3. TimerOfProc'
  <2> SUFFICES ASSUME NEW n \in Nodes, NEW tm \in retryTimers'[n], Own(n, tm.seq)'
               PROVE  /\ pending'[n][tm.seq].retrying
                      /\ tm = Retry(pending'[n][tm.seq].trxn, tm.seq,
                                    pending'[n][tm.seq].retries)
    BY DEF TimerOfProc
  <2>1. tm \in retryTimers[n] /\ tm.seq \in Seqs
    BY <1>2
  <2>2. Own(n, tm.seq) /\ pending'[n][tm.seq] = pending[n][tm.seq]
    BY <2>1
  <2> QED
    BY <2>1, <2>2 DEF RetryInv, TimerOfProc
<1>4. Quiet'
  BY DEF RetryInv, Quiet
<1> QED
  BY <1>1, <1>3, <1>4 DEF RetryInv

(* send_request starts a timer for a procedure under a number that no       *)
(* procedure and no timer of the stack's own has.                           *)
LEMMA RetrySend ==
  ASSUME RetryInv, TypeOK', NumbersDiffer, NEW n \in Nodes, NEW x \in Traffic,
         SendRequest(n, x[2], x[3])
  PROVE  RetryInv'
<1> DEFINE t == lastTrxn[n] + 1
           s == Wire(NextSeqNum(seqNum[n]))
           p == [trxn |-> t, initial |-> x[3], triggered |-> 0, retries |-> 0,
                 retrying |-> TRUE,
                 msg |-> [src |-> n, dst |-> x[2], seq |-> s, type |-> x[3],
                          req |-> <<n, t>>]]
           rt == Retry(t, s, 0)
<1>1. /\ lastTrxn[n] < MaxTrxn
      /\ retryTimers' = [retryTimers EXCEPT ![n] = @ \cup {rt}]
      /\ pending' = [pending EXCEPT ![n] = Inserted(@, s, p)]
  BY DEF SendRequest
<1>2. Numbered'
  BY NumberedSend DEF RetryInv, NumbersDiffer
<1>3. ~Own(n, s) /\ (\A tm \in retryTimers[n] : tm.seq # s)
  BY <1>1, FreshNumber DEF RetryInv
<1>4. rt.seq = s /\ p.trxn = t /\ p.retries = 0 /\ p.retrying = TRUE /\ p.triggered = 0
  BY DEF Retry
<1>5. rt = Retry(p.trxn, s, p.retries)
  BY <1>4
<1> HIDE DEF s, p, rt, t
<1>6. \A m \in Nodes, r \in Seqs :
        \/ pending'[m][r] = pending[m][r]
        \/ m = n /\ r = s /\ pending'[m][r] = p
  BY <1>1 DEF RetryInv, TypeOK, Inserted
<1>7. \A m \in Nodes : \A tm \in retryTimers'[m] :
        \/ tm \in retryTimers[m]
        \/ m = n /\ tm = rt
  BY <1>1 DEF RetryInv, TypeOK
<1>8. \A m \in Nodes : \A tm \in retryTimers'[m] : tm.seq \in Seqs
  BY DEF TypeOK, Timers
<1>9. TimerOfProc'
  <2> SUFFICES ASSUME NEW m \in Nodes, NEW tm \in retryTimers'[m], Own(m, tm.seq)'
               PROVE  /\ pending'[m][tm.seq].retrying
                      /\ tm = Retry(pending'[m][tm.seq].trxn, tm.seq,
                                    pending'[m][tm.seq].retries)
    BY DEF TimerOfProc
  <2>1. CASE m = n /\ tm = rt
    <3>1. pending'[n][s] = p
      BY <1>3, <1>4, <1>6, <1>8, <2>1 DEF Own
    <3> QED
      BY <1>4, <1>5, <2>1, <3>1
  <2>2. CASE tm \in retryTimers[m]
    <3>1. pending'[m][tm.seq] = pending[m][tm.seq]
      BY <1>3, <1>6, <1>8, <2>2
    <3>2. Own(m, tm.seq)
      BY <3>1 DEF Own
    <3> QED
      BY <2>2, <3>1, <3>2 DEF RetryInv, TimerOfProc
  <2> QED
    BY <1>7, <2>1, <2>2
<1>10. Quiet'
  <2> SUFFICES ASSUME NEW m \in Nodes, NEW r \in Seqs, Own(m, r)',
                      pending'[m][r].triggered # 0
               PROVE  ~pending'[m][r].retrying
    BY DEF Quiet
  <2>1. pending'[m][r] = pending[m][r]
    BY <1>4, <1>6
  <2> QED
    BY <2>1 DEF RetryInv, Quiet, Own
<1> QED
  BY <1>2, <1>9, <1>10 DEF RetryInv

(* The response stops the one retry timer of the procedure and forgets it.  *)
LEMMA RetryTriggered ==
  ASSUME RetryInv, TypeOK', NEW n \in Nodes, NEW m \in net, ReceiveTriggered(n, m)
  PROVE  RetryInv'
<1> DEFINE p == pending[n][m.seq]
           q == [p EXCEPT !.retrying = FALSE, !.triggered = IF @ = 0 THEN m.type ELSE @]
           rt == Retry(p.trxn, m.seq, p.retries)
           stopped == IF p.retrying THEN {rt} ELSE {}
<1>1. /\ p # None
      /\ pending' = [pending EXCEPT ![n][m.seq] = q]
      /\ retryTimers' = [retryTimers EXCEPT ![n] = @ \ stopped]
      /\ UNCHANGED <<seqNum, lastTrxn>>
  BY DEF ReceiveTriggered, ForgetRetry
<1>2. m.seq \in Seqs
  BY NetType DEF RetryInv
<1>3. p \in Procs
  BY <1>1, <1>2, PendingType DEF RetryInv
<1>4. q.msg = p.msg /\ q.retrying = FALSE
  BY <1>3 DEF Procs
<1> HIDE DEF q
<1>5. \A k \in Nodes, r \in Seqs :
        pending'[k][r] = IF k = n /\ r = m.seq THEN q ELSE pending[k][r]
  BY <1>1, <1>2 DEF RetryInv, TypeOK
<1>6. \A k \in Nodes : retryTimers'[k] \subseteq retryTimers[k]
  BY <1>1 DEF RetryInv, TypeOK
<1>7. \A k \in Nodes, r \in Seqs : Own(k, r)' => Own(k, r)
  BY <1>1, <1>4, <1>5 DEF Own
<1>8. \A k \in Nodes : \A tm \in retryTimers[k] : tm.seq \in Seqs
  BY DEF RetryInv, TypeOK, Timers
<1>9. Numbered'
  <2>1. \A k \in Nodes : lastTrxn[k] <= lastTrxn'[k] /\ lastTrxn'[k] \in Nat
    BY <1>1, StackAssumption DEF RetryInv, TypeOK
  <2>2. \A k \in Nodes : \A tm \in retryTimers'[k] :
          \E um \in retryTimers[k] : tm.seq = um.seq
    BY <1>6
  <2> QED
    BY <1>1, <1>7, <2>1, <2>2, NumberedKept DEF RetryInv
<1>10. TimerOfProc'
  <2> SUFFICES ASSUME NEW k \in Nodes, NEW tm \in retryTimers'[k], Own(k, tm.seq)'
               PROVE  /\ pending'[k][tm.seq].retrying
                      /\ tm = Retry(pending'[k][tm.seq].trxn, tm.seq,
                                    pending'[k][tm.seq].retries)
    BY DEF TimerOfProc
  <2>1. tm \in retryTimers[k] /\ tm.seq \in Seqs /\ Own(k, tm.seq)
    BY <1>6, <1>7, <1>8
  <2>2. pending[k][tm.seq].retrying /\ tm = Retry(pending[k][tm.seq].trxn, tm.seq,
                                                  pending[k][tm.seq].retries)
    BY <2>1 DEF RetryInv, TimerOfProc
  <2>3. ~(k = n /\ tm.seq = m.seq)
    <3> SUFFICES ASSUME k = n, tm.seq = m.seq PROVE FALSE
      OBVIOUS
    <3>1. tm \in stopped
      BY <2>2
    <3> QED
      BY <1>1, <3>1 DEF RetryInv, TypeOK
  <2> QED
    BY <1>5, <2>1, <2>2, <2>3
<1>11. Quiet'
  <2> SUFFICES ASSUME NEW k \in Nodes, NEW r \in Seqs, Own(k, r)',
                      pending'[k][r].triggered # 0
               PROVE  ~pending'[k][r].retrying
    BY DEF Quiet
  <2>1. CASE k = n /\ r = m.seq
    BY <1>4, <1>5, <2>1
  <2>2. CASE ~(k = n /\ r = m.seq)
    BY <1>5, <1>7, <2>2 DEF RetryInv, Quiet
  <2> QED
    BY <2>1, <2>2
<1> QED
  BY <1>9, <1>10, <1>11 DEF RetryInv

(* time_out_event finds the timer only while the procedure still waits for  *)
(* its response, and replaces it by the next one.                           *)
LEMMA RetryRetransmit ==
  ASSUME RetryInv, TypeOK', NEW n \in Nodes, NEW tm \in expired[n], Retransmit(n, tm)
  PROVE  RetryInv' /\ pending[n][tm.seq].triggered = 0
<1> DEFINE s == tm.seq
           p == pending[n][s]
           q == [p EXCEPT !.retries = @ + 1, !.retrying = TRUE]
           next == Retry(p.trxn, s, p.retries + 1)
<1>1. /\ tm \in retryTimers[n]
      /\ p # None /\ p.msg # None
      /\ pending' = [pending EXCEPT ![n][s] = q]
      /\ retryTimers' = [retryTimers EXCEPT ![n] = (@ \ {tm}) \cup {next}]
      /\ UNCHANGED <<seqNum, lastTrxn>>
  BY DEF Retransmit
<1>2. s \in Seqs
  BY <1>1 DEF RetryInv, TypeOK, Timers
<1>3. p \in Procs
  BY <1>1, <1>2, PendingType DEF RetryInv
<1>4. /\ q.msg = p.msg /\ q.trxn = p.trxn /\ q.triggered = p.triggered
      /\ q.retries = p.retries + 1 /\ q.retrying = TRUE
  BY <1>3 DEF Procs
<1>5. Own(n, s)
  BY <1>1 DEF Own
<1>6. p.retrying
  BY <1>1, <1>5 DEF RetryInv, TimerOfProc
<1>7. p.triggered = 0
  BY <1>2, <1>5, <1>6 DEF RetryInv, Quiet
<1>8. next.seq = s /\ next = Retry(q.trxn, s, q.retries)
  BY <1>4 DEF Retry
<1>9. \A um \in retryTimers[n] : um.seq = s => um = tm
  BY <1>1, <1>5 DEF RetryInv, TimerOfProc
<1> HIDE DEF q, next
<1>10. \A k \in Nodes, r \in Seqs :
        pending'[k][r] = IF k = n /\ r = s THEN q ELSE pending[k][r]
  BY <1>1, <1>2 DEF RetryInv, TypeOK
<1>11. \A k \in Nodes : \A um \in retryTimers'[k] :
         \/ um \in retryTimers[k] /\ ~(k = n /\ um = tm)
         \/ k = n /\ um = next
  BY <1>1 DEF RetryInv, TypeOK
<1>12. \A k \in Nodes, r \in Seqs : Own(k, r)' => Own(k, r)
  BY <1>1, <1>4, <1>10 DEF Own
<1>13. \A k \in Nodes : \A um \in retryTimers[k] : um.seq \in Seqs
  BY DEF RetryInv, TypeOK, Timers
<1>14. Numbered'
  <2>1. \A k \in Nodes : lastTrxn[k] <= lastTrxn'[k] /\ lastTrxn'[k] \in Nat
    BY <1>1, StackAssumption DEF RetryInv, TypeOK
  <2>2. \A k \in Nodes : \A um \in retryTimers'[k] :
          \E vm \in retryTimers[k] : um.seq = vm.seq
    BY <1>1, <1>8, <1>11
  <2> QED
    BY <1>1, <1>12, <2>1, <2>2, NumberedKept DEF RetryInv
<1>15. TimerOfProc'
  <2> SUFFICES ASSUME NEW k \in Nodes, NEW um \in retryTimers'[k], Own(k, um.seq)'
               PROVE  /\ pending'[k][um.seq].retrying
                      /\ um = Retry(pending'[k][um.seq].trxn, um.seq,
                                    pending'[k][um.seq].retries)
    BY DEF TimerOfProc
  <2>1. CASE k = n /\ um = next
    <3>1. pending'[n][s] = q
      BY <1>2, <1>10
    <3> QED
      BY <1>4, <1>8, <2>1, <3>1
  <2>2. CASE um \in retryTimers[k] /\ ~(k = n /\ um = tm)
    <3>1. um.seq \in Seqs /\ ~(k = n /\ um.seq = s)
      BY <1>9, <1>13, <2>2
    <3>2. Own(k, um.seq) /\ pending'[k][um.seq] = pending[k][um.seq]
      BY <1>10, <1>12, <3>1
    <3> QED
      BY <2>2, <3>2 DEF RetryInv, TimerOfProc
  <2> QED
    BY <1>11, <2>1, <2>2
<1>16. Quiet'
  <2> SUFFICES ASSUME NEW k \in Nodes, NEW r \in Seqs, Own(k, r)',
                      pending'[k][r].triggered # 0
               PROVE  ~pending'[k][r].retrying
    BY DEF Quiet
  <2>1. ~(k = n /\ r = s)
    BY <1>4, <1>7, <1>10
  <2> QED
    BY <1>10, <1>12, <2>1 DEF RetryInv, Quiet
<1> QED
  BY <1>7, <1>14, <1>15, <1>16 DEF RetryInv

(* Every handler keeps the timers and the procedures together, and only the *)
(* retransmission of a procedure without a response counts a retry.         *)
LEMMA RetryStep ==
  ASSUME RetryInv, NumbersDiffer, [Next]_vars
  PROVE  /\ RetryInv'
         /\ \A n \in Nodes, s \in Seqs :
              (pending[n][s] # None /\ pending'[n][s] # None
                /\ pending'[n][s].retries > pending[n][s].retries)
              => pending[n][s].triggered = 0
<1> DEFINE Goal == /\ RetryInv'
                   /\ \A n \in Nodes, s \in Seqs :
                        (pending[n][s] # None /\ pending'[n][s] # None
                          /\ pending'[n][s].retries > pending[n][s].retries)
                        => pending[n][s].triggered = 0
<1> SUFFICES Goal
  OBVIOUS
<1>1. TypeOK /\ TypeOK'
  BY TypeStep DEF RetryInv
<1>2. \A n \in Nodes, s \in Seqs : pending[n][s] # None => pending[n][s].retries \in Nat
  BY <1>1, StackAssumption DEF TypeOK, Procs
<1>3. lastTrxn \in [Nodes -> Nat]
  BY <1>1, StackAssumption DEF TypeOK
<1>4. ASSUME NEW n \in Nodes, NEW x \in Traffic, SendRequest(n, x[2], x[3]) PROVE Goal
  <2>1. RetryInv'
    BY <1>1, <1>4, RetrySend
  <2>2. PICK s, p : pending' = [pending EXCEPT ![n] = Inserted(@, s, p)]
    BY <1>4 DEF SendRequest
  <2>3. \A m \in Nodes, r \in Seqs : pending[m][r] # None => pending'[m][r] = pending[m][r]
    BY <1>1, <2>2 DEF TypeOK, Inserted
  <2> QED
    BY <1>2, <2>1, <2>3
<1>5. ASSUME NEW n \in Nodes, NEW m \in net, ReceiveInitial(n, m) PROVE Goal
  <2>1. PICK t, p : /\ p.msg = None
                    /\ pending' = [pending EXCEPT ![n] = Inserted(@, m.seq, p)]
                    /\ lastTrxn' = [lastTrxn EXCEPT ![n] = @ + 1]
                    /\ UNCHANGED <<seqNum, retryTimers>>
    <3> DEFINE p == [trxn |-> lastTrxn[n] + 1, initial |-> m.type, triggered |-> 0,
                     retries |-> 0, retrying |-> FALSE, msg |-> None]
    <3>1. p.msg = None
      OBVIOUS
    <3>2. /\ pending' = [pending EXCEPT ![n] = Inserted(@, m.seq, p)]
          /\ lastTrxn' = [lastTrxn EXCEPT ![n] = @ + 1]
          /\ UNCHANGED <<seqNum, retryTimers>>
      BY <1>5 DEF ReceiveInitial
    <3> HIDE DEF p
    <3> QED
      BY <3>1, <3>2
  <2>2. \A k \in Nodes, r \in Seqs :
          pending'[k][r] = pending[k][r] \/ (pending[k][r] = None /\ pending'[k][r].msg = None)
    BY <1>1, <2>1 DEF TypeOK, Inserted
  <2>3. \A k \in Nodes, r \in Seqs : Own(k, r)' => Own(k, r) /\ pending'[k][r] = pending[k][r]
    BY <2>2 DEF Own
  <2>4. \A k \in Nodes : lastTrxn[k] <= lastTrxn'[k]
    BY <1>3, <2>1
  <2>5. RetryInv'
    BY <1>1, <2>1, <2>3, <2>4, RetryKept
  <2> QED
    BY <1>2, <2>2, <2>5
<1>6. ASSUME NEW n \in Nodes, NEW m \in net, ReceiveTriggered(n, m) PROVE Goal
  <2>1. RetryInv'
    BY <1>1, <1>6, RetryTriggered
  <2> DEFINE p == pending[n][m.seq]
             q == [p EXCEPT !.retrying = FALSE, !.triggered = IF @ = 0 THEN m.type ELSE @]
  <2>2. p # None /\ m.seq \in Seqs /\ pending' = [pending EXCEPT ![n][m.seq] = q]
    BY <1>1, <1>6, NetType DEF ReceiveTriggered
  <2>3. q.retries = p.retries
    BY <1>1, <2>2, PendingType DEF Procs
  <2> HIDE DEF q
  <2>4. \A k \in Nodes, r \in Seqs :
          pending'[k][r] = IF k = n /\ r = m.seq THEN q ELSE pending[k][r]
    BY <1>1, <2>2 DEF TypeOK
  <2>5. \A k \in Nodes, r \in Seqs : pending[k][r] # None =>
          pending'[k][r].retries = pending[k][r].retries
    BY <2>3, <2>4
  <2> QED
    BY <1>2, <2>1, <2>5
<1>7. ASSUME NEW n \in Nodes, NEW tm \in expired[n], Retransmit(n, tm) PROVE Goal
  <2>1. RetryInv' /\ pending[n][tm.seq].triggered = 0
    BY <1>1, <1>7, RetryRetransmit
  <2>2. PICK q : pending' = [pending EXCEPT ![n][tm.seq] = q]
    BY <1>7 DEF Retransmit
  <2>3. \A k \in Nodes, r \in Seqs : ~(k = n /\ r = tm.seq) => pending'[k][r] = pending[k][r]
    BY <1>1, <2>2 DEF TypeOK
  <2> QED
    BY <1>2, <2>1, <2>3
(* The other steps erase procedures and forget timers, if they change them. *)
<1>8. ASSUME \A n \in Nodes, s \in Seqs :
               pending'[n][s] = pending[n][s] \/ pending'[n][s] = None,
             \A n \in Nodes : retryTimers'[n] \subseteq retryTimers[n],
             UNCHANGED <<seqNum, lastTrxn>>
      PROVE  Goal
  <2>1. \A n \in Nodes, s \in Seqs : Own(n, s)' => Own(n, s) /\ pending'[n][s] = pending[n][s]
    BY <1>8 DEF Own
  <2>2. \A n \in Nodes : lastTrxn[n] <= lastTrxn'[n]
    BY <1>3, <1>8
  <2>3. RetryInv'
    BY <1>1, <1>8, <2>1, <2>2, RetryKept
  <2> QED
    BY <1>2, <1>8, <2>3
<1>9. ASSUME NEW n \in Nodes, NEW t \in Trxns, SendResponse(n, t) PROVE Goal
  <2>1. PICK s : /\ pending' = [pending EXCEPT ![n] = Erased(@, s)]
                 /\ UNCHANGED <<seqNum, lastTrxn, retryTimers>>
    BY <1>9 DEF SendResponse
  <2>2. \A k \in Nodes, r \in Seqs : pending'[k][r] = pending[k][r] \/ pending'[k][r] = None
    BY <1>1, <2>1 DEF TypeOK, Erased
  <2> QED
    BY <1>8, <2>1, <2>2
<1>10. ASSUME NEW n \in Nodes, NEW tm \in expired[n], CleanupTimeOut(n, tm) PROVE Goal
  <2>1. /\ pending' = [pending EXCEPT ![n] = Erased(@, tm.seq)]
        /\ UNCHANGED <<seqNum, lastTrxn, retryTimers>>
    BY <1>10 DEF CleanupTimeOut
  <2>2. \A k \in Nodes, r \in Seqs : pending'[k][r] = pending[k][r] \/ pending'[k][r] = None
    BY <1>1, <2>1 DEF TypeOK, Erased
  <2> QED
    BY <1>8, <2>1, <2>2
<1>11. ASSUME NEW n \in Nodes, NEW tm \in expired[n], GiveUp(n, tm) PROVE Goal
  <2>1. /\ retryTimers' = [retryTimers EXCEPT ![n] = @ \ {tm}]
        /\ UNCHANGED <<seqNum, lastTrxn, pending>>
    BY <1>11 DEF GiveUp, maps
  <2>2. \A k \in Nodes : retryTimers'[k] \subseteq retryTimers[k]
    BY <1>1, <2>1 DEF TypeOK
  <2> QED
    BY <1>8, <2>1, <2>2
<1>12. ASSUME NEW n \in Nodes, NEW tm, TimerFires(n, tm) \/ UnknownTimeOut(n, tm) PROVE Goal
  BY <1>8, <1>12 DEF TimerFires, UnknownTimeOut, maps
<1>13. CASE UNCHANGED vars
  BY <1>8, <1>13 DEF vars, maps, timers
<1> HIDE DEF Goal
<1> QED
  BY <1>4, <1>5, <1>6, <1>7, <1>9, <1>10, <1>11, <1>12, <1>13 DEF Next, TimeOut

(* NoRetryAfterResponse (time_out_event, handle_receive_message_cb): once   *)
(* the response was handed up, the request is never sent again, even when   *)
(* its timer had fired before; for a stack that has not given out all its   *)
(* numbers.  One that has may find the timer of another request under the   *)
(* number, and the property fails.                                          *)
THEOREM NoLateRetry == ASSUME NumbersDiffer PROVE Spec => NoRetryAfterResponse
<1>1. Init => RetryInv
  <2> SUFFICES ASSUME Init PROVE RetryInv
    OBVIOUS
  <2>1. TypeOK /\ Numbered
    BY TypeInit, NumberedInit
  <2> QED
    BY <2>1 DEF Init, RetryInv, TimerOfProc, Quiet, Own
<1>2. RetryInv /\ [Next]_vars => RetryInv'
  BY RetryStep
<1>3. RetryInv /\ [Next]_vars =>
        \A n \in Nodes, s \in Seqs :
          (pending[n][s] # None /\ pending'[n][s] # None
            /\ pending'[n][s].retries > pending[n][s].retries)
          => pending[n][s].triggered = 0
  BY RetryStep
<1> QED
  BY <1>1, <1>2, <1>3, PTL DEF Spec, NoRetryAfterResponse

--------------------------------------------------------------------------------
(* Whose response it is.                                                    *)

(* A message belongs to a request that was sent, the one of its source or   *)
(* of its destination.                                                      *)
NetNamed ==
  \A m \in net :
    /\ m.req[2] <= lastTrxn[m.req[1]]
    /\ m.req[1] = IF m.type \in Answerable THEN m.src ELSE m.dst

(* No two requests of an entity have one number.                            *)
OneNumber ==
  \A m, o \in net : m.req[1] = o.req[1] /\ m.seq = o.seq => m.req = o.req

(* The counter was incremented k times, and the messages that belong to     *)
(* requests of the entity have numbers given since it was built.            *)
CountedUpTo(n, k) ==
  /\ seqNum[n] = Given(n, k)
  /\ \A m \in net : m.req[1] = n => \E j \in 1 .. k : m.seq = Wire(Given(n, j))

Counted == \A n \in Nodes : \E k \in 0 .. lastTrxn[n] : CountedUpTo(n, k)

(* What a procedure has to send again was sent, and a procedure of a        *)
(* request of the entity is under the number of the request.                *)
Requests ==
  \A n \in Nodes, s \in Seqs : pending[n][s] # None =>
    /\ pending[n][s].msg \in net \cup {None}
    /\ Requested(n, pending[n][s].trxn) =>
         \E m \in net : m.req = <<n, pending[n][s].trxn>> /\ m.seq = s

(* What opened a transaction came over the network, and it is answered      *)
(* under the number it came with.                                           *)
HandedNamed ==
  \A n \in Nodes, t \in Trxns : handed[n][t] # <<>> =>
    LET h == handed[n][t][1]
    IN h \in net /\ h.dst = n /\
       (h.type \in Answerable => trxnSeq[n][t] \in {None, h.seq})

NamesInv == NetNamed /\ OneNumber /\ Counted /\ Requests
OwnInv   == HandInv /\ NamesInv /\ HandedNamed /\ ResponseToOwnRequest

(* No request was sent under a transaction id that is still to be returned. *)
LEMMA FreshIsNotRequested ==
  ASSUME NetNamed, NEW n \in Nodes, NEW t, t \in Nat, lastTrxn[n] \in Nat, t > lastTrxn[n]
  PROVE  ~Requested(n, t)
  BY DEF NetNamed, Requested

(* A pending procedure belongs to a transaction id that was returned.       *)
LEMMA PendingIsOld ==
  ASSUME MapInv, NEW n \in Nodes, NEW s \in Seqs, pending[n][s] # None
  PROVE  pending[n][s].trxn \in Trxns /\ ~(pending[n][s].trxn > lastTrxn[n])
<1>1. pending[n][s] \in Procs
  BY PendingType DEF MapInv
<1>2. trxnSeq[n][pending[n][s].trxn] = s /\ s # None
  BY StackAssumption DEF MapInv, PendingIsMapped
<1> QED
  BY <1>1, <1>2 DEF MapInv, Fresh, Procs

(* The number of the next request is that of no message of an earlier one.  *)
LEMMA NextCounted ==
  ASSUME TypeOK, Counted, NumbersDiffer, NEW n \in Nodes, lastTrxn[n] < MaxTrxn
  PROVE  \E k \in 0 .. lastTrxn[n] :
           /\ CountedUpTo(n, k)
           /\ NextSeqNum(seqNum[n]) = Given(n, k + 1)
           /\ \A m \in net : m.req[1] = n => m.seq # Wire(Given(n, k + 1))
<1>1. PICK k \in 0 .. lastTrxn[n] : CountedUpTo(n, k)
  BY DEF Counted
<1>2. MaxTrxn \in Nat /\ lastTrxn[n] \in 0 .. MaxTrxn
  BY StackAssumption DEF TypeOK
<1>3. k \in 0 .. MaxTrxn /\ k < MaxTrxn /\ k + 1 \in 1 .. MaxTrxn
  BY <1>2
<1>4. NextSeqNum(seqNum[n]) = Given(n, k + 1)
  BY <1>1, <1>3, NextGiven DEF NumbersDiffer, CountedUpTo
<1>5. ASSUME NEW m \in net, m.req[1] = n, m.seq = Wire(Given(n, k + 1)) PROVE FALSE
  <2>1. PICK j \in 1 .. k : m.seq = Wire(Given(n, j))
    BY <1>1, <1>5 DEF CountedUpTo
  <2>2. j \in 1 .. MaxTrxn /\ j # k + 1
    BY <1>2, <1>3
  <2> QED
    BY <1>3, <1>5, <2>1, <2>2 DEF NumbersDiffer
<1> QED
  BY <1>1, <1>4, <1>5

(* A step that sends nothing new and opens procedures under fresh           *)
(* transaction ids only.                                                    *)
LEMMA NamesKept ==
  ASSUME TypeOK, NamesInv, UNCHANGED <<net, seqNum>>,
         \A n \in Nodes : lastTrxn[n] <= lastTrxn'[n] /\ lastTrxn'[n] \in Nat,
         \A n \in Nodes, s \in Seqs : pending'[n][s] # None =>
           \/ /\ pending[n][s] # None
              /\ pending'[n][s].trxn = pending[n][s].trxn
              /\ pending'[n][s].msg = pending[n][s].msg
           \/ /\ pending'[n][s].trxn \in Nat /\ pending'[n][s].trxn > lastTrxn[n]
              /\ pending'[n][s].msg = None
  PROVE  NamesInv'
<1>1. /\ \A n \in Nodes : lastTrxn[n] \in Nat
      /\ \A m \in net : m.req[1] \in Nodes /\ m.req[2] \in Nat
  <2>1. \A m \in net : m \in Msgs
    BY DEF TypeOK
  <2>2. Trxns \subseteq Nat
    BY StackAssumption DEF Trxns
  <2>3. \A m \in net : m.req[1] \in Nodes /\ m.req[2] \in Trxns
    BY <2>1 DEF Msgs
  <2>4. \A n \in Nodes : lastTrxn[n] \in Nat
    BY StackAssumption DEF TypeOK
  <2>5. \A m \in net : m.req[1] \in Nodes /\ m.req[2] \in Nat
    BY <2>2, <2>3, Zenon
  <2> QED
    BY <2>4, <2>5
<1>2. NetNamed'
  BY <1>1 DEF NamesInv, NetNamed
<1>3. OneNumber'
  BY DEF NamesInv, OneNumber
<1>4. Counted'
  <2> SUFFICES ASSUME NEW n \in Nodes PROVE (\E k \in 0 .. lastTrxn[n] : CountedUpTo(n, k))'
    BY DEF Counted
  <2>1. PICK k \in 0 .. lastTrxn[n] : CountedUpTo(n, k)
    BY DEF NamesInv, Counted
  <2>2. k \in 0 .. lastTrxn'[n] /\ CountedUpTo(n, k)'
    BY <1>1, <2>1 DEF CountedUpTo
  <2> QED
    BY <2>2
<1>5. Requests'
  <2> SUFFICES ASSUME NEW n \in Nodes, NEW s \in Seqs, pending'[n][s] # None
               PROVE  /\ pending'[n][s].msg \in net \cup {None}
                      /\ Requested(n, pending'[n][s].trxn) =>
                           \E m \in net : m.req = <<n, pending'[n][s].trxn>> /\ m.seq = s
    BY DEF Requests, Requested, IsResponse
  <2>1. CASE /\ pending[n][s] # None
             /\ pending'[n][s].trxn = pending[n][s].trxn
             /\ pending'[n][s].msg = pending[n][s].msg
    BY <2>1 DEF NamesInv, Requests
  <2>2. CASE /\ pending'[n][s].trxn \in Nat /\ pending'[n][s].trxn > lastTrxn[n]
             /\ pending'[n][s].msg = None
    BY <1>1, <2>2, FreshIsNotRequested DEF NamesInv
  <2> QED
    BY <2>1, <2>2
<1> QED
  BY <1>2, <1>3, <1>4, <1>5 DEF NamesInv

(* send_request gives its request a number that no other request has.       *)
LEMMA NamesSend ==
  ASSUME OwnInv, NumbersDiffer, NEW n \in Nodes, NEW x \in Traffic,
         SendRequest(n, x[2], x[3])
  PROVE  NamesInv' /\ HandedNamed' /\ ResponseToOwnRequest'
<1> DEFINE t == lastTrxn[n] + 1
           s == Wire(NextSeqNum(seqNum[n]))
           m == [src |-> n, dst |-> x[2], seq |-> s, type |-> x[3], req |-> <<n, t>>]
           p == [trxn |-> t, initial |-> x[3], triggered |-> 0, retries |-> 0,
                 retrying |-> TRUE, msg |-> m]
<1>0. TypeOK /\ MapInv /\ NamesInv
  BY DEF OwnInv, HandInv, MapInv
<1>1. /\ <<n, x[2], x[3]>> \in Traffic
      /\ lastTrxn[n] < MaxTrxn
      /\ seqNum' = [seqNum EXCEPT ![n] = NextSeqNum(@)]
      /\ lastTrxn' = [lastTrxn EXCEPT ![n] = t]
      /\ pending' = [pending EXCEPT ![n] = Inserted(@, s, p)]
      /\ trxnSeq' = [trxnSeq EXCEPT ![n][t] = s]
      /\ net' = net \cup {m}
      /\ UNCHANGED handed
  BY DEF SendRequest
<1>2. PICK k \in 0 .. lastTrxn[n] :
        /\ CountedUpTo(n, k)
        /\ NextSeqNum(seqNum[n]) = Given(n, k + 1)
        /\ \A o \in net : o.req[1] = n => o.seq # Wire(Given(n, k + 1))
  BY <1>0, <1>1, NextCounted DEF NamesInv
<1>3. s = Wire(Given(n, k + 1)) /\ \A o \in net : o.req[1] = n => o.seq # s
  BY <1>2
<1>4. /\ lastTrxn \in [Nodes -> Nat] /\ t \in Trxns /\ t \in Nat /\ t > lastTrxn[n]
      /\ \A j \in Nodes : lastTrxn[j] <= lastTrxn'[j] /\ lastTrxn'[j] \in Nat
  <2>1. MaxTrxn \in Nat /\ lastTrxn \in [Nodes -> 0 .. MaxTrxn]
    BY <1>0, StackAssumption DEF TypeOK
  <2> QED
    BY <1>1, <2>1 DEF Trxns
<1>5. x[3] \in Answerable
  BY <1>1, StackAssumption
<1>6. /\ m.src = n /\ m.seq = s /\ m.type = x[3] /\ m.req = <<n, t>>
      /\ p.trxn = t /\ p.msg = m
  OBVIOUS
<1> HIDE DEF s, m, p
<1>7. /\ \A j \in Nodes, r \in Seqs : pending'[j][r] # None =>
           \/ pending'[j][r] = pending[j][r]
           \/ j = n /\ r = s /\ pending'[j][r] = p
  BY <1>0, <1>1 DEF TypeOK, Inserted
<1>8. \A o \in net : o.req[1] \in Nodes /\ o.req[2] \in Nat /\ o.req \in Nodes \X Trxns
  <2>1. \A o \in net : o \in Msgs
    BY <1>0 DEF TypeOK
  <2>2. Trxns \subseteq Nat
    BY StackAssumption DEF Trxns
  <2>3. \A o \in net : o.req \in Nodes \X Trxns
    BY <2>1 DEF Msgs
  <2> QED
    BY <2>2, <2>3
<1>9. NetNamed'
  BY <1>0, <1>1, <1>4, <1>5, <1>6, <1>8 DEF NamesInv, NetNamed
<1>10. OneNumber'
  BY <1>0, <1>1, <1>3, <1>6 DEF NamesInv, OneNumber
<1>11. Counted'
  <2> SUFFICES ASSUME NEW j \in Nodes
               PROVE  (\E i \in 0 .. lastTrxn[j] : CountedUpTo(j, i))'
    BY DEF Counted
  <2>1. CASE j = n
    <3>1. k + 1 \in 0 .. lastTrxn'[n] /\ k \in Nat
      BY <1>0, <1>1, <1>4
    <3>2. seqNum'[n] = Given(n, k + 1)
      BY <1>0, <1>1, <1>2 DEF TypeOK
    <3>3. \A o \in net' : o.req[1] = n => \E i \in 1 .. k + 1 : o.seq = Wire(Given(n, i))
      <4> SUFFICES ASSUME NEW o \in net', o.req[1] = n
                   PROVE  \E i \in 1 .. k + 1 : o.seq = Wire(Given(n, i))
        OBVIOUS
      <4>1. CASE o \in net
        BY <1>2, <3>1, <4>1 DEF CountedUpTo
      <4>2. CASE o = m
        BY <1>3, <1>6, <3>1, <4>2
      <4> QED
        BY <1>1, <4>1, <4>2
    <3>4. CountedUpTo(n, k + 1)'
      BY <3>2, <3>3 DEF CountedUpTo
    <3> QED
      BY <2>1, <3>1, <3>4
  <2>2. CASE j # n
    <3>1. PICK i \in 0 .. lastTrxn[j] : CountedUpTo(j, i)
      BY <1>0 DEF NamesInv, Counted
    <3>2. i \in 0 .. lastTrxn'[j]
      BY <1>4, <3>1
    <3>3. CountedUpTo(j, i)'
      BY <1>0, <1>1, <1>6, <2>2, <3>1 DEF CountedUpTo, TypeOK
    <3> QED
      BY <3>2, <3>3
  <2> QED
    BY <2>1, <2>2
<1>12. ASSUME NEW j \in Nodes, NEW u \in Trxns, ~(j = n /\ u = t),
              \E o \in net' : o.type \in Answerable /\ o.req = <<j, u>>
       PROVE  Requested(j, u)
  BY <1>1, <1>6, <1>12 DEF Requested, IsResponse
<1>13. Requests'
  <2> SUFFICES ASSUME NEW j \in Nodes, NEW r \in Seqs, pending'[j][r] # None
               PROVE  /\ pending'[j][r].msg \in net' \cup {None}
                      /\ (\E o \in net' :
                            o.type \in Answerable /\ o.req = <<j, pending'[j][r].trxn>>) =>
                           \E o \in net' : o.req = <<j, pending'[j][r].trxn>> /\ o.seq = r
    BY DEF Requests, Requested, IsResponse
  <2>1. CASE j = n /\ r = s /\ pending'[j][r] = p
    BY <1>1, <1>6, <2>1
  <2>2. CASE pending'[j][r] = pending[j][r]
    <3>1. pending[j][r].trxn \in Trxns /\ ~(j = n /\ pending[j][r].trxn = t)
      BY <1>0, <1>4, <2>2, PendingIsOld
    <3>2. PICK u \in Trxns : u = pending[j][r].trxn
      BY <3>1
    <3>3. /\ pending[j][r].msg \in net \cup {None}
          /\ Requested(j, u) => \E o \in net : o.req = <<j, u>> /\ o.seq = r
      BY <1>0, <2>2, <3>2 DEF NamesInv, Requests
    <3>4. (\E o \in net' : o.type \in Answerable /\ o.req = <<j, u>>) => Requested(j, u)
      BY <1>12, <3>1, <3>2
    <3>5. pending'[j][r].trxn = u /\ pending'[j][r].msg = pending[j][r].msg
      BY <2>2, <3>2
    <3> QED
      BY <1>1, <3>3, <3>4, <3>5
  <2> QED
    BY <1>7, <2>1, <2>2
<1>14. handed[n][t] = <<>>
  BY <1>0, <1>4 DEF MapInv, Fresh
<1>15. HandedNamed'
  <2> SUFFICES ASSUME NEW j \in Nodes, NEW u \in Trxns, handed[j][u] # <<>>
               PROVE  /\ handed[j][u][1] \in net' /\ handed[j][u][1].dst = j
                      /\ handed[j][u][1].type \in Answerable =>
                           trxnSeq'[j][u] \in {None, handed[j][u][1].seq}
    BY <1>1 DEF HandedNamed
  <2>1. trxnSeq'[j][u] = trxnSeq[j][u]
    BY <1>0, <1>1, <1>14 DEF TypeOK
  <2> QED
    BY <1>1, <2>1 DEF OwnInv, HandedNamed
<1>16. ResponseToOwnRequest'
  <2> SUFFICES ASSUME NEW j \in Nodes, NEW u \in Trxns,
                      \E o \in net' : o.type \in Answerable /\ o.req = <<j, u>>,
                      NEW i \in DOMAIN handed[j][u]
               PROVE  handed[j][u][i].req = <<j, u>>
    BY <1>1 DEF ResponseToOwnRequest, Requested, IsResponse
  <2>1. ~(j = n /\ u = t)
    BY <1>14
  <2>2. Requested(j, u)
    BY <1>12, <2>1
  <2> QED
    BY <2>2 DEF OwnInv, ResponseToOwnRequest
<1> QED
  BY <1>9, <1>10, <1>11, <1>13, <1>15, <1>16 DEF NamesInv

(* A datagram that finds no procedure opens a transaction of its own, which *)
(* is none of the entity's requests, also when it is a late response.       *)
LEMMA NamesInitial ==
  ASSUME OwnInv, NEW n \in Nodes, NEW m \in net, ReceiveInitial(n, m)
  PROVE  NamesInv' /\ HandedNamed' /\ ResponseToOwnRequest'
<1> DEFINE t == lastTrxn[n] + 1
           p == [trxn |-> t, initial |-> m.type, triggered |-> 0, retries |-> 0,
                 retrying |-> FALSE, msg |-> None]
<1>0. TypeOK /\ MapInv /\ NamesInv /\ m.seq \in Seqs /\ m \in Msgs
  BY NetType DEF OwnInv, HandInv, MapInv
<1>1. /\ m.dst = n
      /\ lastTrxn[n] < MaxTrxn
      /\ lastTrxn' = [lastTrxn EXCEPT ![n] = t]
      /\ pending' = [pending EXCEPT ![n] = Inserted(@, m.seq, p)]
      /\ trxnSeq' = [trxnSeq EXCEPT ![n][t] = m.seq]
      /\ handed' = [handed EXCEPT ![n][t] = Append(@, m)]
      /\ UNCHANGED <<net, seqNum>>
  BY DEF ReceiveInitial
<1>2. /\ lastTrxn \in [Nodes -> Nat] /\ t \in Trxns /\ t \in Nat /\ t > lastTrxn[n]
      /\ \A j \in Nodes : lastTrxn[j] <= lastTrxn'[j] /\ lastTrxn'[j] \in Nat
  <2>1. MaxTrxn \in Nat /\ lastTrxn \in [Nodes -> 0 .. MaxTrxn]
    BY <1>0, StackAssumption DEF TypeOK
  <2> QED
    BY <1>1, <2>1 DEF Trxns
<1>3. handed[n][t] = <<>>
  BY <1>0, <1>2 DEF MapInv, Fresh
<1>4. p.trxn = t /\ p.msg = None
  OBVIOUS
<1> HIDE DEF p, t
<1>5. \A j \in Nodes, r \in Seqs : pending'[j][r] # None =>
           \/ pending'[j][r] = pending[j][r]
           \/ j = n /\ r = m.seq /\ pending'[j][r] = p
  BY <1>0, <1>1 DEF TypeOK, Inserted
<1>6. NamesInv'
  <2>1. \A j \in Nodes, r \in Seqs : pending'[j][r] # None =>
           \/ /\ pending[j][r] # None
              /\ pending'[j][r].trxn = pending[j][r].trxn
              /\ pending'[j][r].msg = pending[j][r].msg
           \/ /\ pending'[j][r].trxn \in Nat /\ pending'[j][r].trxn > lastTrxn[j]
              /\ pending'[j][r].msg = None
    BY <1>2, <1>4, <1>5
  <2> QED
    BY <1>0, <1>1, <1>2, <2>1, NamesKept
<1>7. \A j \in Nodes, u \in Trxns :
        /\ handed'[j][u] = IF j = n /\ u = t THEN <<m>> ELSE handed[j][u]
        /\ trxnSeq'[j][u] = IF j = n /\ u = t THEN m.seq ELSE trxnSeq[j][u]
  BY <1>0, <1>1, <1>2, <1>3 DEF TypeOK
<1>8. HandedNamed'
  <2> SUFFICES ASSUME NEW j \in Nodes, NEW u \in Trxns, handed'[j][u] # <<>>
               PROVE  /\ handed'[j][u][1] \in net' /\ handed'[j][u][1].dst = j
                      /\ handed'[j][u][1].type \in Answerable =>
                           trxnSeq'[j][u] \in {None, handed'[j][u][1].seq}
    BY DEF HandedNamed
  <2>1. CASE j = n /\ u = t
    <3>1. handed'[j][u][1] = m /\ trxnSeq'[j][u] = m.seq
      BY <1>7, <2>1
    <3>2. m \in net' /\ m.dst = j
      BY <1>1, <2>1
    <3> QED
      BY <3>1, <3>2
  <2>2. CASE ~(j = n /\ u = t)
    <3>1. handed'[j][u] = handed[j][u] /\ trxnSeq'[j][u] = trxnSeq[j][u]
      BY <1>7, <2>2
    <3> QED
      BY <1>1, <2>2, <3>1 DEF OwnInv, HandedNamed
  <2> QED
    BY <2>1, <2>2
<1>9. ResponseToOwnRequest'
  <2> SUFFICES ASSUME NEW j \in Nodes, NEW u \in Trxns, Requested(j, u),
                      NEW i \in DOMAIN handed'[j][u]
               PROVE  handed'[j][u][i].req = <<j, u>>
    BY <1>1 DEF ResponseToOwnRequest, Requested, IsResponse
  <2>1. ~(j = n /\ u = t)
    BY <1>0, <1>2, FreshIsNotRequested DEF NamesInv
  <2> QED
    BY <1>7, <2>1 DEF OwnInv, ResponseToOwnRequest
<1> QED
  BY <1>6, <1>8, <1>9

(* What a procedure of one of the entity's requests accepts belongs to that *)
(* request: both have the same number.                                      *)
LEMMA NamesTriggered ==
  ASSUME OwnInv, NEW n \in Nodes, NEW m \in net, ReceiveTriggered(n, m)
  PROVE  NamesInv' /\ HandedNamed' /\ ResponseToOwnRequest'
<1> DEFINE p == pending[n][m.seq]
           q == [p EXCEPT !.retrying = FALSE, !.triggered = IF @ = 0 THEN m.type ELSE @]
<1>0. TypeOK /\ MapInv /\ NamesInv /\ m.seq \in Seqs /\ m \in Msgs
  BY NetType DEF OwnInv, HandInv, MapInv
<1>1. /\ m.dst = n
      /\ p # None /\ AcceptsResponse(p, m.type)
      /\ pending' = [pending EXCEPT ![n][m.seq] = q]
      /\ handed' = [handed EXCEPT ![n][p.trxn] = Append(@, m)]
      /\ UNCHANGED <<net, seqNum, lastTrxn, trxnSeq>>
  BY DEF ReceiveTriggered
<1>2. p \in Procs /\ p.trxn \in Trxns
  <2>1. p \in Procs
    BY <1>0, <1>1, PendingType
  <2> HIDE DEF p
  <2> QED
    BY <2>1 DEF Procs
<1>3. m.type \notin Answerable
  <2>1. m.type \in Sendable
    BY DEF OwnInv, HandInv, OnlySendable
  <2> QED
    BY <1>1, <1>2, <2>1, AcceptedIsResponse
<1>4. Requested(n, p.trxn) => m.req = <<n, p.trxn>>
  <2> SUFFICES ASSUME Requested(n, p.trxn) PROVE m.req = <<n, p.trxn>>
    OBVIOUS
  <2>1. PICK o \in net : o.req = <<n, p.trxn>> /\ o.seq = m.seq
    BY <1>0, <1>1 DEF NamesInv, Requests
  <2>2. m.req[1] = n /\ o.req[1] = n
    BY <1>0, <1>1, <1>3, <2>1 DEF NamesInv, NetNamed
  <2> QED
    BY <1>0, <2>1, <2>2 DEF NamesInv, OneNumber
<1>5. q.trxn = p.trxn /\ q.msg = p.msg
  BY <1>0, <1>2 DEF Procs, Msgs
<1> HIDE DEF q
<1>6. NamesInv'
  <2>1. \A j \in Nodes, r \in Seqs : pending'[j][r] # None =>
           /\ pending[j][r] # None
           /\ pending'[j][r].trxn = pending[j][r].trxn
           /\ pending'[j][r].msg = pending[j][r].msg
    BY <1>0, <1>1, <1>5 DEF TypeOK
  <2>2. \A j \in Nodes : lastTrxn[j] <= lastTrxn'[j] /\ lastTrxn'[j] \in Nat
    BY <1>0, <1>1, StackAssumption DEF TypeOK
  <2> QED
    BY <1>0, <1>1, <2>1, <2>2, NamesKept
<1>7. PICK h, u : h = handed[n][p.trxn] /\ u = p.trxn
  OBVIOUS
<1>8. /\ h \in Seq(Msgs) /\ u \in Trxns
      /\ \A j \in Nodes, v \in Trxns :
           handed'[j][v] = IF j = n /\ v = u THEN Append(h, m) ELSE handed[j][v]
  <2>1. handed \in [Nodes -> [Trxns -> Seq(Msgs)]]
    BY <1>0 DEF TypeOK
  <2>2. u \in Trxns /\ handed' = [handed EXCEPT ![n][u] = Append(@, m)]
    BY <1>1, <1>2, <1>7
  <2>3. h = handed[n][u]
    BY <1>7
  <2> HIDE DEF p
  <2> QED
    BY <2>1, <2>2, <2>3
<1>9. /\ DOMAIN Append(h, m) = 1 .. Len(h) + 1 /\ DOMAIN h = 1 .. Len(h)
      /\ Len(h) \in Nat
      /\ \A l \in 1 .. Len(h) : Append(h, m)[l] = h[l]
      /\ Append(h, m)[Len(h) + 1] = m
  BY <1>0, <1>8, AppendFacts
<1>10. HandedNamed'
  <2> SUFFICES ASSUME NEW k \in Nodes, NEW v \in Trxns, handed'[k][v] # <<>>
               PROVE  /\ handed'[k][v][1] \in net' /\ handed'[k][v][1].dst = k
                      /\ handed'[k][v][1].type \in Answerable =>
                           trxnSeq'[k][v] \in {None, handed'[k][v][1].seq}
    BY DEF HandedNamed
  <2>0. net' = net /\ trxnSeq' = trxnSeq
    BY <1>1
  <2>1. CASE k = n /\ v = u /\ h = <<>>
    <3>1. handed'[k][v] = Append(h, m)
      BY <1>8, <2>1
    <3>2. Append(h, m)[1] = m
      BY <2>1
    <3> QED
      BY <1>1, <1>3, <2>1, <2>0, <3>1, <3>2
  <2>2. CASE k = n /\ v = u /\ h # <<>>
    <3>1. handed[k][v] # <<>> /\ handed'[k][v][1] = handed[k][v][1]
      <4>1. handed'[k][v] = Append(h, m) /\ handed[k][v] = h /\ h \in Seq(Msgs)
        BY <1>7, <1>8, <2>2
      <4>2. Append(h, m)[1] = h[1]
        BY <1>0, <2>2, <4>1
      <4> QED
        BY <2>2, <4>1, <4>2
    <3> QED
      BY <2>0, <3>1 DEF OwnInv, HandedNamed
  <2>3. CASE ~(k = n /\ v = u)
    <3>1. handed'[k][v] = handed[k][v]
      BY <1>8, <2>3
    <3> QED
      BY <2>0, <3>1 DEF OwnInv, HandedNamed
  <2> QED
    BY <2>1, <2>2, <2>3
<1>11. ResponseToOwnRequest'
  <2> SUFFICES ASSUME NEW k \in Nodes, NEW v \in Trxns, Requested(k, v),
                      NEW i \in DOMAIN handed'[k][v]
               PROVE  handed'[k][v][i].req = <<k, v>>
    BY <1>1 DEF ResponseToOwnRequest, Requested, IsResponse
  <2>1. CASE k = n /\ v = u
    <3>1. handed'[k][v] = Append(h, m) /\ handed[k][v] = h
      BY <1>7, <1>8, <2>1
    <3>2. CASE i = Len(h) + 1
      BY <1>4, <1>7, <1>9, <2>1, <3>1, <3>2
    <3>3. CASE i \in 1 .. Len(h)
      BY <1>9, <3>1, <3>3 DEF OwnInv, ResponseToOwnRequest
    <3>4. i = Len(h) + 1 \/ i \in 1 .. Len(h)
      BY <1>9, <3>1
    <3> QED
      BY <3>2, <3>3, <3>4
  <2>2. CASE ~(k = n /\ v = u)
    BY <1>8, <2>2 DEF OwnInv, ResponseToOwnRequest
  <2> QED
    BY <2>1, <2>2
<1> QED
  BY <1>6, <1>10, <1>11

(* send_response names its response after the request and its number.       *)
LEMMA NamesResponse ==
  ASSUME OwnInv, NEW n \in Nodes, NEW t \in Trxns, SendResponse(n, t)
  PROVE  NamesInv' /\ HandedNamed' /\ ResponseToOwnRequest'
<1> DEFINE r == [src |-> n, dst |-> handed[n][t][1].src, seq |-> trxnSeq[n][t],
                 type |-> handed[n][t][1].type + 1, req |-> handed[n][t][1].req]
<1>0. TypeOK /\ NamesInv
  BY DEF OwnInv, HandInv, MapInv
<1>1. PICK h, s : h = handed[n][t][1] /\ s = trxnSeq[n][t]
  OBVIOUS
<1>2. /\ handed[n][t] # <<>> /\ h.type \in Answerable /\ s # None
      /\ net' = net \cup {r}
      /\ pending' = [pending EXCEPT ![n] = Erased(@, s)]
      /\ trxnSeq' = [trxnSeq EXCEPT ![n][t] = None]
      /\ UNCHANGED <<handed, seqNum, lastTrxn>>
  BY <1>1 DEF SendResponse, ForgetTrxn
<1>3. r.dst = h.src /\ r.seq = s /\ r.type = h.type + 1 /\ r.req = h.req
  BY <1>1
<1> HIDE DEF r
<1>4. h \in net /\ h.dst = n /\ s = h.seq
  BY <1>1, <1>2 DEF OwnInv, HandedNamed
<1>5. s \in Seqs
  BY <1>0, <1>4, NetType
<1>6. r.type \notin Answerable
  BY <1>2, <1>3, TypeNumbers
<1>7. \A j \in Nodes, v \in Seqs : pending'[j][v] # None => pending'[j][v] = pending[j][v]
  BY <1>0, <1>2, <1>5 DEF TypeOK, Erased
<1>8. NetNamed'
  BY <1>0, <1>2, <1>3, <1>4, <1>6 DEF NamesInv, NetNamed
<1>9. OneNumber'
  <2>1. \A o \in net' : \E g \in net : o.req = g.req /\ o.seq = g.seq
    BY <1>2, <1>3, <1>4
  <2> QED
    BY <1>0, <2>1 DEF NamesInv, OneNumber
<1>10. Counted'
  <2> SUFFICES ASSUME NEW j \in Nodes
               PROVE  (\E k \in 0 .. lastTrxn[j] : CountedUpTo(j, k))'
    BY DEF Counted
  <2>1. PICK k \in 0 .. lastTrxn[j] : CountedUpTo(j, k)
    BY <1>0 DEF NamesInv, Counted
  <2>2. CountedUpTo(j, k)'
    BY <1>2, <1>3, <1>4, <2>1 DEF CountedUpTo
  <2> QED
    BY <1>2, <2>1, <2>2
<1>11. \A j, u : (\E o \in net' : o.type \in Answerable /\ o.req = <<j, u>>) => Requested(j, u)
  BY <1>2, <1>6 DEF Requested, IsResponse
<1>12. Requests'
  <2> SUFFICES ASSUME NEW j \in Nodes, NEW v \in Seqs, pending'[j][v] # None
               PROVE  /\ pending'[j][v].msg \in net' \cup {None}
                      /\ (\E o \in net' :
                            o.type \in Answerable /\ o.req = <<j, pending'[j][v].trxn>>) =>
                           \E o \in net' : o.req = <<j, pending'[j][v].trxn>> /\ o.seq = v
    BY DEF Requests, Requested, IsResponse
  <2>1. pending'[j][v] = pending[j][v]
    BY <1>7
  <2>2. PICK u : u = pending[j][v].trxn
    OBVIOUS
  <2>3. /\ pending[j][v].msg \in net \cup {None}
        /\ Requested(j, u) => \E o \in net : o.req = <<j, u>> /\ o.seq = v
    BY <1>0, <2>1, <2>2 DEF NamesInv, Requests
  <2>4. (\E o \in net' : o.type \in Answerable /\ o.req = <<j, u>>) => Requested(j, u)
    BY <1>11
  <2> QED
    BY <1>2, <2>1, <2>2, <2>3, <2>4
<1>13. HandedNamed'
  <2>1. \A k \in Nodes, u \in Trxns : trxnSeq'[k][u] \in {None, trxnSeq[k][u]}
    BY <1>0, <1>2 DEF TypeOK
  <2> QED
    BY <1>2, <2>1 DEF OwnInv, HandedNamed
<1>14. ResponseToOwnRequest'
  <2> SUFFICES ASSUME NEW j \in Nodes, NEW u \in Trxns, NEW i \in DOMAIN handed[j][u],
                      \E o \in net' : o.type \in Answerable /\ o.req = <<j, u>>
               PROVE  handed[j][u][i].req = <<j, u>>
    BY <1>2 DEF ResponseToOwnRequest, Requested, IsResponse
  <2>1. Requested(j, u)
    BY <1>11
  <2> QED
    BY <2>1 DEF OwnInv, ResponseToOwnRequest
<1> QED
  BY <1>8, <1>9, <1>10, <1>12, <1>13, <1>14 DEF NamesInv

(* time_out_event sends only what was sent before, and forgets.             *)
LEMMA NamesTimeOut ==
  ASSUME OwnInv, NEW n \in Nodes, TimeOut(n)
  PROVE  NamesInv' /\ HandedNamed' /\ ResponseToOwnRequest'
<1>0. TypeOK /\ NamesInv
  BY DEF OwnInv, HandInv, MapInv
<1>1. UNCHANGED <<seqNum, lastTrxn, trxnSeq, handed>>
  BY DEF TimeOut, TimerFires, Retransmit, GiveUp, CleanupTimeOut, UnknownTimeOut, maps
<1>2. \A j \in Nodes : lastTrxn[j] <= lastTrxn'[j] /\ lastTrxn'[j] \in Nat
  BY <1>0, <1>1, StackAssumption DEF TypeOK
<1>3. /\ net' = net
      /\ \A j \in Nodes, r \in Seqs : pending'[j][r] # None =>
           /\ pending[j][r] # None
           /\ pending'[j][r].trxn = pending[j][r].trxn
           /\ pending'[j][r].msg = pending[j][r].msg
  <2>1. CASE UNCHANGED <<net, pending>>
    BY <2>1
  <2>2. CASE \E tm \in expired[n] : Retransmit(n, tm)
    <3>1. PICK tm \in expired[n] : Retransmit(n, tm)
      BY <2>2
    <3> DEFINE p == pending[n][tm.seq]
               q == [p EXCEPT !.retries = @ + 1, !.retrying = TRUE]
    <3>2. /\ p # None /\ p.msg # None
          /\ pending' = [pending EXCEPT ![n][tm.seq] = q]
          /\ net' = net \cup {p.msg}
      BY <3>1 DEF Retransmit
    <3>3. tm.seq \in Seqs
      BY <1>0 DEF TypeOK, Timers
    <3>4. p \in Procs
      BY <1>0, <3>2, <3>3, PendingType
    <3>5. p.msg \in net
      BY <1>0, <3>2, <3>3 DEF NamesInv, Requests
    <3> HIDE DEF p
    <3>6. q.trxn = p.trxn /\ q.msg = p.msg
      BY <3>4 DEF Procs
    <3> HIDE DEF q
    <3>7. \A j \in Nodes, r \in Seqs :
            pending'[j][r] = IF j = n /\ r = tm.seq THEN q ELSE pending[j][r]
      BY <1>0, <3>2 DEF TypeOK
    <3> QED
      BY <3>2, <3>5, <3>6, <3>7 DEF p
  <2>3. CASE \E tm \in expired[n] : CleanupTimeOut(n, tm)
    <3>1. PICK tm \in expired[n] : CleanupTimeOut(n, tm)
      BY <2>3
    <3>2. net' = net /\ pending' = [pending EXCEPT ![n] = Erased(@, tm.seq)]
      BY <3>1 DEF CleanupTimeOut
    <3>3. \A j \in Nodes, r \in Seqs :
            pending'[j][r] # None => pending'[j][r] = pending[j][r]
      BY <1>0, <3>2 DEF TypeOK, Erased
    <3> QED
      BY <3>2, <3>3
  <2> QED
    BY <2>1, <2>2, <2>3 DEF TimeOut, TimerFires, GiveUp, UnknownTimeOut, maps
<1>4. NamesInv'
  BY <1>0, <1>1, <1>2, <1>3, NamesKept
<1>5. HandedNamed' /\ ResponseToOwnRequest'
  BY <1>1, <1>3 DEF OwnInv, HandedNamed, ResponseToOwnRequest, Requested, IsResponse
<1> QED
  BY <1>4, <1>5

(* Every step keeps messages and procedures named after one request.        *)
LEMMA OwnStep ==
  ASSUME NumbersDiffer, OwnInv, [Next]_vars
  PROVE  OwnInv'
<1>1. HandInv'
  BY HandStep DEF OwnInv
<1> SUFFICES NamesInv' /\ HandedNamed' /\ ResponseToOwnRequest'
  BY <1>1 DEF OwnInv
<1>2. CASE UNCHANGED vars
  <2>1. UNCHANGED <<seqNum, lastTrxn, pending, trxnSeq, net, handed>>
    BY <1>2 DEF vars, maps
  <2>2. NetNamed' /\ OneNumber'
    BY <2>1 DEF OwnInv, NamesInv, NetNamed, OneNumber
  <2>3. Counted'
    BY <2>1 DEF OwnInv, NamesInv, Counted, CountedUpTo
  <2>4. Requests'
    BY <2>1 DEF OwnInv, NamesInv, Requests, Requested, IsResponse
  <2>5. HandedNamed'
    BY <2>1 DEF OwnInv, HandedNamed
  <2>6. ResponseToOwnRequest'
    BY <2>1 DEF OwnInv, ResponseToOwnRequest, Requested, IsResponse
  <2> QED
    BY <2>2, <2>3, <2>4, <2>5, <2>6 DEF NamesInv
<1> QED
  BY <1>2, NamesSend, NamesInitial, NamesTriggered, NamesResponse, NamesTimeOut DEF Next

(* ResponseToOwnRequest (handle_receive_message_cb, one map keyed by the    *)
(* bare sequence number): what is handed up under the transaction of a      *)
(* request of the entity is a response to that request, whichever numbers   *)
(* the peers give, for a stack that has not given out all its numbers; and  *)
(* whether or not the task that owns the stack dispatches the time-outs.    *)
THEOREM ResponsesFindTheirRequest ==
  ASSUME NumbersDiffer
  PROVE  Spec => []ResponseToOwnRequest
<1>1. Init => OwnInv
  <2> SUFFICES ASSUME Init PROVE OwnInv
    OBVIOUS
  <2>1. HandInv
    BY HandInit
  <2>2. \A n \in Nodes : CountedUpTo(n, 0) /\ 0 \in 0 .. lastTrxn[n]
    <3>1. \A n \in Nodes : Given(n, 0) = InitSeq[n]
      BY StackAssumption DEF Given
    <3> SUFFICES ASSUME NEW n \in Nodes
                 PROVE  CountedUpTo(n, 0) /\ 0 \in 0 .. lastTrxn[n]
      OBVIOUS
    <3>2. seqNum[n] = Given(n, 0) /\ net = {} /\ lastTrxn[n] = 0
      BY <3>1 DEF Init
    <3>3. CountedUpTo(n, 0)
      BY <3>2 DEF CountedUpTo
    <3>4. 0 \in 0 .. lastTrxn[n]
      BY <3>2
    <3> QED
      BY <3>3, <3>4
  <2>3. Counted
    BY <2>2 DEF Counted
  <2> QED
    BY <2>1, <2>3 DEF Init, OwnInv, NamesInv, NetNamed, OneNumber, Requests, HandedNamed,
                      ResponseToOwnRequest, Requested
<1>2. OwnInv /\ [Next]_vars => OwnInv'
  BY OwnStep
<1>3. OwnInv => ResponseToOwnRequest
  BY DEF OwnInv
<1> QED
  BY <1>1, <1>2, <1>3, PTL DEF Spec
================================================================================
