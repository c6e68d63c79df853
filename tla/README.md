# A verification project for the 5G core of 5g_slicing

The repository deploys a sliced 5G core network out of the OpenAirInterface
network functions, whose sources are vendored under `src/component/oai-*`. Charts,
compose files and CI scripts around them configure the deployment and hold no logic
of their own. This directory models the parts of the core whose correctness depends
on the order in which threads, timers and messages meet: the PFCP transaction layer
between SMF and UPF, the PFCP associations and their heartbeats, the timers under
both, the PDU sessions from the SMF to the session switch of the UPFs, the connections
of UEs in the AMF, and the registry of the NRF. Paths below are relative to
`src/component/`.

## 1. Inventory

| component | sources | state | operations | how it interacts | status |
|---|---|---|---|---|---|
| PFCP transaction layer | `oai-smf/src/pfcp/pfcp.{cpp,hpp}`, same code in `oai-upf` | `seq_num`, `pending_procedures`, `trxn_id2seq_num`, `msg_out_retry_timers`, `proc_cleanup_timers` | `send_request`, `send_response`, `handle_receive_message_cb`, `time_out_event` | called by the N4 tasks; receives from UDP; starts ITTI timers | modelled |
| SMF associations | `oai-smf/src/smf_app/smf_pfcp_association.cpp`, `smf_n4.cpp` | `associations_graph`, one `pfcp_association` per UPF with timer, transaction and retries | setup, heartbeat, time-out, failure, release | N4 task and UDP thread, no common lock | partly (heartbeats) |
| ITTI timers | `oai-smf/src/itti/itti.cpp` (AMF, UPF alike) | `timers`, `current_timer`, `terminate` | `timer_setup`, `timer_remove`, `timer_manager_task`, shutdown | every task sets timers; one thread serves them | modelled |
| ITTI queues | same file | one FIFO per task | `send_msg`, `receive_msg` | all tasks | a sequence in the modules that use it |
| SMF sessions | `oai-smf/src/smf_app/smf_{app,context,procedure}.cpp`, `session_handler.cpp`, `smf_paa_dynamic.hpp` | contexts, PDU sessions, pending procedures, edges of the path with TEIDs and rule ids, address pool | create, setup, idle, service request, release along a path of UPFs | AMF over HTTP; UPFs over N4 | partly (one QoS flow, no handover) |
| SMF UPF graph | `smf_pfcp_association.cpp` (`upf_graph`) | edges by DNN and slice, position of the traversal | `select_upf_nodes`, `dfs_next_upf` | sessions | partly (traversal; selection planned) |
| UPF session switch | `oai-upf/src/upf_app/simpleswitch/pfcp_{switch,session}.cpp` | sessions by CP F-SEID and by UP SEID, PDRs by TEID and by UE address | establishment, modification, deletion, packet lookup | UPF task; packet threads read | partly |
| UPF association | `oai-upf/src/upf_app/app/upf_pfcp_association.cpp` | the SMF's association and its sessions | setup, heartbeat failure | removes the SMF's sessions from the switch | partly |
| UPF BPF data path | `oai-upf/src/upf_app/SessionManager.cpp`, `SessionProgramManager.cpp` | kernel maps and programs | create, update, remove | called by the switch | not modelled: kernel I/O |
| AMF connections | `oai-amf/src/amf-app/amf_{n1,n2,app}.cpp` | NGAP, UE and NAS contexts and the maps to them, two timers per UE | Initial UE Message, service request, release, time-outs, deregistration | tasks N2, APP, N1; gNB over NGAP; SMF over HTTP | partly |
| AMF registration | same files | NAS security context | identity, authentication, security mode, accept | AUSF, UDM | planned |
| NRF registry | `oai-nrf/src/nrf_app/nrf_{app,profile,event}.cpp`, `task_manager.cpp` | `instance_id2nrf_profile`, `suspended_nf[2]`, two timer connections and two flags per profile | register, update (heartbeat), deregister, time-out, sweep | HTTP threads and the task thread | partly (no subscriptions) |
| NRF subscriptions, discovery | `nrf_subscription.cpp`, `nrf_search_result.cpp`, `nrf_client.cpp` | `subscrition_id2nrf_subscription` | subscribe, notify, expire, discover | signals of the registry | planned |
| SMF N1/N2/N7/SBI | `smf_n1.cpp`, `smf_n2.cpp`, `smf_n7.cpp`, `smf_sbi.cpp` | none | encode, decode, HTTP | | not modelled: conversions and I/O |
| PCF | `oai-pcf/src/pcf_app/` | `m_associations`, policy storage | create, get, update, delete an SM policy | SMF | planned |
| NSSF | `oai-nssf/src/nssf_app/` | configuration | slice selection | AMF | planned (algorithm) |
| AUSF, UDM, UDR | `oai-ausf`, `oai-udm`, `oai-udr` | authentication contexts; database rows | 5G-AKA steps; forwarding | AMF, SMF | order of the 5G-AKA steps planned with the AMF; SQL is I/O |
| NEF | `oai-nef/src/nef_app/nef_app.cpp` | subscriptions | subscribe, notify | AF | not modelled |
| UPF-VPP | `oai-upf-vpp` | | | | scripts only; VPP is not in the repository |

Generated or vendored code is left aside: the ASN.1 codecs of NGAP, the NAS codecs and
the OpenAPI models, which every network function carries a copy of, libbpf, bstrlib.
They are by far the most of the repository's lines, and hold no state.

What is hard about these parts: handlers of one object run in different threads
without a common lock; a timer that has fired cannot be withdrawn although
`timer_remove` was called; UDP loses, repeats and reorders; numbers wrap, are
truncated or collide; time is counted by a thread that can be late; two procedures of
one session share the position of its path; identifiers of a peer are used again while
messages about their former owner are still in a queue. `PROJECT.json` lists these
hazards at the lines where they bite, with the properties that would catch them.

## 2. Modules

| module | models | its abstraction |
|---|---|---|
| `PfcpStack` | `pfcp_l4_stack` of every PFCP entity, and the network | messages are source, destination, sequence number and type; `req` is a ghost that names the request they belong to |
| `MCPfcpStack` | instances: one SMF, one or two UPFs | |
| `PfcpStackProofs` | theorems about `PfcpStack` | |
| `SmfAssociation` | associations and heartbeats of the SMF | from the stack only: ids are new, one response per transaction |
| `MCSmfAssociation` | instance: two UPFs, room for one | |
| `SmfAssociationProofs` | theorems about `SmfAssociation` | |
| `TimerService` | what tasks expect of ITTI's timers (abstract specification) | |
| `IttiTimer` | `itti_mw`'s timers, access by access, and its shutdown | a timer is the number of its call, an id and a time |
| `IttiTimerProofs` | theorems about `IttiTimer`, including that it implements `TimerService` | |
| `N4` | PFCP session messages in flight between SMF and UPFs | what `PfcpStack` leaves to its users: at most one delivery and one answer of a request, in any order, or a loss |
| `AddressPool` | `paa_dynamic`, the bitmap of UE addresses | operators only; an address is its distance from the first one |
| `AddressPoolProofs` | lemmas and a theorem about the bitmap | |
| `SmfSession` | PDU sessions of the SMF and their N4 procedures | one QoS flow; a procedure is its kind and its context |
| `UpfSwitch` | session switch of the UPFs, and the SMF's association there | a rule is what the lookup tables tell apart |
| `PduSession` | composition of `SmfSession`, `N4` and `UpfSwitch`, with the properties | |
| `MCPduSession` | instances: paths and subscribed addresses | |
| `PduSessionProofs` | theorems about `PduSession` | |
| `AmfConnection` | connections of registered UEs through the three tasks of the AMF | an AMF UE NGAP ID is the number of its connection |
| `MCAmfConnection` | instances: one or two UEs | |
| `AmfConnectionProofs` | types of `AmfConnection`, and the two maps of the NGAP contexts | |
| `AmfSupervisionProofs` | theorems about sessions, timers and releases of `AmfConnection` | |
| `NrfRegistry` | registry, heartbeat timers, suspension and sweep of the NRF | a profile is its status, two flags and two countdowns |
| `MCNrfRegistry` | instance: a punctual NF and one that may fall silent | |
| `NrfRegistryProofs` | theorems about `NrfRegistry` | |

A definition that is only a plausible mistake (its name says which, and no other
definition uses it) stands before the one it would break; `PROJECT.json` lists under
"mutants" which property notices it.

### PfcpStack

State is that of the class: `seqNum`, `pending`, `trxnSeq` and the two timer maps,
per entity; `net` is every datagram ever sent, of which any may be received any number
of times or never. `SendRequest` and `SendResponse` stand for all the overloads of
`send_request` and `send_response`, which differ only in what they encode.
`handle_receive_message_cb` is `ReceiveInitial` (no procedure under the number) and
`ReceiveTriggered` (one there and `check_response_type` accepts); in all other cases the
datagram is discarded and nothing changes. The faithful details that matter:

- one map, keyed by the bare sequence number, for both directions and all peers;
- `insert` does not replace (`Inserted`), and `seq_num` wraps at 2^31 while the header
  carries 24 bits (`NextSeqNum`, `Wire`);
- `check_response_type` goes on from the triggered type once there is one; it accepts
  type 11 from a procedure no request opened; `check_request_type` takes two responses
  (13, 57) for requests;
- `stop_proc_cleanup_timer` erases from the wrong map, so cleanup timers stay known;
- the N4 tasks drop the stack's time-outs (their `arg1_user` is 0, and `smf_n4::time_out_itti_event`,
  `smf_n4.cpp:799`, has no caller), so in SMF and UPF `time_out_event` is never called: constant
  `TimeoutsDispatched` is FALSE for the system as deployed, and TRUE to check `time_out_event` as it
  is written. A request that is lost is not sent again and its procedure stays for ever; no
  property of this project says that procedures end.

Each handler is one step although the UDP thread and the N4 task share the maps without
a lock; that race is undefined behaviour of `std::map` and is listed as a hazard.

### SmfAssociation

An association object outlives its place in the graph (timers and threads still hold
it), so `objs` keeps every one and `graph` the index of the current one of each UPF. The
N4 task moves by `Take...`, `ArmTimeout`, `SendHeartbeat`; the UDP thread by
`Receive...`, `Disarm`, `Rearm`; `Fire` moves a timer to the queue, from which nothing
removes it. A TIME_OUT carries only the hash of the node id, and
`remove_association` takes it as an `int32_t` (`Int32`): `Survives` says which hashes come through.
That of an IPv4 node id is the address, so a UPF whose last octet is 128 or more (the repository's own
192.168.70.134) is reported as failed, not found, and stays in the graph without a timer; the instance
has one UPF of each kind. `ReceiveReleaseWish` looks the
association up under the SMF's own node id, as the code does.

### IttiTimer

`timer_manager_task` is split where another thread can come between: reading the
flag (`Top`, `Check`), taking the earliest timer (`Pick`), entering the wait (`Enter`),
its three ways out (`WaitTimesOut`, `WaitIsNotified`, `SpuriousWakeup`), putting the timer
back (`Reinsert`), and the two reads of `current_timer` for the message (`Signal`,
`Send`). `timer_remove` may replace `current_timer` between any two of them. `Ties`
says whether two timers may have the same `time_out`, in which case `std::set` drops one.

`timer_setup` is split too, since `++timer_id` is a plain member and no lock is held yet:
`ReadId`, `StoreId` and `Insert`. With `Racing`, two threads may read one value and get the same
id, and a late `StoreId` makes ids come back. A timer is therefore known by the number of the call
that set it up (`key`), and `timer_remove` takes out the first one of the set that has the id, which
may be another thread's. The clock is read when the call begins: an interruption before the code
reads it is a longer interval.

### PduSession: SmfSession, N4, UpfSwitch, AddressPool

`TASK_SMF_APP` takes one request of the AMF or one answer of a UPF at a time, and so does
the task of each UPF, so a handler is one step and the interleaving is that of messages.

- Requests of the AMF are `Create` (and `CreateWithoutAddress`, `CreateWithoutUpf`),
  `SetupResponse`, `AnRelease`, `ServiceRequested` and `Release`. Each that
  needs a UPF begins a procedure, which visits the UPFs of the path one by one and goes on
  in `EstAccepted`, `EstRejected`, `ModAnswered` and `DelAnswered`. Answers whose SEID names
  no context, or whose transaction no procedure waits for, are discarded (`Discard`).
- A context keeps what `smf_pdu_session` and its graph keep: address, one `upSeid` for the
  whole path, position `at` and rest `todo` of the traversal, which procedures under way at the
  same time share, and per UPF the two edges with rule ids, tunnel and precedence. A UE may
  create a session anew while the old context still waits for its UPF; `cur` names the
  newer one, and the object of the older one lives on.
- The create procedure goes from the UPF towards the data network to the one towards the UE. In
  `EstAccepted` it passes over UPFs whose next hop is not known yet (`Eligible`), as the code does
  where it logs that there is no F-TEID of the next hop; `WithTunnel` makes the tunnel of the UPF that
  answered the `next` of the edges before it. `PathAssumption` says that a path is a sequence
  of different UPFs, which is what the traversal visits, and `NamesAssumption` that no UPF is called
  as the SMF.
- `Establish`, `EstablishAgain`, `Modify`, `Delete` and `NotFound` are the handlers of
  `pfcp_switch`. The lookup tables are filled by `AddRule`, which inserts before the first rule of
  lower precedence and drops the rule when there is none, and emptied by the entry, not by the rule.
  `HeartbeatFailure` removes the sessions of the SMF, `Associate` takes it back without them.
- `AddressPool` keeps the words of the bitmap, the insertion of a word by reading it, and
  `in_pool`, which compares with the size of the pool only.

The composed system does not repeat `PfcpStack`: `N4` assumes what the theorems
`AnsweredOnce`, `HandedUpOnce` and `NotExecutedTwice` say of it, and adds loss and reordering.

### AmfConnection

`n2q`, `appq` and `n1q` are the queues of the three tasks; a connection is on its way through
them while the release of an older one, and the gNB's reuse of its RAN UE NGAP ID, go the
same way. `ReceiveInitial`, `Establish` and `HandleService` are the three parts of a returning
UE's message; `ReceiveReleaseRequest`, `SendReleaseCommand` and the four `Complete...` those of
a release. Between comparing the ids (`CompleteCurrent`) and setting CM-IDLE and the timer on the NAS context it
has read (`CompleteGoesIdle`) the N1 task can move the UE to its new connection; another step waits for the SMF
(`n2` holds what the task is at). The contexts are objects (`uncs`, `uc`, `nc`)
and the maps to them variables of their own, since they are updated apart. gNB and UEs are
external: `Attach`, `Inactive`, `Leave` and `Command` say what an NGAP peer may do.

### NrfRegistry

Each step of an HTTP thread or of the task thread is what it does between two locks:
`Register`, `Monitor` for a registration; `Beat`, `Disconnect`, `Subscribe`, `SetStatus`,
`Unlist` for a heartbeat; `CallSlot`, `Suspend`, `Notify`, `List`, `Clear` for a slot;
`Sweep`, `ClearList` for the sweep. Timers are countdowns, so time is unbounded; `lag`
is how far the counted ticks have fallen behind the wall clock, from which start times
are taken. A slot works on a bare pointer: when a registration or deregistration destroys
its profile, its writes are lost and what it puts on the list is unknown.

Assumed: an HTTP request is served within one tick, a tick is lost only while the task
thread is between slots or notifies subscribers, and an NF waits for an answer before its
next request.

## 3. Runs

Every run ends within about two minutes on two workers. Deadlock is not checked:
with bounded numbers of requests, timers and connections each of these systems may come
to rest.

| run | checks | bounds, and why they are enough |
|---|---|---|
| `stack_deployed` | `TypeOK`, `PendingIsMapped`, `OneResponseSent`, `OneResponseHandedUp`, `OneExecutionInFlight`, `ResponseToOwnRequest` | one SMF and two UPFs, three transactions each; the SMF's counter wraps, and its numbers, and those of the UPFs, meet: requests of all three are pending under one number (179 994 states) |
| `stack_timers` | `NoRetryAfterResponse` | time-outs dispatched; two retries, two transactions: a timer fires before, while and after the response is handled (110 981 states) |
| `assoc` | `TypeOK`, `HeartbeatAlive`, `FailedIsRemoved`, `FailureNeedsHeartbeats`, `WithinCapacity`, `RemovedHasFailed`, `SilentIsGivenUp` | two UPFs with room for one; the hash of the first does not survive an `int32_t`, the second has the SMF's own id (so that a release is scheduled at all); three setups, one response, one retry: stale time-outs of a removed association reach its successor (1.4 million states) |
| `timer_service` | `TypeOK`, `TimersAreKept`, `ServiceSpec`, `FiresUndisturbed` | three timers whose ids may coincide, a removal and a shutdown: one current, one waiting and one that is being set up in between (762 219 states) |
| `timer_lost_wakeup` | `EveryTimerFires` is violated | two timers, one removed |
| `nrf_two` | `TypeOK`, `PunctualIsKept`, `WatchedUntilLapse`, `NeverHeardIsRemoved`, `SilentIsSuspended` | a punctual NF, and one with three requests of any kind at any time; one lost tick, a period of 3, an interval of 4 that starts off the wall clock's boundary |
| `nrf_again` | `WatchedAgain` is violated | one NF that is suspended and comes back |
| `n4_session` | `TypeOK`, `AddressExclusive`, `SwitchConsistent`, `NoMisdelivery`, `OnlyOwnSession` | two UEs (symmetric) on one UPF, two addresses, three contexts, six requests of the AMF with two procedures in flight, one loss and one heartbeat failure: a session is released and created anew, with an address used again, while the old one still waits (2.4 million states) |
| `n4_chain` | `TunnelFirst`, `DeletionReturnsAddress` | one UE on three UPFs with the only address of the pool, another on a fourth that is subscribed to the same address, five requests of the AMF: the shortest path on which a procedure can reach a UPF before the one behind it, if it does not check (51 189 states) |
| `n4_path` | `OnlyOwnSession` is violated | the path of two UPFs shares its first UPF with another UE |
| `amf` | `TypeOK`, `NgapMapsAgree`, `SessionsFollow`, `Supervised`, `OldReleaseIgnored`, `SilentIsReleased` | two UEs, three RAN ids and three connections: a UE has an old, a current and a new connection, and one UE gets the RAN id of the other (309 806 states) |
| `amf_return` | `ConnectedIsKept` is violated | one UE that falls idle and comes back |

Widths are small where the code's are large (`CtrMod` for 2^31, `WireMod` for 2^24,
`Half` and `SizeMod` for 2^31 and 2^64): what matters is that the larger is a multiple of
the smaller and that the counter wraps within a run. The theorems hold for any widths and for
whatever numbers the entities start from.

What the less obvious properties say:

- `OneExecutionInFlight`: while the UPF works on an establishment request, a second
  copy of the datagram does not make it work on it again. After the answer it does: the
  stack forgets the number at once, and the application must cope with the repetition.
- `ResponseToOwnRequest`: a response handed up under the transaction of an own request answers
  that request. All numbers meet in the run, as the code lets them: when two requests cross with one
  number, the response may be lost, or be handed up under the transaction of the peer's request (see
  the findings), but it is never taken for that of another request of the entity, until that
  has given all its numbers and begins again.
- `HeartbeatAlive`: for an associated UPF that is not reported as failed there is always a timer, a
  queued time-out, or a thread about to set one. The UDP thread and the N4 task overwrite each other's
  timer id, so this is not evident: superfluous timers appear, but none is missing.
- `FailedIsRemoved`: a UPF that was reported as failed leaves the graph, but for one whose
  hash does not survive the `int32_t` (which the run has): the defect is confined to those.
- `SilentIsGivenUp`: a UPF that stays silent is reported as failed in the end, whatever its hash. With
  `FailedIsRemoved` it has left the graph then, or has such a hash.
- `FailureNeedsHeartbeats`: left-over time-outs of an earlier association shorten the
  life of its successor by one heartbeat (MaxRetries instead of MaxRetries + 1), not by more.
- `TimersAreKept` is the inductive invariant of the proof below, checked first.
- `PunctualIsKept`: neither a race of a heartbeat with a slot, nor a lost tick, suspends an
  NF that leaves less than the period between heartbeats. With gaps that are always
  longer than the period the margin of 2 s is used up eventually.
- `AddressExclusive` is about the addresses of the pool that nobody is subscribed to, wherever
  the subscribed ones are. Contexts live on after their UE has created the next one, and their
  late deletions still return an address. It is cleared with the return, so it is never
  returned twice, and never while another UE holds it. What the code does with a subscribed address
  inside the pool stays confined to that address (see the findings).
- `NoMisdelivery`: the rules of an idle UE stay in the lookup table by address, and those
  of a lost deletion stay for ever, yet a packet is never forwarded into the session of a
  UE other than the one to which the SMF gave the address.
- `OnlyOwnSession`: a session at the UPF disappears only by the deletion of its own
  context. It holds while every path has one UPF, and fails with longer ones (below).
- `TunnelFirst`: procedures under way at the same time move one position of the traversal;
  even so no UPF is asked before the tunnel it must point to is known, because the create procedure
  goes past a UPF whose next hop is unknown. Without that check it fails from three UPFs on.
- `DeletionReturnsAddress` speaks of deletions that name a session of the UPF. One that
  names none is answered with a header the SMF cannot match, and the address is lost (below).
- `NgapMapsAgree`: a new connection may get the RAN id of an old one whose release is still
  in a queue; removing the old context must not take the new one out of either map.
- `Supervised`: between the end of a connection and the release of the UE's sessions there
  is always a release, a timer or its message under way. Together with fairness,
  `SilentIsReleased` is its consequence.
- `OldReleaseIgnored`: the late completion of an old connection starts no mobile reachable
  timer for a UE whose newer one has been set up, although the N1 task may move the UE there after the ids
  were compared. A timer that is started before the newer connection is set up may be for the old one: that is the
  UE's current connection then.

### Findings

- `timer_lost_wakeup`: a `timer_remove` between the manager's choice of a timer and its
  wait leaves it waiting for `null_timer`, and other timers do not fire until the next call.
- `nrf_again`: an NF that was suspended and returns is never watched again, since
  `first_update` stays false.
- `n4_path`: `smf_pdu_session` keeps one `up_fseid` for the whole path, overwritten by each
  UPF in turn. A release sends the last one to every UPF: at the others it names no
  session, or the session of another UE, which is removed.
- `amf_return`: the timers of an idle UE are not stopped when it comes back with a GUTI the
  AMF knows; when they fire, the sessions of the connected UE are released.

Seen while modelling, without a run of their own (`PROJECT.json` has them as hazards, most of
them covered by a property that shows what holds in spite of them):

- nothing calls `time_out_event` (`smf_n4.cpp:799` has no caller), so procedures the SMF opens are neither
  retransmitted nor released, and one whose request or response is lost stays for ever;
- two requests that cross with one number: the response to one is discarded, or, if both are of one type (heartbeats
  of the SMF to one UPF, and of another UPF to the SMF), handed up under the transaction of the other;
- a failed UPF stays in the graph when the hash of its node id does not fit an `int32_t`
  (`smf_pfcp_association.cpp:510`; an IPv4 address whose last octet is 128 or more, as that of the
  repository's UPF, and about half of the FQDNs), without a heartbeat;
- `++timer_id` is not locked (`itti.cpp:148`; `m_timer_id` is never used): two timers may have one id, and
  `timer_remove` takes out the one that comes first;
- the manager clears `terminate` itself, so `~itti_mw` may destroy a joinable thread
  (`itti.cpp:128`);
- the maps of the stack are shared by two threads without a lock (`pfcp.cpp:170`);
- the release an UPF asks for is looked up under the SMF's own node id (`smf_n4.cpp:496`), the
  handler of `N4_NODE_FAILURE` has an empty loop (`smf_pfcp_association.cpp:417`), and the
  sessions to restore after a UPF's restart are always none (`:76`);
- a release before the establishment is answered is sent with SEID 0. The UPF answers that it
  knows no such session, with 0 in the header, the SMF discards the answer, and the address is
  never returned;
- a second create for a session that exists leaves the address and the N4 session of the first
  behind (`smf_app.cpp:1004-1016`);
- a rule of the same precedence as one in the table is not inserted (`pfcp_switch.cpp:553`,
  `589`), a failed establishment goes on with a session it has deleted (`:728`), the session of
  the BPF data path is never removed (`:645`), and a deletion tells the association an
  empty F-SEID (`:1038`);
- a subscribed address inside the pool is not compared with the ones given out (`smf_context.cpp:1201`), so it is
  given to another UE as well, and the release of one of them frees it for a third.
  `docs/DEPLOY_SA5G_BASIC_STATIC_UE_IP.md:77` deploys this: 12.1.1.4, with the pool 12.1.1.0/26 of
  `docker-compose/conf/basic_nrf_config.yaml:249`;
- a subscribed address below the pool counts as in it when it is returned (`smf_paa_dynamic.hpp:140` has no lower
  bound): the bitmap grows by a word, after which addresses beyond the pool are given out;
- a Deregistration Request in an Initial UE Message is only logged (`amf_n1.cpp:614`), ids are moved
  to the new connection before the message is checked (`:374`), and an idle UE cannot be
  paged, since its NGAP context is removed (`amf_n2.cpp:324-335`).

## 4. Fairness

- `PfcpStack`: none. The tasks that own the stack dispatch no time-out, the network and the
  applications owe nothing, so nothing need ever happen to a procedure.
- `SmfAssociation`: timers fire, the N4 task drains its queue, the UDP thread finishes what it
  began. That timers fire is what `IttiTimer` is about: it holds while no removal disturbs the
  manager (`FiresUndisturbed`), and `timer_lost_wakeup` shows the exception, after which the
  heartbeats of all UPFs pause until another timer is set up. `SilentIsGivenUp` is therefore
  relative to a timer service without that defect.
- `IttiTimer`: the clock advances, the manager is scheduled, a thread that has begun `timer_setup` finishes
  it, and the main thread goes through a shutdown that was asked for. A spurious wake-up is possible but never owed.
- `PduSession`: the task of the SMF and the tasks of the UPFs take every message that is in
  their queue, per procedure. Nothing is owed by the AMF, the UEs and the heartbeats, and a
  message may be lost.
- `AmfConnection`: the three tasks go on, the wait for the SMF has a time-out, and timers
  fire (relative to the timer service, as above). gNB and UEs owe nothing, except that a release
  command is carried out, which the model makes one step.
- `NrfRegistry`: ticks, the task thread and HTTP threads that have begun; punctual NFs send
  heartbeats. No other request is owed, and a lost tick is not either.

## 5. Proofs

TLAPS checks the following for every value of the constants that satisfies the named
assumptions of the modules, which TLC evaluates in the runs:

- `StackAssumption`, `TimerAssumption`, `AssociationAssumption`, `RegistryAssumption`,
  `BoundsAssumption`: types of the constants, that periods and widths are not 0, that a `size_t` is wider
  than an `int32_t`, and that the hashes of two node ids differ;
- `NoProfileAssumption`, `NoUeAssumption`, `NamesAssumption`: the marks for nothing are no ordinary
  values, and the SMF is not one of the UPFs;
- `InitRanAssumption`: the UEs are connected at the start, under RAN UE NGAP IDs that differ;
- `AddressAssumption`: an address is a number, its distance from the first one of the pool, also when it is
  subscribed to: inside the pool, above it or below it;
- `PathAssumption`: a path is not empty and visits no UPF twice.

Every safety property of a passing run, and every action property of one, is stated by a
theorem. A theorem that needs more than the assumptions says so in its `ASSUME`:

| hypothesis | theorems | what it excludes |
|---|---|---|
| `~TimeoutsDispatched` | `NotExecutedTwice` | a task that calls `time_out_event`; SMF and UPF do not |
| `NumbersDiffer` | `NoLateRetry`, `ResponsesFindTheirRequest` | a stack that has given all 2^24 numbers of the header and begins again; `FewNumbersDiffer` shows that it holds up to then, wherever the counter starts |
| `~Ties` | `Implements` | two timers with one `time_out`, of which `std::set` keeps one |
| `ClearHashes` | `OnlyFailedLeave` | two node ids of which one is found under what the truncation makes of the other; the hash of an IPv4 address is the address, so those never are |
| `OneUpfPaths` | `PacketsReachTheHolder`, `OnlyOwnIsDeleted` | paths of two UPFs and more, where `up_fseid` is overwritten (run `n4_path`) |

`PfcpStackProofs`, in layers, each an invariant with its initial, step and temporal part:

1. `TypeCorrect`: `TypeOK`.
2. `MapInv` adds `Fresh` (nothing is known about ids not generated yet),
   `PendingIsMapped`, and `MappedIsUnanswered`. `PendingIsMapped` alone is not inductive: a
   new transaction must not have a number already (`Fresh`), and `OneResponseSent` needs that
   an answered transaction has lost its number (`MappedIsUnanswered`). Theorems `MapsAgree`
   and `AnsweredOnce`.
3. `HandInv` adds `OnlySendable` (only requests that can be answered and their responses are
   ever on the wire) and `ClosedByResponse` (no response was handed up while
   a procedure is not triggered, and afterwards its filter refuses all that can be on the wire).
   Theorem `HandedUpOnce`. It uses `OneProcedurePerTrxn`, which follows from
   `PendingIsMapped`, so that closing one procedure says nothing about another.
4. `FlightInv` adds `LiveIsPending` (a request that is with the application holds its number) and
   that no time-out is queued. Theorem `NotExecutedTwice`; with time-outs dispatched a cleanup
   timer frees the number under a slow application and the property fails.
5. `Given(n, i)` is `seq_num` of stack n after i increments. `Numbered` says that the counter is at one of these
   and that own procedures and retry timers are under earlier ones, so that the next number is
   new (`FreshNumber`). `RetryInv` adds `TimerOfProc` (the only retry timer under the number of an own
   procedure is the one it would stop) and `Quiet` (a procedure with its response has stopped
   it). Theorem `NoLateRetry`.
6. `OwnInv` adds that a message belongs to a request of its source or of its destination (`NetNamed`), that the messages that
   belong to requests of one entity have numbers it has given since it was built (`Counted`), so that no two of its requests
   have one number (`OneNumber`), that the procedure of an own request is under the number the request carries (`Requests`),
   and that a request is answered under the number it came with (`HandedNamed`). A response to an entity has the number of
   its own request: it finds the procedure of that one, of a peer's request, or none, but not of another own
   request. Nothing is assumed about the numbers of peers. Theorem `ResponsesFindTheirRequest`.

`SmfAssociationProofs`: `RefInv` adds to `TypeOK` that the two threads hold objects that exist, and that the graph has
the object of each UPF under that UPF. The graph changes in two ways only (`Added`, `Gone`), which gives
`GraphIsBounded`, `OnlyFailedLeave` and `FailedLeave`. `SentInv` adds to `FailureNeedsHeartbeats` that every retry of an
object but the one in progress has been sent (`RetriesCounted`); left-over time-outs of a former
association count as retries too, so the bound is `MaxRetries` and not one more (`FailureIsEarned`). `HeartbeatAlive` is
inductive with `TimerOwners`: a running timer whose id an object keeps is for the UPF of that object,
so that the `timer_remove` of one association stops no heartbeat of another (`HeartbeatGoesOn`). Neither needs
anything of the hashes. Timer ids are taken to differ here: where the unlocked increment gives two timers one id
(`IttiTimer`), a `timer_remove` can stop the heartbeat of another association.

`IttiTimerProofs`: `TypeCorrect`, `TimersKept` (the inductive invariant `TimersAreKept`:
`current_timer` is at work exactly from `Pick` to `Send`, a timer is at one place only and at none
after it fired, nothing is sent early, no two pending timers share a time) and `Implements`: with `~Ties` every step is a
step of `TimerService` or leaves it alone, under the refinement mapping that takes the
pending timers to be those being set up, the set, and `current_timer` while that is at work. Ids
need not differ: with `Racing` the invariant speaks of the numbers of calls.

`NrfRegistryProofs`: `RegInv` adds to `TypeOK` that a profile exists while it is registered, a request works on it, or
a slot does (`TypeCorrect`). `Watch` says which timer or slot watches over a profile, at every
point of a registration and of a heartbeat: the first timer until a heartbeat comes, the periodic
one from then on (`WatchedAfterRegistration`). `Timely` bounds the two countdowns of a punctual NF from below by the time
since its last heartbeat: the first timer is disconnected before it runs out, and when the periodic one
runs out, a heartbeat has come since it was started, although the slot may wipe out the mark of a
later one. `InTime` adds that it is on no list and that no slot is about to suspend it (`PunctualStays`).

`AmfConnectionProofs`: `Types` gives contexts, maps and queues their types (`TypeCorrect`). `NgapInv` follows a
connection through the queues: it is in one of them at a time (`OneStage`), which tells what of
it the maps know already (`Stages`); where its end is announced, nothing else of it is under way
(`Ends`); and the map by RAN UE NGAP ID gives a context with that id (`RanNames`). With these the
two maps agree whenever the gNB uses a connection (`NamesAgree`).

`AmfSupervisionProofs`: `NasInv` adds to `SessionsFollow` that the NAS context of a UE is that of the latest connection that the N1
task has handled (`Latest`), and that later messages of a connection come after (`Owned`, `Leaves`); theorem
`SessionsAreKept`, and from the same invariants and `InHand` `OldReleaseStartsNothing`. `OrderInv` says that, of the connections a UE
has opened and that are still on their way, it waits for the last one (`InOrder`, `Settles`), that a connection ends once (`Endings`), and
that for a UE that is out of reach the end of its latest connection is queued, a timer runs, or its message is
queued (`Watching`), or the release is in the hands of the N2 task between the comparison of the ids and the start of the
timer (`InHand`: the connection it works on was the current one, and no newer one of the UE is set up before it is
done); theorem `OutOfReachIsWatched`. The order matters because the end of an old connection starts
no timer: that of the latest one must still come.

`AddressPoolProofs`: `PoolOK` says which bitmaps the allocator can reach: all words of the range are there, no bit of
them is free beyond the range, and there may be others, the first of them added by the return of an
address below the pool. `AllocatesLowest`: the address given out was free, no free address of the range is lower, it is inside the range
as long as no word was added, and afterwards exactly it is taken. `FreesOne` is its counterpart, for any
address that is returned.

`PduSessionProofs`, for any number of UEs, UPFs, contexts, losses and failures:

- `SwitchAgrees`: `SwitchInv` adds to `SwitchConsistent` that the UP SEIDs in use are at most the
  number generated (`SeidsCount`), so that a new session is under a new SEID.
- `AddressesAreExclusive`: `AddressInv` adds to `AddressExclusive` the shape of the contexts, that
  `cur` names one of them, that the pool is `PoolOK`, and that only contexts with a graph have
  procedures (a context without one is no holder, and must not become one). One lemma per handler
  shows that it leaves addresses and graphs alone, or is an allocation or a return; these are the
  lemmas of `AddressPoolProofs`. Subscribed addresses may lie anywhere: one inside the pool is taken and
  freed without regard to the bitmap, which touches no other address of it, and neither do the words
  that the return of an address below the pool adds to it.
- `TypeCorrect` and `TunnelsComeFirst`: `TypesInv` says what contexts are (their identifiers, their edges, of which `next`
  is known only behind a UPF that has answered: `HopsOK`), what a message refers to, in particular that
  a context whose UPF is asked has the next hop of that UPF (`HopOpen`), and what the lookup tables hold. A message is about
  a context that exists and stays, so a late answer is about the same session as its request.
- `PacketsReachTheHolder` and `OnlyOwnIsDeleted`: `NamesInv` says that a SEID kept at the SMF or under way in a message names, at
  that UPF, the session of its own context or none (`SeidOK`); that a context has at most one
  establishment under way, and that one which was deleted keeps no session (`Gone`); and that the rules of a session and of the messages
  about it are for the address of its context (`RuleNames`). The rules of other contexts may stay in a
  table, but lead into no session. With two UPFs on a path `SeidOK` is what fails first.

Only model-checked: the liveness properties (`SilentIsGivenUp`, `FiresUndisturbed`,
`NeverHeardIsRemoved`, `SilentIsSuspended`, `DeletionReturnsAddress`, `SilentIsReleased`), since fairness and `ENABLED` are
out of the prover's reach, and the four properties that the runs refute.

## 6. What is left out, and the plan

Not modelled within the modelled parts:

- the contents of messages, the function features of a UPF, attributes of a profile other than
  its status, logging; the data races on `std::map` and `std::set`, which have no defined outcome;
- of PDU sessions: handover, several QoS flows and their modification, IPv6, T3592 and the N1 and N2
  dialogue it guards, an existing PDU session taken over, uplink classifiers and branching paths,
  UPFs that leave the choice of TEIDs to the SMF, the option
  `enable_dl_pdr_in_session_establishment`;
- of the UPF: usage and session reports, buffering, rules that are malformed, the BPF data path, and a
  restart, of which the SMF's handling is empty (see the findings);
- of the AMF: paging, handover, several gNBs, the dialogue about PDU sessions, and registration.

The lines that are mapped are about six thousand of nearly three million: most of the
repository is generated codecs and vendored libraries, copied into each network function, which
this project does not set out to model.

Next, in this order:

1. AMF registration with the 5G-AKA steps of AUSF and UDM.
2. `NrfSubscriptions` on top of `NrfRegistry`: what a subscriber was told last against what is
   registered.
3. `UpfGraph` (path selection) and `NssfSelection` as algorithms against reference
   definitions; `PcfPolicies`.

## 7. How to run

`tlc -config <file>.cfg <module>` for each run of `PROJECT.json`; `tlapm` on each of the eight modules
whose name ends in `Proofs`: `PfcpStackProofs`, `SmfAssociationProofs`, `IttiTimerProofs`, `AddressPoolProofs`,
`PduSessionProofs`, `AmfConnectionProofs`, `AmfSupervisionProofs` and `NrfRegistryProofs`.
